----------------------------- MODULE DeliveryLog -----------------------------
(***************************************************************************)
(* What the HTTP transports of the SDK promise their caller, without the   *)
(* way they keep it: calls are made one after the other; a call that is    *)
(* acknowledged has been applied by the server, at least once and at most  *)
(* once per try; any other call is reported as failed, and may have been   *)
(* applied all the same.  An application may come late, after the caller   *)
(* has gone on to later calls.                                             *)
(***************************************************************************)
EXTENDS Naturals

CONSTANTS
    MaxCalls,   \* bound: calls one caller makes
    Retries     \* how often a call is repeated at most

VARIABLES
    issued,     \* calls 1..issued have been made
    applied,    \* pairs <<call, try>> the server has applied
    acked,      \* calls that returned an answer
    failed      \* calls that raised

vars == <<issued, applied, acked, failed>>

Calls == 1..MaxCalls
Tries == 0..Retries

Init == issued = 0 /\ applied = {} /\ acked = {} /\ failed = {}

Pending == {c \in Calls : c <= issued} \ (acked \cup failed)

Issue ==
    /\ issued < MaxCalls /\ Pending = {}
    /\ issued' = issued + 1
    /\ UNCHANGED <<applied, acked, failed>>

Apply ==
    /\ \E c \in Calls, t \in Tries :
        /\ c <= issued
        /\ <<c, t>> \notin applied
        /\ applied' = applied \cup {<<c, t>>}
    /\ UNCHANGED <<issued, acked, failed>>

Acknowledge ==
    /\ \E c \in Pending :
        /\ \E t \in Tries : <<c, t>> \in applied
        /\ acked' = acked \cup {c}
    /\ UNCHANGED <<issued, applied, failed>>

Report ==
    /\ \E c \in Pending : failed' = failed \cup {c}
    /\ UNCHANGED <<issued, applied, acked>>

Next == Issue \/ Apply \/ Acknowledge \/ Report

Spec == Init /\ [][Next]_vars
=============================================================================
