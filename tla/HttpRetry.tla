------------------------------ MODULE HttpRetry ------------------------------
(***************************************************************************)
(* _request of HttpTransport and AsyncHttpTransport (transport.py): one    *)
(* caller, calls one after the other, each tried up to Retries + 1 times.  *)
(* The server may apply a request whose answer the caller never sees, or   *)
(* sees as an error, and may do so after the caller gave up on it.         *)
(*                                                                         *)
(* A request is a pair <<call, try>>.  Which call it is, and what applying *)
(* it does, is left to the modules that extend this one.                   *)
(***************************************************************************)
EXTENDS Naturals, FiniteSets

CONSTANTS
    MaxCalls,   \* bound: calls one caller makes
    Retries     \* max(0, retries), 2 by default

ASSUME RetryAssumption == MaxCalls \in Nat /\ Retries \in Nat

VARIABLES
    issued,     \* calls made so far
    phase,      \* where _request is: "idle" between calls
    tries,      \* tries[c]: the try call c is at, or ended at
    network,    \* requests on their way to the server, or in its handlers
    answers,    \* answers sent on the connection that is open
    applied,    \* requests whose effect the server has committed
    failed      \* calls that ended in an exception

vars == <<issued, phase, tries, network, answers, applied, failed>>

Calls    == 1..MaxCalls
Tries    == 0..Retries
Requests == Calls \X Tries
Current  == <<issued, tries[issued]>>

\* "unreadable": not a JSON object.  "server_error": a status of 500 or more.
Answers == {"ok", "client_error", "server_error", "unreadable"}

Init ==
    /\ issued = 0
    /\ phase = "idle"
    /\ tries = [c \in Calls |-> 0]
    /\ network = {} /\ answers = {} /\ applied = {} /\ failed = {}

Call ==
    /\ phase = "idle" /\ issued < MaxCalls
    /\ issued' = issued + 1
    /\ phase' = "sending"
    /\ UNCHANGED <<tries, network, answers, applied, failed>>

Return == phase' = "idle" /\ UNCHANGED <<tries, failed>>
Raise  == phase' = "idle" /\ failed' = failed \cup {issued} /\ UNCHANGED tries

\* Mutation: running out of tries is taken for success.
RetryOrReturn ==
    IF tries[issued] < Retries
    THEN phase' = "sending" /\ tries' = [tries EXCEPT ![issued] = @ + 1] /\ UNCHANGED failed
    ELSE Return

\* A try that may be repeated failed.
RetryOrRaise ==
    IF tries[issued] < Retries
    THEN phase' = "sending" /\ tries' = [tries EXCEPT ![issued] = @ + 1] /\ UNCHANGED failed
    ELSE Raise

Send ==
    /\ phase = "sending"
    /\ phase' = "waiting"
    /\ network' = network \cup {Current}
    /\ UNCHANGED <<issued, tries, answers, applied, failed>>

\* No connection: NetworkError before anything was sent.
ConnectFails ==
    /\ phase = "sending"
    /\ RetryOrRaise
    /\ UNCHANGED <<issued, network, answers, applied>>

\* Mutation: only an answer that came too late is given up.
TimedOutIfAnswered ==
    /\ phase = "waiting" /\ answers # {}
    /\ RetryOrRaise
    /\ answers' = {}
    /\ UNCHANGED <<issued, network, applied>>

\* The timeout of the client, or a connection that broke: the request may be
\* lost, its answer may be, or either may still be on its way.
TimedOut ==
    /\ phase = "waiting"
    /\ RetryOrRaise
    /\ answers' = {}
    /\ UNCHANGED <<issued, network, applied>>

\* The server handles a request and answers it.  A server error may come after
\* the commit, from the handler itself or from a proxy in front of it.  Nobody
\* listens any more to the answer of a try that was given up.
Serve(r, answer, commits) ==
    /\ r \in network
    /\ answer = "ok" => commits
    /\ answer = "client_error" => ~commits
    /\ network' = network \ {r}
    /\ applied' = IF commits THEN applied \cup {r} ELSE applied
    /\ answers' = IF r = Current /\ phase = "waiting"
                  THEN answers \cup {[request |-> r, status |-> answer]}
                  ELSE answers
    /\ UNCHANGED <<issued, phase, tries, failed>>

\* Mutation: a server error of the last try is passed on as an answer.
ReceiveLenient ==
    /\ phase = "waiting"
    /\ \E a \in answers :
        /\ a.request = Current
        /\ \/ a.status \in {"ok", "server_error"} /\ Return
           \/ a.status \in {"client_error", "unreadable"} /\ Raise
    /\ answers' = {}
    /\ UNCHANGED <<issued, network, applied>>

\* What the status decides: only a server error is worth another try.
Receive ==
    /\ phase = "waiting"
    /\ \E a \in answers :
        /\ a.request = Current
        /\ \/ a.status = "ok" /\ Return
           \/ a.status = "server_error" /\ RetryOrRaise
           \/ a.status \in {"client_error", "unreadable"} /\ Raise
    /\ answers' = {}
    /\ UNCHANGED <<issued, network, applied>>

Transport == Send \/ ConnectFails \/ TimedOut \/ Receive
Server    == \E r \in network, answer \in Answers, commits \in BOOLEAN : Serve(r, answer, commits)

Next == Call \/ Transport \/ Server

\* The client's timeout is finite: a call under way goes on by itself.
Fairness == WF_vars(Transport)

Spec == Init /\ [][Next]_vars
FairSpec == Spec /\ Fairness

-----------------------------------------------------------------------------
(* Properties.                                                             *)

TypeOK ==
    /\ issued \in 0..MaxCalls
    /\ phase \in {"idle", "sending", "waiting"} /\ (phase # "idle" => issued \in Calls)
    /\ tries \in [Calls -> Tries]
    /\ network \subseteq Requests
    /\ applied \subseteq Requests
    /\ answers \subseteq [request : Requests, status : Answers]
    /\ failed \subseteq Calls

\* Calls that returned to the caller with an answer.
Acked == {c \in Calls : c <= issued /\ ~(c = issued /\ phase # "idle")} \ failed

\* At least once: a call that returned has been committed by the server, in the
\* try whose answer was taken, however many tries were lost before it.
AcknowledgedIsApplied == \A c \in Acked : <<c, tries[c]>> \in applied

\* What the server says is true of it, and a call ends once.
AnswersAreTrue ==
    /\ \A a \in answers : a.status = "ok" => a.request \in applied
    /\ \A c \in failed : c <= issued /\ ~(c = issued /\ phase # "idle")

\* No more often than asked: what the server has, or may yet receive, was sent
\* by a try that was really made; so a call whose first try was answered is
\* never applied a second time, not even late.
AppliedWithinTries ==
    \A r \in applied \cup network : r[1] <= issued /\ r[2] <= tries[r[1]]

\* The transport does what its caller relies on: DeliveryLog, where neither
\* tries nor connections exist.
Log == INSTANCE DeliveryLog WITH acked <- Acked
ImplementsDeliveryLog == Log!Spec

=============================================================================
