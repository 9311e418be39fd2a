----------------------------- MODULE HostedNames -----------------------------
(***************************************************************************)
(* Rows that the hosted API makes on first use: the development user       *)
(* (get_current_user), the project of a trace (start_trace), an eval set.  *)
(* Each is looked for and, if it is missing, inserted under a UNIQUE       *)
(* constraint; a request that loses the race between the two ends in a     *)
(* server error and rolls back.  The SDK's transport tries such a request  *)
(* again (HttpRetry), from its first query.                                *)
(*                                                                         *)
(* A request needs the rows 1..Levels, in this order.                      *)
(***************************************************************************)
EXTENDS Naturals

CONSTANTS
    Clients,    \* clients that call the API for the first time
    Levels,     \* rows one request may have to make: 2 for start_trace
    Retries,    \* retries of the transport, 2 by default
    None

ASSUME NamesAssumption == Levels \in Nat \ {0} /\ Retries \in Nat /\ None \notin Clients

VARIABLES
    rows,       \* rows that are committed
    inserted,   \* inserted[l]: the request whose uncommitted INSERT holds row l
    pc,         \* where the request of a client is
    level,      \* the row it is at
    tries       \* server errors its transport has seen

vars == <<rows, inserted, pc, level, tries>>

Rows == 1..Levels

Init ==
    /\ rows = {}
    /\ inserted = [l \in Rows |-> None]
    /\ pc = [c \in Clients |-> "select"]
    /\ level = [c \in Clients |-> 1]
    /\ tries = [c \in Clients |-> 0]

\* On to the next row, or, with the last one there, to the trace itself.
Passed(c) ==
    IF level[c] = Levels
    THEN pc' = [pc EXCEPT ![c] = "answered"] /\ UNCHANGED level
    ELSE pc' = [pc EXCEPT ![c] = "select"] /\ level' = [level EXCEPT ![c] = @ + 1]

Found(c) ==
    /\ pc[c] = "select" /\ level[c] \in rows
    /\ Passed(c)
    /\ UNCHANGED <<rows, inserted, tries>>

Missing(c) ==
    /\ pc[c] = "select" /\ level[c] \notin rows
    /\ pc' = [pc EXCEPT ![c] = "insert"]
    /\ UNCHANGED <<rows, inserted, level, tries>>

\* The INSERT waits while another one of the same key is uncommitted.
Insert(c) ==
    /\ pc[c] = "insert" /\ level[c] \notin rows /\ inserted[level[c]] = None
    /\ inserted' = [inserted EXCEPT ![level[c]] = c]
    /\ pc' = [pc EXCEPT ![c] = "commit"]
    /\ UNCHANGED <<rows, level, tries>>

\* Mutation: a request that finds its row missing waits for another one's.
CommitAfterOthers(c) ==
    /\ pc[c] = "commit" /\ \A d \in Clients \ {c} : pc[d] # "insert"
    /\ rows' = rows \cup {level[c]}
    /\ inserted' = [inserted EXCEPT ![level[c]] = None]
    /\ Passed(c)
    /\ UNCHANGED tries

Commit(c) ==
    /\ pc[c] = "commit"
    /\ rows' = rows \cup {level[c]}
    /\ inserted' = [inserted EXCEPT ![level[c]] = None]
    /\ Passed(c)
    /\ UNCHANGED tries

\* Mutation: the failed request is sent again from where it failed.
ConflictKeepingPlace(c) ==
    /\ pc[c] = "insert" /\ level[c] \in rows
    /\ IF tries[c] < Retries
       THEN /\ tries' = [tries EXCEPT ![c] = @ + 1]
            /\ UNCHANGED <<pc, level>>
       ELSE pc' = [pc EXCEPT ![c] = "raised"] /\ UNCHANGED <<level, tries>>
    /\ UNCHANGED <<rows, inserted>>

\* IntegrityError: a 500 for the transport.
Conflict(c) ==
    /\ pc[c] = "insert" /\ level[c] \in rows
    /\ IF tries[c] < Retries
       THEN /\ tries' = [tries EXCEPT ![c] = @ + 1]
            /\ pc' = [pc EXCEPT ![c] = "select"] /\ level' = [level EXCEPT ![c] = 1]
       ELSE pc' = [pc EXCEPT ![c] = "raised"] /\ UNCHANGED <<level, tries>>
    /\ UNCHANGED <<rows, inserted>>

Step(c) == Found(c) \/ Missing(c) \/ Insert(c) \/ Commit(c) \/ Conflict(c)
Next == \E c \in Clients : Step(c)

Spec == Init /\ [][Next]_vars
FairSpec == Spec /\ \A c \in Clients : WF_vars(Step(c))

-----------------------------------------------------------------------------
(* Properties.                                                             *)

TypeOK ==
    /\ rows \subseteq Rows
    /\ inserted \in [Rows -> Clients \cup {None}]
    /\ pc \in [Clients -> {"select", "insert", "commit", "answered", "raised"}]
    /\ level \in [Clients -> Rows]
    /\ tries \in [Clients -> 0..Retries]

\* A client that loses a race for a row finds it the next time; so with as many
\* retries as there are rows to make, no first call is lost to the others.
NoStartIsLost == Retries >= Levels => \A c \in Clients : pc[c] # "raised"

\* Two clients never make the same row: whoever is about to commit one is the
\* only one to hold it, and it is not there yet.
OneMaker ==
    \A c \in Clients : pc[c] = "commit" => level[c] \notin rows /\ inserted[level[c]] = c

\* Every first call comes back, though requests wait for each other's rows.
CallsComeBack == \A c \in Clients : <>(pc[c] \in {"answered", "raised"})
=============================================================================
