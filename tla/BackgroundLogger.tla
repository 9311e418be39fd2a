--------------------------- MODULE BackgroundLogger ---------------------------
(***************************************************************************)
(* The trace writes of ContextTraceFastAPIMiddleware                       *)
(* (integrations/fastapi.py): requests hand their trace to _submit_log,    *)
(* which awaits the write, queues it as a task of the event loop or drops  *)
(* it; _background_log_done frees the queue slot; drain waits for the      *)
(* tasks it finds.                                                         *)
(*                                                                         *)
(* An action is what the event loop runs between two suspensions.  A write *)
(* may be suspended in an extractor of the application, which is the only  *)
(* place where it awaits anything; whether the extractors ever return, and *)
(* whether the writes succeed, is up to the application and the store.     *)
(***************************************************************************)
EXTENDS Naturals, FiniteSets

CONSTANTS
    Requests,          \* requests that pass the middleware's filters
    Drains,            \* calls of drain()
    MaxPendingLogs,    \* max_pending_logs
    BackgroundLogging, \* background_logging and not raise_logging_errors
    EagerGather        \* asyncio.gather counts tasks that are done at once (Python 3.12 on)

ASSUME RequestsAssumption == IsFiniteSet(Requests)
ASSUME MaxPendingAssumption == MaxPendingLogs \in Nat \ {0}
ASSUME FlagsAssumption == BackgroundLogging \in BOOLEAN /\ EagerGather \in BOOLEAN

VARIABLES
    log,          \* log[r]: where the write of request r is
    outcome,      \* outcome[r]: how it ended
    cancelling,   \* requests whose task has been told to cancel
    pendingLogs,  \* _pending_logs
    attempted,    \* metrics["traces_attempted"]
    dropped,      \* metrics["logging_dropped"]
    failures,     \* metrics["logging_failures"]
    drain,        \* drain[d]: where the call is
    children,     \* children[d]: the tasks the call gathered
    awaited       \* awaited[d]: those of them whose end gather has not seen

metrics == <<attempted, dropped, failures>>
drains  == <<drain, children, awaited>>
vars    == <<log, outcome, cancelling, pendingLogs, metrics, drains>>

\* "serving": the endpoint runs.  "inline": the request awaits the write of its
\* trace, or of the exception that ended it.  "queued": a task that has not
\* run yet; "running": one that has.  "ended": the task is done and its callback
\* is scheduled.
Places   == {"serving", "inline", "inline_error", "queued", "running", "ended",
             "settled", "dropped"}
Outcomes == {"none", "written", "failed", "cancelled"}

Init ==
    /\ log = [r \in Requests |-> "serving"]
    /\ outcome = [r \in Requests |-> "none"]
    /\ cancelling = {} /\ pendingLogs = {}
    /\ attempted = 0 /\ dropped = 0 /\ failures = 0
    /\ drain = [d \in Drains |-> "idle"]
    /\ children = [d \in Drains |-> {}]
    /\ awaited = [d \in Drains |-> {}]

Move(r, place) == log' = [log EXCEPT ![r] = place]
End(r, how)    == outcome' = [outcome EXCEPT ![r] = how]

-----------------------------------------------------------------------------
(* _submit_log and _log_exception, when the endpoint has answered or raised. *)

SubmitInline(r) ==
    /\ log[r] = "serving" /\ ~BackgroundLogging
    /\ attempted' = attempted + 1
    /\ Move(r, "inline")
    /\ UNCHANGED <<outcome, cancelling, pendingLogs, dropped, failures, drains>>

\* Mutation: the queue is checked for being above its limit.
HasRoomLate == Cardinality(pendingLogs) <= MaxPendingLogs

\* A task whose callback has not run yet still takes a slot.
HasRoom == Cardinality(pendingLogs) < MaxPendingLogs

SubmitQueued(r) ==
    /\ log[r] = "serving" /\ BackgroundLogging /\ HasRoom
    /\ attempted' = attempted + 1
    /\ pendingLogs' = pendingLogs \cup {r}
    /\ Move(r, "queued")
    /\ UNCHANGED <<outcome, cancelling, dropped, failures, drains>>

SubmitDropped(r) ==
    /\ log[r] = "serving" /\ BackgroundLogging /\ ~HasRoom
    /\ attempted' = attempted + 1
    /\ dropped' = dropped + 1
    /\ Move(r, "dropped")
    /\ UNCHANGED <<outcome, cancelling, pendingLogs, failures, drains>>

\* The endpoint raised, or the request was cancelled: not an attempt of a trace.
SubmitError(r) ==
    /\ log[r] = "serving"
    /\ Move(r, "inline_error")
    /\ UNCHANGED <<outcome, cancelling, pendingLogs, metrics, drains>>

-----------------------------------------------------------------------------
(* The write itself: _log_trace, _log_exception.                           *)

Start(r) ==
    /\ log[r] = "queued" /\ r \notin cancelling
    /\ Move(r, "running")
    /\ UNCHANGED <<outcome, cancelling, pendingLogs, metrics, drains>>

\* Where a write that ends leaves its request.
After(r) == IF log[r] = "running" THEN "ended" ELSE "settled"

InProgress(r) == log[r] \in {"inline", "inline_error", "running"}

Written(r) ==
    /\ InProgress(r) /\ r \notin cancelling
    /\ End(r, "written") /\ Move(r, After(r))
    /\ UNCHANGED <<cancelling, pendingLogs, metrics, drains>>

\* Mutation: the exception is raised again before it is counted.
FailedUncounted(r) ==
    /\ InProgress(r) /\ r \notin cancelling
    /\ failures' = IF log[r] = "running" THEN failures + 1 ELSE failures
    /\ End(r, "failed") /\ Move(r, After(r))
    /\ UNCHANGED <<cancelling, pendingLogs, attempted, dropped, drains>>

\* Any Exception of an extractor or of the client is counted where it is caught.
Failed(r) ==
    /\ InProgress(r) /\ r \notin cancelling
    /\ failures' = failures + 1
    /\ End(r, "failed") /\ Move(r, After(r))
    /\ UNCHANGED <<cancelling, pendingLogs, attempted, dropped, drains>>

\* Mutation: a write that has begun swallows its cancellation and keeps waiting.
CancelledUnlessRunning(r) ==
    /\ \/ log[r] = "queued" /\ r \in cancelling /\ Move(r, "ended")
       \/ log[r] \in {"inline", "inline_error"} /\ Move(r, "settled")
    /\ End(r, "cancelled")
    /\ UNCHANGED <<cancelling, pendingLogs, metrics, drains>>

\* CancelledError is no Exception: nothing is counted here.  A task ends with it
\* where it was suspended, or before its first step; an inline write with its request.
Cancelled(r) ==
    /\ \/ log[r] \in {"queued", "running"} /\ r \in cancelling /\ Move(r, "ended")
       \/ log[r] \in {"inline", "inline_error"} /\ Move(r, "settled")
    /\ End(r, "cancelled")
    /\ UNCHANGED <<cancelling, pendingLogs, metrics, drains>>

\* Mutation: every result that is not a written trace is counted.
ResultRaisesOnFailure(r) == outcome[r] # "written"

\* task.result() raises: only a cancellation leaves _log_trace as an exception.
ResultRaises(r) == outcome[r] = "cancelled"

\* Mutation: the slot is freed only when the task has a result.
FreedOnSuccess(r) == IF ResultRaises(r) THEN {} ELSE {r}

Freed(r) == {r}

\* _background_log_done, and after it the callbacks gather has put on the task.
BackgroundLogDone(r) ==
    /\ log[r] = "ended"
    /\ pendingLogs' = pendingLogs \ Freed(r)
    /\ failures' = IF ResultRaises(r) THEN failures + 1 ELSE failures
    /\ awaited' = [d \in Drains |-> awaited[d] \ {r}]
    /\ Move(r, "settled")
    /\ UNCHANGED <<outcome, cancelling, attempted, dropped, drain, children>>

-----------------------------------------------------------------------------
(* drain.                                                                  *)

\* Mutation: only the tasks that have begun are waited for.
GatheredRunning == {r \in pendingLogs : log[r] = "running"}

\* The tasks whose end gather waits for.
Gathered == IF EagerGather THEN {r \in pendingLogs : log[r] # "ended"} ELSE pendingLogs

DrainStart(d) ==
    /\ drain[d] = "idle"
    /\ children' = [children EXCEPT ![d] = pendingLogs]
    /\ awaited' = [awaited EXCEPT ![d] = Gathered]
    /\ drain' = [drain EXCEPT ![d] = IF Gathered = {} THEN "returned" ELSE "waiting"]
    /\ UNCHANGED <<log, outcome, cancelling, pendingLogs, metrics>>

\* The caller gives up (a shutdown timeout): cancelling gather cancels its children.
DrainCancel(d) ==
    /\ drain[d] = "waiting"
    /\ cancelling' = cancelling \cup {r \in children[d] : log[r] \in {"queued", "running"}}
    /\ drain' = [drain EXCEPT ![d] = "cancelling"]
    /\ UNCHANGED <<log, outcome, pendingLogs, metrics, children, awaited>>

DrainReturn(d) ==
    /\ drain[d] \in {"waiting", "cancelling"} /\ awaited[d] = {}
    /\ drain' = [drain EXCEPT ![d] = IF @ = "waiting" THEN "returned" ELSE "cancelled"]
    /\ UNCHANGED <<log, outcome, cancelling, pendingLogs, metrics, children, awaited>>

-----------------------------------------------------------------------------
Request(r) == \/ SubmitInline(r) \/ SubmitQueued(r) \/ SubmitDropped(r) \/ SubmitError(r)
              \/ Written(r) \/ Failed(r)

\* What the event loop has already scheduled.
Loop(r) == Start(r) \/ (r \in cancelling /\ Cancelled(r)) \/ BackgroundLogDone(r)

Next == \/ \E r \in Requests : Request(r) \/ Cancelled(r) \/ Loop(r)
        \/ \E d \in Drains : DrainStart(d) \/ DrainCancel(d) \/ DrainReturn(d)

\* The event loop runs what is ready, in turn.  Nothing makes a write end.
Fairness == /\ \A r \in Requests : WF_vars(Loop(r))
            /\ \A d \in Drains : WF_vars(DrainReturn(d))

Spec == Init /\ [][Next]_vars /\ Fairness

\* The application's extractors return, and so does the client.
ServedSpec == Spec /\ \A r \in Requests : WF_vars(Written(r) \/ Failed(r))

-----------------------------------------------------------------------------
(* Properties.                                                             *)

TypeOK ==
    /\ log \in [Requests -> Places]
    /\ outcome \in [Requests -> Outcomes]
    /\ cancelling \subseteq Requests /\ pendingLogs \subseteq Requests
    /\ attempted \in Nat /\ dropped \in Nat /\ failures \in Nat
    /\ drain \in [Drains -> {"idle", "waiting", "cancelling", "returned", "cancelled"}]
    /\ children \in [Drains -> SUBSET Requests]
    /\ awaited \in [Drains -> SUBSET Requests]

\* docs/integrations/fastapi.md: the queue never holds more than max_pending_logs
\* writes, and it holds exactly those that are on their way: a slot is neither
\* leaked by a write that fails or is cancelled nor freed while its task lives.
QueueHoldsUnsettled ==
    /\ Cardinality(pendingLogs) <= MaxPendingLogs
    /\ pendingLogs = {r \in Requests : log[r] \in {"queued", "running", "ended"}}

\* metrics["logging_failures"] counts every write that failed, whether the
\* exception was swallowed by _log_trace, by _log_exception or surfaced in the
\* task's callback, exactly once (a write that is cancelled with its request is
\* not one).
With(how) == {r \in Requests : outcome[r] = how}
LostTasks == {r \in With("cancelled") : r \in cancelling /\ log[r] = "settled"}

EveryFailureCountedOnce ==
    failures = Cardinality(With("failed")) + Cardinality(LostTasks)

\* "Wait for background trace writes" (drain's docstring), "flush queued writes"
\* (docs/integrations/fastapi.md): when drain returns, every write that was
\* pending when it was called has ended, and none of them by being cancelled
\* unless another call of drain was.
DrainWaits ==
    \A d \in Drains : drain[d] = "returned" =>
        \A r \in children[d] :
            \/ outcome[r] \in {"written", "failed"}
            \/ outcome[r] = "cancelled" /\ \E e \in Drains : drain[e] \in {"cancelling", "cancelled"}

\* If every write comes back, every slot of the queue is freed and every drain
\* comes to an end, also when another drain is cancelled or requests keep coming.
SlotsAreFreed == \A r \in Requests : r \in pendingLogs ~> r \notin pendingLogs

DrainReturns == \A d \in Drains : drain[d] = "waiting" ~> drain[d] \in {"returned", "cancelled"}

WritesAndDrainsEnd == SlotsAreFreed /\ DrainReturns

-----------------------------------------------------------------------------
(* The inductive invariant behind the safety properties.                   *)

Task(r) == log[r] \in {"queued", "running", "ended", "settled"}

RequestInv(r) ==
    /\ outcome[r] = "none" <=> log[r] \notin {"ended", "settled"}
    /\ r \in cancelling => Task(r) /\ \E d \in Drains : drain[d] \in {"cancelling", "cancelled"}
    /\ log[r] = "ended" /\ outcome[r] = "cancelled" => r \in cancelling

DrainInv(d) ==
    /\ drain[d] = "returned" => awaited[d] = {}
    /\ \A r \in children[d] : /\ Task(r)
                              /\ r \notin awaited[d] => outcome[r] # "none"
                              /\ outcome[r] = "cancelled" => r \in cancelling

IndInv == /\ TypeOK /\ QueueHoldsUnsettled /\ EveryFailureCountedOnce
          /\ \A r \in Requests : RequestInv(r)
          /\ \A d \in Drains : DrainInv(d)
=============================================================================
