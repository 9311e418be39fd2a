-------------------------- MODULE IntegrationsProofs ---------------------------
(***************************************************************************)
(* Theorems about the integrations.  The trace writes of the FastAPI       *)
(* middleware, for every number of requests and drains, every queue size   *)
(* and both behaviours of asyncio.gather.  The callback handlers, for all  *)
(* runs, events and contexts and every order of their callbacks: the       *)
(* invariant of each handler is inductive and keeps its runs apart and     *)
(* their answers.                                                          *)
(***************************************************************************)
EXTENDS Integrations, FiniteSetTheorems, SequenceTheorems, TLAPS

-----------------------------------------------------------------------------
(* The middleware.                                                         *)

\* The sets whose sizes the metrics count are finite.
LEMMA Finite ==
    ASSUME NEW S \in SUBSET Requests
    PROVE  /\ IsFiniteSet(S) /\ Cardinality(S) \in Nat
           /\ \A r \in Requests : r \notin S => Cardinality(S \cup {r}) = Cardinality(S) + 1
           /\ \A T \in SUBSET S : Cardinality(T) <= Cardinality(S)
<1>1. IsFiniteSet(S)
  BY RequestsAssumption, FS_Subset
<1>2. Cardinality(S) \in Nat
  BY <1>1, FS_CardinalityType
<1>3. ASSUME NEW r \in Requests, r \notin S PROVE Cardinality(S \cup {r}) = Cardinality(S) + 1
  BY <1>1, <1>3, FS_AddElement
<1>4. ASSUME NEW T \in SUBSET S PROVE Cardinality(T) <= Cardinality(S)
  BY <1>1, FS_Subset
<1> QED
  BY <1>1, <1>2, <1>3, <1>4

\* The constructor establishes the invariant.
THEOREM IndInit == Init => IndInv
<1> SUFFICES ASSUME Init PROVE IndInv
  OBVIOUS
<1>1. Cardinality({}) = 0
  BY FS_EmptySet
<1>2. TypeOK
  BY DEF Init, TypeOK, Places, Outcomes
<1>3. QueueHoldsUnsettled
  BY <1>1, MaxPendingAssumption DEF Init, QueueHoldsUnsettled
<1>4. EveryFailureCountedOnce
  <2>1. With("failed") = {} /\ LostTasks = {}
    BY DEF Init, With, LostTasks
  <2> QED
    BY <1>1, <2>1 DEF Init, EveryFailureCountedOnce
<1>5. (\A r \in Requests : RequestInv(r)) /\ (\A d \in Drains : DrainInv(d))
  BY DEF Init, RequestInv, DrainInv
<1> QED
  BY <1>2, <1>3, <1>4, <1>5 DEF IndInv

\* Every action keeps every variable in its range.
LEMMA TypeStep == TypeOK /\ [Next]_vars => TypeOK'
<1> SUFFICES ASSUME TypeOK, [Next]_vars PROVE TypeOK'
  OBVIOUS
<1> USE DEF TypeOK, Move, End, metrics, drains, Places, Outcomes
<1>1. ASSUME NEW r \in Requests, Request(r) PROVE TypeOK'
  BY <1>1 DEF Request, SubmitInline, SubmitQueued, SubmitDropped, SubmitError, Written, Failed,
     After
<1>2. ASSUME NEW r \in Requests, Cancelled(r) \/ Start(r) \/ BackgroundLogDone(r) PROVE TypeOK'
  BY <1>2 DEF Cancelled, Start, BackgroundLogDone, Freed
<1>3. ASSUME NEW d \in Drains, DrainStart(d) \/ DrainCancel(d) \/ DrainReturn(d) PROVE TypeOK'
  BY <1>3 DEF DrainStart, DrainCancel, DrainReturn, Gathered
<1>4. CASE UNCHANGED vars
  BY <1>4 DEF vars
<1> QED
  BY <1>1, <1>2, <1>3, <1>4 DEF Next, Loop

\* The queue keeps to its limit and to the tasks that are on their way: the only
\* action that fills a slot looks for room, and only the callback frees one.
LEMMA QueueStep == IndInv /\ [Next]_vars => QueueHoldsUnsettled'
<1> SUFFICES ASSUME IndInv, [Next]_vars PROVE QueueHoldsUnsettled'
  OBVIOUS
<1> USE DEF Move, End, metrics, drains
<1>1. /\ TypeOK /\ QueueHoldsUnsettled /\ TypeOK'
  BY TypeStep DEF IndInv
<1>2. ASSUME NEW r \in Requests, SubmitQueued(r) PROVE QueueHoldsUnsettled'
  <2>1. r \notin pendingLogs /\ Cardinality(pendingLogs \cup {r}) = Cardinality(pendingLogs) + 1
    BY <1>1, <1>2, Finite DEF SubmitQueued, QueueHoldsUnsettled, TypeOK
  <2>2. Cardinality(pendingLogs') <= MaxPendingLogs
    BY <1>1, <1>2, <2>1, Finite, MaxPendingAssumption DEF SubmitQueued, HasRoom, TypeOK
  <2>3. pendingLogs' = {q \in Requests : log'[q] \in {"queued", "running", "ended"}}
    BY <1>1, <1>2 DEF SubmitQueued, QueueHoldsUnsettled, TypeOK
  <2> QED
    BY <2>2, <2>3 DEF QueueHoldsUnsettled
<1>3. ASSUME NEW r \in Requests, BackgroundLogDone(r) PROVE QueueHoldsUnsettled'
  <2>1. pendingLogs' = pendingLogs \ {r} /\ log' = [log EXCEPT ![r] = "settled"]
    BY <1>3 DEF BackgroundLogDone, Freed
  <2>2. Cardinality(pendingLogs') <= Cardinality(pendingLogs)
    BY <1>1, <2>1, Finite DEF TypeOK
  <2>3. Cardinality(pendingLogs') \in Nat /\ Cardinality(pendingLogs) \in Nat
    BY <1>1, Finite DEF TypeOK
  <2> QED
    BY <1>1, <2>1, <2>2, <2>3, MaxPendingAssumption DEF QueueHoldsUnsettled, TypeOK
<1>4. ASSUME NEW r \in Requests, pendingLogs' = pendingLogs,
             \/ SubmitInline(r) \/ SubmitDropped(r) \/ SubmitError(r) \/ Start(r)
             \/ Written(r) \/ Failed(r) \/ Cancelled(r)
      PROVE  QueueHoldsUnsettled'
  <2>1. \A q \in Requests : log'[q] \in {"queued", "running", "ended"}
                              <=> log[q] \in {"queued", "running", "ended"}
    BY <1>1, <1>4 DEF SubmitInline, SubmitDropped, SubmitError, Start, Written, Failed,
       Cancelled, After, InProgress, TypeOK
  <2> QED
    BY <1>1, <1>4, <2>1 DEF QueueHoldsUnsettled
<1>5. CASE log' = log /\ pendingLogs' = pendingLogs
  BY <1>1, <1>5 DEF QueueHoldsUnsettled
<1>6. ASSUME NEW d \in Drains, DrainStart(d) \/ DrainCancel(d) \/ DrainReturn(d)
      PROVE  log' = log /\ pendingLogs' = pendingLogs
  BY <1>6 DEF DrainStart, DrainCancel, DrainReturn
<1> QED
  BY <1>2, <1>3, <1>4, <1>5, <1>6
  DEF Next, Request, Loop, vars, SubmitInline, SubmitDropped, SubmitError, Start, Written,
      Failed, Cancelled

\* What is known of each request: a step moves one of them.
LEMMA RequestStep ==
    IndInv /\ [Next]_vars => \A r \in Requests : RequestInv(r)'
<1> SUFFICES ASSUME IndInv, [Next]_vars, NEW q \in Requests PROVE RequestInv(q)'
  OBVIOUS
<1> USE DEF Move, End, metrics, drains
<1>1. /\ TypeOK /\ RequestInv(q) /\ QueueHoldsUnsettled
      /\ \A d \in Drains : \A r \in children[d] : Task(r)
  BY DEF IndInv, DrainInv
<1>2. ASSUME NEW r \in Requests,
             SubmitInline(r) \/ SubmitQueued(r) \/ SubmitDropped(r) \/ SubmitError(r) \/ Start(r)
      PROVE  RequestInv(q)'
  BY <1>1, <1>2 DEF SubmitInline, SubmitQueued, SubmitDropped, SubmitError, Start, RequestInv,
     Task, TypeOK
<1>3. ASSUME NEW r \in Requests, Written(r) \/ Failed(r) PROVE RequestInv(q)'
  BY <1>1, <1>3 DEF Written, Failed, InProgress, After, RequestInv, Task, TypeOK
<1>4. ASSUME NEW r \in Requests, Cancelled(r) PROVE RequestInv(q)'
  BY <1>1, <1>4 DEF Cancelled, RequestInv, Task, TypeOK
<1>5. ASSUME NEW r \in Requests, BackgroundLogDone(r) PROVE RequestInv(q)'
  BY <1>1, <1>5 DEF BackgroundLogDone, RequestInv, Task, TypeOK
<1>6. ASSUME NEW d \in Drains, DrainStart(d) \/ DrainReturn(d) PROVE RequestInv(q)'
  <2>1. \A e \in Drains : drain[e] \in {"cancelling", "cancelled"}
                            => drain'[e] \in {"cancelling", "cancelled"}
    BY <1>1, <1>6 DEF DrainStart, DrainReturn, TypeOK
  <2> QED
    BY <1>1, <1>6, <2>1 DEF DrainStart, DrainReturn, RequestInv, Task
<1>7. ASSUME NEW d \in Drains, DrainCancel(d) PROVE RequestInv(q)'
  <2>1. drain'[d] = "cancelling" /\ log' = log /\ outcome' = outcome
    BY <1>1, <1>7 DEF DrainCancel, TypeOK
  <2>2. q \in cancelling' => q \in cancelling \/ log[q] \in {"queued", "running"}
    BY <1>7 DEF DrainCancel
  <2>3. cancelling \subseteq cancelling'
    BY <1>7 DEF DrainCancel
  <2> QED
    BY <1>1, <2>1, <2>2, <2>3 DEF RequestInv, Task
<1>8. CASE UNCHANGED vars
  BY <1>1, <1>8 DEF vars, RequestInv, Task
<1> QED
  BY <1>2, <1>3, <1>4, <1>5, <1>6, <1>7, <1>8 DEF Next, Request, Loop

\* What is known of each drain.
LEMMA DrainStep ==
    IndInv /\ [Next]_vars => \A d \in Drains : DrainInv(d)'
<1> SUFFICES ASSUME IndInv, [Next]_vars, NEW e \in Drains PROVE DrainInv(e)'
  OBVIOUS
<1> USE DEF Move, End, metrics, drains
<1>1. /\ TypeOK /\ DrainInv(e) /\ QueueHoldsUnsettled /\ \A r \in Requests : RequestInv(r)
      /\ children[e] \subseteq Requests
  BY DEF IndInv, TypeOK
<1>2. ASSUME NEW r \in Requests,
             SubmitInline(r) \/ SubmitQueued(r) \/ SubmitDropped(r) \/ SubmitError(r) \/ Start(r)
      PROVE  DrainInv(e)'
  <2>1. /\ outcome' = outcome /\ cancelling' = cancelling
        /\ drain' = drain /\ children' = children /\ awaited' = awaited
    BY <1>2 DEF SubmitInline, SubmitQueued, SubmitDropped, SubmitError, Start
  <2>2. \A q \in Requests : Task(q) => Task(q)'
    BY <1>1, <1>2 DEF SubmitInline, SubmitQueued, SubmitDropped, SubmitError, Start, Task, TypeOK
  <2> QED
    BY <1>1, <2>1, <2>2 DEF DrainInv
<1>3. ASSUME NEW r \in Requests, Written(r) \/ Failed(r) \/ Cancelled(r) PROVE DrainInv(e)'
  <2>1. /\ cancelling' = cancelling
        /\ drain' = drain /\ children' = children /\ awaited' = awaited
    BY <1>3 DEF Written, Failed, Cancelled
  <2>2. \A q \in Requests : /\ Task(q) => Task(q)'
                            /\ outcome[q] # "none" => outcome'[q] # "none"
    BY <1>1, <1>3 DEF Written, Failed, Cancelled, InProgress, After, Task, TypeOK
  <2>3. \A q \in Requests : outcome'[q] = "cancelled" /\ Task(q)
                             => outcome[q] = "cancelled" \/ q \in cancelling
    BY <1>1, <1>3 DEF Written, Failed, Cancelled, Task, TypeOK
  <2> QED
    BY <1>1, <2>1, <2>2, <2>3 DEF DrainInv
<1>4. ASSUME NEW r \in Requests, BackgroundLogDone(r) PROVE DrainInv(e)'
  <2>1. /\ outcome' = outcome /\ cancelling' = cancelling
        /\ drain' = drain /\ children' = children /\ awaited'[e] = awaited[e] \ {r}
    BY <1>4 DEF BackgroundLogDone
  <2>2. outcome[r] # "none" /\ \A q \in Requests : Task(q) => Task(q)'
    BY <1>1, <1>4 DEF BackgroundLogDone, RequestInv, Task, TypeOK
  <2> QED
    BY <1>1, <2>1, <2>2 DEF DrainInv
<1>5. ASSUME NEW d \in Drains, DrainStart(d) PROVE DrainInv(e)'
  <2>1. log' = log /\ outcome' = outcome /\ cancelling' = cancelling
    BY <1>5 DEF DrainStart
  <2>2. CASE e # d
    <3>1. children'[e] = children[e] /\ awaited'[e] = awaited[e] /\ drain'[e] = drain[e]
      BY <1>1, <1>5, <2>2 DEF DrainStart, TypeOK
    <3> QED
      BY <1>1, <2>1, <3>1 DEF DrainInv, Task
  <2>3. CASE e = d
    <3>1. /\ children'[e] = pendingLogs /\ awaited'[e] = Gathered
          /\ drain'[e] = "returned" => Gathered = {}
      BY <1>1, <1>5, <2>3 DEF DrainStart, TypeOK
    <3>2. \A r \in pendingLogs :
            /\ Task(r) /\ r \in Requests
            /\ r \notin Gathered => log[r] = "ended"
            /\ outcome[r] = "cancelled" => r \in cancelling
      BY <1>1 DEF QueueHoldsUnsettled, Task, Gathered, RequestInv
    <3>3. \A r \in Requests : log[r] = "ended" => outcome[r] # "none"
      BY <1>1 DEF RequestInv
    <3> QED
      BY <2>1, <3>1, <3>2, <3>3 DEF DrainInv, Task
  <2> QED
    BY <2>2, <2>3
<1>6. ASSUME NEW d \in Drains, DrainCancel(d) \/ DrainReturn(d) PROVE DrainInv(e)'
  <2>1. /\ log' = log /\ outcome' = outcome /\ cancelling \subseteq cancelling'
        /\ children' = children /\ awaited' = awaited
    BY <1>6 DEF DrainCancel, DrainReturn
  <2>2. drain'[e] = "returned" => awaited[e] = {}
    BY <1>1, <1>6 DEF DrainCancel, DrainReturn, DrainInv, TypeOK
  <2> QED
    BY <1>1, <2>1, <2>2 DEF DrainInv, Task
<1>7. CASE UNCHANGED vars
  BY <1>1, <1>7 DEF vars, DrainInv, Task
<1> QED
  BY <1>2, <1>3, <1>4, <1>5, <1>6, <1>7 DEF Next, Request, Loop

\* The failure counter and what it counts change together.
LEMMA CountStep == IndInv /\ [Next]_vars => EveryFailureCountedOnce'
<1> SUFFICES ASSUME IndInv, [Next]_vars PROVE EveryFailureCountedOnce'
  OBVIOUS
<1> USE DEF Move, End, metrics, drains
<1>1. /\ TypeOK /\ EveryFailureCountedOnce /\ \A r \in Requests : RequestInv(r)
  BY DEF IndInv
<1>2. /\ With("failed") \subseteq Requests /\ LostTasks \subseteq Requests
      /\ Cardinality(With("failed")) \in Nat /\ Cardinality(LostTasks) \in Nat
  <2>1. With("failed") \subseteq Requests /\ LostTasks \subseteq Requests
    BY DEF With, LostTasks
  <2> QED
    BY <2>1, Finite
<1>3. ASSUME failures' = failures, With("failed")' = With("failed"), LostTasks' = LostTasks
      PROVE  EveryFailureCountedOnce'
  BY <1>1, <1>3 DEF EveryFailureCountedOnce
<1>4. ASSUME NEW r \in Requests,
             SubmitInline(r) \/ SubmitQueued(r) \/ SubmitDropped(r) \/ SubmitError(r) \/ Start(r)
      PROVE  EveryFailureCountedOnce'
  <2>1. failures' = failures /\ outcome' = outcome /\ cancelling' = cancelling
    BY <1>4 DEF SubmitInline, SubmitQueued, SubmitDropped, SubmitError, Start
  <2>2. \A q \in Requests : log'[q] = "settled" <=> log[q] = "settled"
    BY <1>1, <1>4 DEF SubmitInline, SubmitQueued, SubmitDropped, SubmitError, Start, TypeOK
  <2>3. With("failed")' = With("failed") /\ LostTasks' = LostTasks
    BY <2>1, <2>2 DEF With, LostTasks
  <2> QED
    BY <1>3, <2>1, <2>3
<1>5. ASSUME NEW r \in Requests, Written(r) \/ Cancelled(r) PROVE EveryFailureCountedOnce'
  <2>1. failures' = failures /\ cancelling' = cancelling /\ outcome[r] = "none"
    BY <1>1, <1>5 DEF Written, Cancelled, InProgress, RequestInv
  <2>2. \A q \in Requests : outcome'[q] = "failed" <=> outcome[q] = "failed"
    BY <1>1, <1>5, <2>1 DEF Written, Cancelled, TypeOK
  <2>3. \A q \in Requests :
          (outcome'[q] = "cancelled" /\ q \in cancelling /\ log'[q] = "settled")
          <=> (outcome[q] = "cancelled" /\ q \in cancelling /\ log[q] = "settled")
    <3>1. CASE Written(r)
      BY <1>1, <2>1, <3>1 DEF Written, TypeOK
    <3>2. CASE Cancelled(r)
      <4>1. log[r] # "settled" /\ (log'[r] = "settled" => r \notin cancelling)
        BY <1>1, <3>2 DEF Cancelled, RequestInv, Task, TypeOK
      <4>2. \A q \in Requests \ {r} : outcome'[q] = outcome[q] /\ log'[q] = log[q]
        BY <1>1, <3>2 DEF Cancelled, TypeOK
      <4> QED
        BY <4>1, <4>2
    <3> QED
      BY <1>5, <3>1, <3>2
  <2>4. With("failed")' = With("failed") /\ LostTasks' = LostTasks
    BY <2>1, <2>2, <2>3 DEF With, LostTasks
  <2> QED
    BY <1>3, <2>1, <2>4
<1>6. ASSUME NEW r \in Requests, Failed(r) PROVE EveryFailureCountedOnce'
  <2>1. /\ failures' = failures + 1 /\ cancelling' = cancelling /\ outcome[r] = "none"
        /\ outcome' = [outcome EXCEPT ![r] = "failed"]
        /\ \A q \in Requests \ {r} : log'[q] = log[q]
    BY <1>1, <1>6 DEF Failed, InProgress, RequestInv, TypeOK
  <2>2. r \notin With("failed") /\ With("failed")' = With("failed") \cup {r}
    BY <1>1, <2>1 DEF With, TypeOK
  <2>3. LostTasks' = LostTasks
    BY <1>1, <2>1 DEF LostTasks, With, TypeOK
  <2>4. Cardinality(With("failed") \cup {r}) = Cardinality(With("failed")) + 1
    BY <1>2, <2>2, Finite
  <2>5. Cardinality(With("failed")') = Cardinality(With("failed")) + 1
    BY <2>2, <2>4
  <2>6. Cardinality(LostTasks') = Cardinality(LostTasks)
    BY <2>3
  <2> QED
    BY <1>1, <1>2, <2>1, <2>5, <2>6 DEF EveryFailureCountedOnce
<1>7. ASSUME NEW r \in Requests, BackgroundLogDone(r) PROVE EveryFailureCountedOnce'
  <2>1. /\ outcome' = outcome /\ cancelling' = cancelling /\ log[r] = "ended"
        /\ log' = [log EXCEPT ![r] = "settled"]
        /\ failures' = IF outcome[r] = "cancelled" THEN failures + 1 ELSE failures
    BY <1>7 DEF BackgroundLogDone, ResultRaises
  <2>2. With("failed")' = With("failed")
    BY <2>1 DEF With
  <2>3. CASE outcome[r] # "cancelled"
    <3>1. LostTasks' = LostTasks
      BY <1>1, <2>1, <2>3 DEF LostTasks, With, TypeOK
    <3> QED
      BY <1>3, <2>1, <2>2, <2>3, <3>1
  <2>4. CASE outcome[r] = "cancelled"
    <3>1. r \in cancelling
      BY <1>1, <2>1, <2>4 DEF RequestInv
    <3>2. r \notin LostTasks /\ LostTasks' = LostTasks \cup {r}
      BY <1>1, <2>1, <2>4, <3>1 DEF LostTasks, With, TypeOK
    <3>3. Cardinality(LostTasks \cup {r}) = Cardinality(LostTasks) + 1
      BY <1>2, <3>2, Finite
    <3>4. Cardinality(LostTasks') = Cardinality(LostTasks) + 1
      BY <3>2, <3>3
    <3>5. Cardinality(With("failed")') = Cardinality(With("failed"))
      BY <2>2
    <3> QED
      BY <1>1, <1>2, <2>1, <2>4, <3>4, <3>5 DEF EveryFailureCountedOnce, TypeOK
  <2> QED
    BY <2>3, <2>4
<1>8. ASSUME NEW d \in Drains, DrainStart(d) \/ DrainReturn(d) \/ DrainCancel(d)
      PROVE  EveryFailureCountedOnce'
  <2>1. log' = log /\ outcome' = outcome /\ failures' = failures
    BY <1>8 DEF DrainStart, DrainReturn, DrainCancel
  <2>2. \A q \in Requests : log[q] = "settled" => (q \in cancelling' <=> q \in cancelling)
    BY <1>8 DEF DrainStart, DrainReturn, DrainCancel
  <2>3. With("failed")' = With("failed") /\ LostTasks' = LostTasks
    BY <2>1, <2>2 DEF With, LostTasks
  <2> QED
    BY <1>3, <2>1, <2>3
<1>9. CASE UNCHANGED vars
  BY <1>3, <1>9 DEF vars, With, LostTasks
<1> QED
  BY <1>4, <1>5, <1>6, <1>7, <1>8, <1>9 DEF Next, Request, Loop

-----------------------------------------------------------------------------
(* What holds in every state.                                              *)

\* The invariant is inductive and holds throughout.
LEMMA Invariance == Spec => []IndInv
<1>1. Init => IndInv
  BY IndInit
<1>2. IndInv /\ [Next]_vars => IndInv'
  BY TypeStep, QueueStep, RequestStep, DrainStep, CountStep DEF IndInv
<1> QED
  BY <1>1, <1>2, PTL DEF Spec

\* The queue keeps to max_pending_logs and holds exactly the tasks on their way.
THEOREM QueueIsExact == Spec => []QueueHoldsUnsettled
<1>1. IndInv => QueueHoldsUnsettled
  BY DEF IndInv
<1> QED
  BY <1>1, Invariance, PTL

\* logging_failures counts every failed or lost write exactly once.
THEOREM FailuresAreExact == Spec => []EveryFailureCountedOnce
<1>1. IndInv => EveryFailureCountedOnce
  BY DEF IndInv
<1> QED
  BY <1>1, Invariance, PTL

\* What is known of requests and drains says what a drain that returned has waited for.
LEMMA InvariantWaits == IndInv => DrainWaits
<1> SUFFICES ASSUME IndInv, NEW d \in Drains, drain[d] = "returned", NEW r \in children[d]
             PROVE  \/ outcome[r] \in {"written", "failed"}
                    \/ /\ outcome[r] = "cancelled"
                       /\ \E e \in Drains : drain[e] \in {"cancelling", "cancelled"}
  BY DEF DrainWaits
<1>1. r \in Requests /\ outcome[r] \in Outcomes
  BY DEF IndInv, TypeOK
<1>2. /\ outcome[r] # "none"
      /\ outcome[r] = "cancelled" => r \in cancelling
  BY DEF IndInv, DrainInv
<1>3. r \in cancelling => \E e \in Drains : drain[e] \in {"cancelling", "cancelled"}
  BY <1>1 DEF IndInv, RequestInv
<1> QED
  BY <1>1, <1>2, <1>3 DEF Outcomes

\* A drain that returns has waited for every write it found pending.
THEOREM DrainHasWaited == Spec => []DrainWaits
BY InvariantWaits, Invariance, PTL

\* A request that awaits its own write takes no slot, whatever BackgroundLogging is.
LEMMA SubmitInlineStep ==
    ASSUME IndInv, NEW r \in Requests, Inline!SubmitInline(r)
    PROVE  IndInv'
<1>1. /\ log[r] = "serving" /\ log' = [log EXCEPT ![r] = "inline"] /\ attempted' = attempted + 1
      /\ UNCHANGED <<outcome, cancelling, pendingLogs, dropped, failures, drain, children, awaited>>
  BY DEF Inline!SubmitInline, Inline!Move, Inline!drains
<1>2. TypeOK /\ QueueHoldsUnsettled /\ EveryFailureCountedOnce
  BY DEF IndInv
<1>3. TypeOK'
  BY <1>1, <1>2 DEF TypeOK, Places
<1>4. \A q \in Requests : \A place \in Places \ {"serving", "inline"} :
          log'[q] = place <=> log[q] = place
  BY <1>1, <1>2 DEF TypeOK, Places
<1>5. QueueHoldsUnsettled'
  BY <1>1, <1>2, <1>4 DEF QueueHoldsUnsettled, Places
<1>6. EveryFailureCountedOnce'
  <2>1. With("failed")' = With("failed") /\ With("cancelled")' = With("cancelled")
    BY <1>1 DEF With
  <2>2. LostTasks' = LostTasks
    BY <1>1, <1>4, <2>1 DEF LostTasks, With, Places
  <2> QED
    BY <1>1, <1>2, <2>1, <2>2 DEF EveryFailureCountedOnce
<1>7. ASSUME NEW q \in Requests PROVE RequestInv(q)'
  <2>1. RequestInv(q)
    BY DEF IndInv
  <2> QED
    BY <1>1, <1>4, <2>1 DEF RequestInv, Task, Places
<1>8. ASSUME NEW d \in Drains PROVE DrainInv(d)'
  <2>1. DrainInv(d) /\ children[d] \subseteq Requests
    BY <1>2 DEF IndInv, TypeOK
  <2> QED
    BY <1>1, <1>4, <2>1 DEF DrainInv, Task, Places
<1> QED
  BY <1>3, <1>5, <1>6, <1>7, <1>8 DEF IndInv

\* Every other step of the inline kind is one of the background kind as well.
LEMMA InlineStep == IndInv /\ Inline!Next => IndInv'
<1> SUFFICES ASSUME IndInv, Inline!Next PROVE IndInv'
  OBVIOUS
<1>1. ASSUME NEW r \in Requests, Inline!Request(r) PROVE Inline!SubmitInline(r) \/ Request(r)
  <2>1. ~Inline!SubmitQueued(r) /\ ~Inline!SubmitDropped(r)
    BY DEF Inline!SubmitQueued, Inline!SubmitDropped
  <2>2. Inline!SubmitError(r) => SubmitError(r)
    BY DEF Inline!SubmitError, SubmitError, Inline!Move, Move, Inline!metrics, metrics, Inline!drains, drains
  <2>3. Inline!Written(r) => Written(r)
    BY DEF Inline!Written, Written, Inline!InProgress, InProgress, Inline!After, After, Inline!Move, Move,
       Inline!End, End, Inline!metrics, metrics, Inline!drains, drains
  <2>4. Inline!Failed(r) => Failed(r)
    BY DEF Inline!Failed, Failed, Inline!InProgress, InProgress, Inline!After, After, Inline!Move, Move,
       Inline!End, End, Inline!drains, drains
  <2> QED
    BY <1>1, <2>1, <2>2, <2>3, <2>4 DEF Inline!Request, Request
<1>2. ASSUME NEW r \in Requests PROVE Inline!Cancelled(r) => Cancelled(r)
  BY DEF Inline!Cancelled, Cancelled, Inline!Move, Move, Inline!End, End,
     Inline!metrics, metrics, Inline!drains, drains
<1>3. ASSUME NEW r \in Requests PROVE Inline!Start(r) => Start(r)
  BY DEF Inline!Start, Start, Inline!Move, Move, Inline!metrics, metrics, Inline!drains, drains
<1>4. ASSUME NEW r \in Requests PROVE Inline!BackgroundLogDone(r) => BackgroundLogDone(r)
  BY DEF Inline!BackgroundLogDone, BackgroundLogDone, Inline!Freed, Freed,
     Inline!ResultRaises, ResultRaises, Inline!Move, Move
<1>5. ASSUME NEW r \in Requests PROVE Inline!Loop(r) => Loop(r)
  BY <1>2, <1>3, <1>4 DEF Inline!Loop, Loop
<1>6. ASSUME NEW d \in Drains, Inline!DrainStart(d) \/ Inline!DrainCancel(d) \/ Inline!DrainReturn(d)
      PROVE  DrainStart(d) \/ DrainCancel(d) \/ DrainReturn(d)
  BY <1>6 DEF Inline!DrainStart, DrainStart, Inline!DrainCancel, DrainCancel, Inline!DrainReturn, DrainReturn,
     Inline!Gathered, Gathered, Inline!metrics, metrics
<1>7. Next \/ \E r \in Requests : Inline!SubmitInline(r)
  BY <1>1, <1>2, <1>5, <1>6 DEF Inline!Next, Next
<1>8. CASE Next
  BY <1>8, TypeStep, QueueStep, RequestStep, DrainStep, CountStep DEF IndInv
<1> QED
  BY <1>7, <1>8, SubmitInlineStep

\* A handler's callback does not touch the middleware; nor do the steps that stutter.
LEMMA WritesUntouched == IndInv /\ UNCHANGED vars => IndInv'
BY TypeStep, QueueStep, RequestStep, DrainStep, CountStep DEF IndInv

\* The middleware writing in the background or inline, as a scenario beside the handlers.
THEOREM WritesInvariance == IntegrationsSpec => []IndInv
<1>1. IntegrationsInit => IndInv
  BY IndInit DEF IntegrationsInit
<1>2. IndInv /\ [MiddlewareStep \/ CallbackStep]_<<scenario, loggerVars, callbackVars>> => IndInv'
  <2> SUFFICES ASSUME IndInv, [MiddlewareStep \/ CallbackStep]_<<scenario, loggerVars, callbackVars>>
               PROVE  IndInv'
    OBVIOUS
  <2>1. Next \/ Inline!Next \/ UNCHANGED vars
    BY DEF MiddlewareStep, CallbackStep, loggerVars
  <2>2. CASE Next
    BY <2>2, TypeStep, QueueStep, RequestStep, DrainStep, CountStep DEF IndInv
  <2> QED
    BY <2>1, <2>2, InlineStep, WritesUntouched
<1> QED
  BY <1>1, <1>2, PTL DEF IntegrationsSpec

\* However many writes run in the background or inline, the queue, the counters and what
\* drains wait for are exact.
THEOREM WritesAreExact ==
    IntegrationsSpec => [](QueueHoldsUnsettled /\ EveryFailureCountedOnce /\ DrainWaits)
<1>1. IndInv => QueueHoldsUnsettled /\ EveryFailureCountedOnce /\ DrainWaits
  BY InvariantWaits DEF IndInv
<1> QED
  BY <1>1, WritesInvariance, PTL

-----------------------------------------------------------------------------
(* Sequences, and the logs of traces all handlers write to.                *)

\* An element just appended and replaced is the one appended.
LEMMA LastReplaced ==
    ASSUME NEW S, NEW q \in Seq(S), NEW u \in S, NEW v \in S
    PROVE  [Append(q, u) EXCEPT ![Len(q) + 1] = v] = Append(q, v)
<1> DEFINE p == Append(q, u)
           w == [p EXCEPT ![Len(q) + 1] = v]
           z == Append(q, v)
<1>1. p \in Seq(S) /\ Len(p) = Len(q) + 1 /\ z \in Seq(S) /\ Len(z) = Len(q) + 1
  OBVIOUS
<1>2. w \in Seq(S) /\ Len(w) = Len(q) + 1
  BY <1>1, ExceptSeq
<1>3. DOMAIN p = 1..Len(q) + 1 /\ p[Len(q) + 1] = u /\ \A i \in 1..Len(q) : p[i] = q[i]
  OBVIOUS
<1>4. z[Len(q) + 1] = v /\ \A i \in 1..Len(q) : z[i] = q[i]
  OBVIOUS
<1>5. Len(q) \in Nat
  OBVIOUS
<1> HIDE DEF p, z
<1>6. \A i \in 1..Len(q) + 1 : w[i] = z[i]
  BY <1>3, <1>4, <1>5
<1> HIDE DEF w
<1>7. w = z
  BY <1>1, <1>2, <1>6, SeqEqual
<1> QED
  BY <1>7 DEF p, w, z

\* What a sequence is after an element is appended or replaced.
LEMMA Appended ==
    ASSUME NEW S, NEW q \in Seq(S), NEW u \in S, NEW new, new = Append(q, u)
    PROVE  /\ new \in Seq(S) /\ Len(q) \in Nat /\ DOMAIN q = 1..Len(q)
           /\ DOMAIN new = DOMAIN q \cup {Len(q) + 1} /\ Len(q) + 1 \notin DOMAIN q
           /\ new[Len(q) + 1] = u /\ \A i \in DOMAIN q : new[i] = q[i]
OBVIOUS

LEMMA Replaced ==
    ASSUME NEW S, NEW q \in Seq(S), NEW i \in DOMAIN q, NEW u \in S, NEW new, new = [q EXCEPT ![i] = u]
    PROVE  /\ new \in Seq(S) /\ Len(new) = Len(q) /\ DOMAIN new = DOMAIN q
           /\ new[i] = u /\ \A j \in DOMAIN q \ {i} : new[j] = q[j]
<1>1. i \in 1..Len(q) /\ Len(q) \in Nat
  OBVIOUS
<1>2. new \in Seq(S) /\ Len(new) = Len(q)
  BY <1>1, ExceptSeq
<1> QED
  BY <1>1, <1>2

\* What the handlers keep of a trace: the runs that wrote to it and its answers.
TraceLog(runs, answer) == Seq([by : SUBSET runs, answers : Seq(answer)])

LEMMA Element ==
    ASSUME NEW R, NEW A, NEW T \in TraceLog(R, A)
    PROVE  /\ Len(T) \in Nat /\ DOMAIN T = 1..Len(T)
           /\ \A t \in DOMAIN T : T[t] \in [by : SUBSET R, answers : Seq(A)]
<1> DEFINE S == [by : SUBSET R, answers : Seq(A)]
<1>1. T \in Seq(S)
  BY DEF TraceLog
<1> HIDE DEF S
<1>2. Len(T) \in Nat /\ DOMAIN T = 1..Len(T) /\ \A t \in DOMAIN T : T[t] \in S
  BY <1>1
<1> QED
  BY <1>2 DEF S

\* The one run that wrote to a trace writes to it again.
LEMMA OwnerWrites ==
    ASSUME NEW R, NEW A, NEW T \in TraceLog(R, A), NEW t \in DOMAIN T, NEW r \in R, T[t].by = {r}
    PROVE  [T EXCEPT ![t].by = @ \cup {r}] = T
<1> DEFINE rec == [T[t] EXCEPT !.by = @ \cup {r}]
<1>1. T[t] \in [by : SUBSET R, answers : Seq(A)]
  BY Element
<1>2. rec = T[t]
  BY <1>1
<1> QED
  BY <1>2 DEF TraceLog

LEMMA AnswersOf ==
    ASSUME NEW B, NEW A, NEW p \in [by : B, answers : A], NEW v
    PROVE  [p EXCEPT !.answers = v] = [by |-> p.by, answers |-> v]
OBVIOUS

\* An answer is added to a trace.
LEMMA AnswerAdded ==
    ASSUME NEW R, NEW A, NEW T \in TraceLog(R, A), NEW t \in DOMAIN T, NEW x \in A, NEW new,
           new = [T EXCEPT ![t].answers = Append(@, x)]
    PROVE  /\ new \in TraceLog(R, A) /\ Len(new) = Len(T) /\ DOMAIN new = DOMAIN T
           /\ new[t].by = T[t].by /\ new[t].answers = Append(T[t].answers, x)
           /\ \A u \in DOMAIN T \ {t} : new[u] = T[u]
<1> DEFINE rec == [T[t] EXCEPT !.answers = Append(@, x)]
<1>1. T[t] \in [by : SUBSET R, answers : Seq(A)]
  BY Element
<1>2. rec \in [by : SUBSET R, answers : Seq(A)] /\ rec.by = T[t].by /\ rec.answers = Append(T[t].answers, x)
  <2>1. T[t].answers \in Seq(A) /\ T[t].by \in SUBSET R /\ T[t] = [by |-> T[t].by, answers |-> T[t].answers]
    BY <1>1
  <2>2. Append(T[t].answers, x) \in Seq(A)
    BY <2>1
  <2>3. rec = [by |-> T[t].by, answers |-> Append(T[t].answers, x)]
    <3> DEFINE v == Append(T[t].answers, x)
    <3>1. rec = [T[t] EXCEPT !.answers = v]
      OBVIOUS
    <3> HIDE DEF rec, v
    <3>2. rec = [by |-> T[t].by, answers |-> v]
      BY <1>1, <3>1, AnswersOf
    <3> QED
      BY <3>2 DEF v
  <2> QED
    BY <2>1, <2>2, <2>3
<1>3. new = [T EXCEPT ![t] = rec]
  OBVIOUS
<1> HIDE DEF rec
<1>4. t \in 1..Len(T) /\ Len(T) \in Nat
  BY Element
<1>5. new \in TraceLog(R, A) /\ Len(new) = Len(T)
  <2> DEFINE S == [by : SUBSET R, answers : Seq(A)]
  <2>1. rec \in S /\ T \in Seq(S)
    BY <1>2 DEF TraceLog
  <2> HIDE DEF S
  <2>2. [T EXCEPT ![t] = rec] \in Seq(S) /\ Len([T EXCEPT ![t] = rec]) = Len(T)
    BY <2>1, <1>4, ExceptSeq
  <2> QED
    BY <2>2, <1>3 DEF S, TraceLog
<1> QED
  BY <1>2, <1>3, <1>5, Element

\* A trace is started.
TraceRecords(runs, answer) == [by : SUBSET runs, answers : Seq(answer)]

LEMMA TraceAdded ==
    ASSUME NEW R, NEW A, NEW T \in TraceLog(R, A), NEW p \in TraceRecords(R, A), NEW new,
           new = Append(T, p)
    PROVE  /\ new \in TraceLog(R, A) /\ Len(T) \in Nat /\ Len(new) = Len(T) + 1
           /\ DOMAIN new = DOMAIN T \cup {Len(T) + 1} /\ Len(T) + 1 \notin DOMAIN T
           /\ new[Len(T) + 1] = p /\ \A u \in DOMAIN T : new[u] = T[u]
<1>1. T \in Seq(TraceRecords(R, A))
  BY DEF TraceLog, TraceRecords
<1>2. new \in Seq(TraceRecords(R, A))
  BY <1>1
<1> QED
  BY <1>1, <1>2 DEF TraceLog, TraceRecords

\* A field of the pair a call works on is assigned to.
LEMMA StatesOf ==
    ASSUME NEW S, NEW T, NEW U
    PROVE  /\ [[states |-> S, traces |-> T] EXCEPT !.states = U] = [states |-> U, traces |-> T]
           /\ [[states |-> S, traces |-> T] EXCEPT !.traces = U] = [states |-> S, traces |-> U]
OBVIOUS

-----------------------------------------------------------------------------
(* Workflows: LangGraph with run ids.                                      *)

TraceOf(r) == states[registry[r]].trace

GraphState == [trace : Nat, query : BOOLEAN]

GraphTypes(runs) ==
    /\ phase \in [runs -> {"waiting", "open", "ended"}]
    /\ states \in Seq(GraphState)
    /\ traces \in TraceLog(runs, runs)

\* What is written to a trace is one run's, and it has an answer only if the run ended.
GraphTrace(runs, t) ==
    \E r \in runs :
        /\ traces[t].by = {r} /\ phase[r] # "waiting"
        /\ traces[t].answers = <<>> \/ (phase[r] = "ended" /\ traces[t].answers = <<r>>)

\* A run is entered as long as it is open, and its state has the only trace of it.
WorkflowInv ==
    /\ GraphTypes(GraphRunIds)
    /\ registry \in [GraphRunIds -> Nat \cup {NoState}]
    /\ \A r \in GraphRunIds : registry[r] # NoState <=> phase[r] = "open"
    /\ \A r \in GraphRunIds : phase[r] = "open" =>
          /\ registry[r] \in DOMAIN states /\ TraceOf(r) \in DOMAIN traces
          /\ \A t \in DOMAIN traces : traces[t].by = {r} <=> t = TraceOf(r)
    /\ \A t \in DOMAIN traces : GraphTrace(GraphRunIds, t)

LEMMA WorkflowsStart ==
    ASSUME WorkflowInv, NEW r \in GraphRunIds, NEW x \in Contexts, Workflows!StartTrace(r, x)
    PROVE  /\ phase[r] = "waiting"
           /\ phase' = [phase EXCEPT ![r] = "open"]
           /\ registry' = [registry EXCEPT ![r] = Len(states) + 1]
           /\ states' = Append(states, [trace |-> Len(traces) + 1, query |-> TRUE])
           /\ traces' = Append(traces, [by |-> {r}, answers |-> <<>>])
<1> USE DEF Workflows!StartTrace, Workflows!MayBegin, Workflows!Begins
<1>1. phase[r] = "waiting" /\ phase' = [phase EXCEPT ![r] = "open"]
  OBVIOUS
<1> DEFINE fresh == [trace |-> 0, query |-> FALSE]
           open == [trace |-> Len(traces) + 1, query |-> TRUE]
           s == Workflows!StateFor(Workflows!Now, Workflows!Known(r), TRUE, current[x], TRUE)
           grown == Workflows!With(Workflows!Now, s)
<1>2. Len(states) \in Nat /\ Len(traces) \in Nat
  BY DEF WorkflowInv, GraphTypes, TraceLog
<1>3. registry[r] = NoState
  BY <1>1 DEF WorkflowInv
<1>4. s = Len(states) + 1
  BY <1>3 DEF Workflows!StateFor, Workflows!Known, Workflows!NeedsState, Workflows!Now
<1>5. grown = [states |-> Append(states, fresh), traces |-> traces]
  <2> HIDE DEF s, fresh
  <2>1. s > Len(states)
    BY <1>2, <1>4
  <2> QED
    BY <2>1 DEF Workflows!With, Workflows!Now, Workflows!FreshState, fresh
<1>6. Append(states, fresh)[Len(states) + 1] = fresh
  BY <1>2 DEF WorkflowInv, GraphTypes
<1>7. [Append(states, fresh) EXCEPT ![Len(states) + 1] = open] = Append(states, open)
  <2>1. fresh \in GraphState /\ open \in GraphState /\ states \in Seq(GraphState)
    BY <1>2 DEF WorkflowInv, GraphTypes, GraphState
  <2> HIDE DEF fresh, open
  <2> QED
    BY <2>1, LastReplaced
<1>8. Workflows!Becomes(Workflows!Opened(grown, s, r), Workflows!Entered(r, s), x, s)
  OBVIOUS
<1> HIDE DEF s, grown
<1>9. Workflows!Opened(grown, s, r)
        = [states |-> Append(states, open), traces |-> Append(traces, [by |-> {r}, answers |-> <<>>])]
  <2>1. ~Workflows!HasTrace(grown, s)
    BY <1>4, <1>5, <1>6 DEF Workflows!HasTrace
  <2>2. grown.states = Append(states, fresh) /\ grown.traces = traces
    BY <1>5
  <2> HIDE DEF fresh
  <2> QED
    BY <1>4, <1>7, <2>1, <2>2 DEF Workflows!Opened
<1>10. Workflows!Entered(r, s) = [registry EXCEPT ![r] = Len(states) + 1]
  BY <1>4 DEF Workflows!Entered
<1> HIDE DEF Workflows!StartTrace
<1> QED
  BY <1>1, <1>8, <1>9, <1>10 DEF Workflows!Becomes

LEMMA WorkflowsEvent ==
    ASSUME WorkflowInv, NEW r \in GraphRunIds, NEW x \in Contexts, Workflows!Event(r, x)
    PROVE  phase' = phase /\ registry' = registry /\ states' = states /\ traces' = traces
<1> USE DEF Workflows!Event
<1>1. phase[r] = "open" /\ phase' = phase
  OBVIOUS
<1> DEFINE s == registry[r]
<1>2. /\ s # NoState /\ s \in 1..Len(states) /\ Len(states) \in Nat
      /\ TraceOf(r) \in DOMAIN traces /\ traces[TraceOf(r)].by = {r} /\ TraceOf(r) # 0
  BY <1>1 DEF WorkflowInv, GraphTypes, TraceLog
<1>3. Workflows!LogsEvent(r, x)
  OBVIOUS
<1>4. Workflows!StateFor(Workflows!Now, Workflows!Known(r), TRUE, current[x], FALSE) = s
  BY <1>2 DEF Workflows!StateFor, Workflows!Known
<1>5. Workflows!Ensured(Workflows!Now, s) = s
  BY <1>2 DEF Workflows!Ensured, Workflows!HasTrace, Workflows!Now, TraceOf
<1>6. Workflows!With(Workflows!Now, s) = Workflows!Now
  BY <1>2 DEF Workflows!With, Workflows!Now
<1>7. Workflows!Opened(Workflows!Now, s, r) = Workflows!Now
  BY <1>2 DEF Workflows!Opened, Workflows!HasTrace, Workflows!Now, TraceOf
<1>8. Workflows!Write(Workflows!Now, s, r) = Workflows!Now
  <2>1. [traces EXCEPT ![TraceOf(r)].by = @ \cup {r}] = traces
    BY <1>2, OwnerWrites DEF WorkflowInv, GraphTypes
  <2> QED
    BY <2>1 DEF Workflows!Write, Workflows!Now, TraceOf
<1>9. Workflows!Becomes(Workflows!Now, Workflows!Entered(r, s), x, s)
  BY <1>3, <1>4, <1>5, <1>6, <1>7, <1>8 DEF Workflows!LogsEvent
<1>10. Workflows!Entered(r, s) = registry
  BY DEF Workflows!Entered, WorkflowInv
<1> QED
  BY <1>1, <1>9, <1>10 DEF Workflows!Becomes, Workflows!Now

LEMMA WorkflowsEnd ==
    ASSUME WorkflowInv, NEW r \in GraphRunIds, NEW x \in Contexts, Workflows!EndTrace(r, x)
    PROVE  /\ phase[r] = "open" /\ phase' = [phase EXCEPT ![r] = "ended"]
           /\ registry' = [registry EXCEPT ![r] = NoState]
           /\ states' = [states EXCEPT ![registry[r]].trace = 0]
           /\ \/ traces' = traces
              \/ traces' = [traces EXCEPT ![TraceOf(r)].answers = Append(@, r)]
<1>1. phase[r] = "open" /\ phase' = [phase EXCEPT ![r] = "ended"]
  BY Zenon DEF Workflows!EndTrace
<1> DEFINE s == registry[r]
           told == Workflows!StateFor(Workflows!Now, Workflows!Known(r), TRUE, current[x], FALSE)
           held == Workflows!Entered(r, told)
           said == [Workflows!Write(Workflows!Now, told, r)
                       EXCEPT !.traces[states[told].trace].answers = Append(@, r)]
<1>0. ~Workflows!HasTrace(Workflows!Now, told)
      \/ Workflows!Becomes(Workflows!Closed(said, told), Workflows!Release(held, told, r), x, told)
      \/ Workflows!Becomes(Workflows!Closed(Workflows!Now, told), Workflows!Release(held, told, r), x, told)
  BY Zenon DEF Workflows!EndTrace
<1> HIDE DEF told, held, said
<1>2. /\ s # NoState /\ TraceOf(r) # 0
      /\ TraceOf(r) \in DOMAIN traces /\ traces[TraceOf(r)].by = {r}
  BY <1>1, Element DEF WorkflowInv, GraphTypes
<1>3. told = s
  BY <1>2 DEF told, Workflows!StateFor, Workflows!Known
<1>4. Workflows!HasTrace(Workflows!Now, s)
  BY <1>2 DEF Workflows!HasTrace, Workflows!Now, TraceOf
<1>5. held = registry
  <2>1. [registry EXCEPT ![r] = registry[r]] = registry
    BY DEF WorkflowInv
  <2> QED
    BY <1>3, <2>1 DEF held, Workflows!Entered
<1>6. Workflows!Write(Workflows!Now, s, r) = Workflows!Now
  <2>1. [traces EXCEPT ![TraceOf(r)].by = @ \cup {r}] = traces
    BY <1>2, OwnerWrites DEF WorkflowInv, GraphTypes
  <2> QED
    BY <2>1 DEF Workflows!Write, Workflows!Now, TraceOf
<1> DEFINE answered == [Workflows!Now EXCEPT !.traces[TraceOf(r)].answers = Append(@, r)]
<1>7. \/ Workflows!Becomes(Workflows!Closed(answered, s), Workflows!Release(registry, s, r), x, s)
      \/ Workflows!Becomes(Workflows!Closed(Workflows!Now, s), Workflows!Release(registry, s, r), x, s)
  <2>1. said = answered
    BY <1>3, <1>6 DEF said, TraceOf
  <2> HIDE DEF answered, s
  <2> QED
    BY <1>0, <1>3, <1>4, <1>5, <2>1
<1>8. Workflows!Release(registry, s, r) = [registry EXCEPT ![r] = NoState]
  <2>1. ASSUME NEW y \in GraphRunIds, registry[y] = s PROVE y = r
    BY <1>1, <1>2, <2>1 DEF WorkflowInv, TraceOf
  <2> QED
    BY <2>1 DEF Workflows!Release, WorkflowInv
<1>9. answered = [states |-> states, traces |-> [traces EXCEPT ![TraceOf(r)].answers = Append(@, r)]]
  <2>1. Workflows!Now = [states |-> states, traces |-> traces]
    BY DEF Workflows!Now
  <2> QED
    BY <2>1
<1>10. \A T : Workflows!Closed([states |-> states, traces |-> T], s)
                = [states |-> [states EXCEPT ![s].trace = 0], traces |-> T]
  <2> TAKE T
  <2> DEFINE closed == [states EXCEPT ![s].trace = 0]
  <2>1. Workflows!Closed([states |-> states, traces |-> T], s)
          = [[states |-> states, traces |-> T] EXCEPT !.states = closed]
    BY DEF Workflows!Closed
  <2> HIDE DEF closed
  <2>2. Workflows!Closed([states |-> states, traces |-> T], s) = [states |-> closed, traces |-> T]
    BY <2>1, StatesOf
  <2> QED
    BY <2>2 DEF closed
<1> DEFINE one == Workflows!Closed(answered, s)
           none == Workflows!Closed(Workflows!Now, s)
<1>11. /\ one.states = [states EXCEPT ![s].trace = 0] /\ none.states = one.states
       /\ one.traces = [traces EXCEPT ![TraceOf(r)].answers = Append(@, r)] /\ none.traces = traces
  <2> DEFINE w == [traces EXCEPT ![TraceOf(r)].answers = Append(@, r)]
             closed == [states EXCEPT ![s].trace = 0]
  <2>1. answered = [states |-> states, traces |-> w]
    BY <1>9
  <2> HIDE DEF answered, w, closed
  <2>2. one = [states |-> closed, traces |-> w]
    BY <1>10, <2>1 DEF closed
  <2>3. none = [states |-> closed, traces |-> traces]
    BY <1>10 DEF closed, Workflows!Now
  <2>4. one.states = closed /\ one.traces = w /\ none.states = closed /\ none.traces = traces
    BY <2>2, <2>3
  <2> QED
    BY <2>4 DEF closed, w
<1> HIDE DEF one, none, answered
<1>12. \/ Workflows!Becomes(one, Workflows!Release(registry, s, r), x, s)
       \/ Workflows!Becomes(none, Workflows!Release(registry, s, r), x, s)
  BY <1>7 DEF one, none
<1> QED
  BY <1>1, <1>8, <1>11, <1>12 DEF Workflows!Becomes

\* Closing a state leaves the others as they were.
LEMMA StateClosed ==
    ASSUME NEW q \in Seq(GraphState), NEW i \in DOMAIN q, NEW new, new = [q EXCEPT ![i].trace = 0]
    PROVE  /\ new \in Seq(GraphState) /\ DOMAIN new = DOMAIN q
           /\ new[i].trace = 0 /\ new[i].query = q[i].query
           /\ \A j \in DOMAIN q \ {i} : new[j] = q[j]
<1> DEFINE rec == [q[i] EXCEPT !.trace = 0]
<1>1. q[i] \in GraphState
  OBVIOUS
<1>2. rec \in GraphState /\ rec.trace = 0 /\ rec.query = q[i].query
  BY <1>1 DEF GraphState
<1>3. new = [q EXCEPT ![i] = rec]
  OBVIOUS
<1> HIDE DEF rec
<1> QED
  BY <1>2, <1>3, Replaced

LEMMA WorkflowsInit == Workflows!Init => WorkflowInv
<1> SUFFICES ASSUME Workflows!Init PROVE WorkflowInv
  OBVIOUS
<1>1. states \in Seq(GraphState)
  <2>1. Workflows!FreshState \in GraphState
    BY DEF Workflows!FreshState, GraphState
  <2> QED
    BY <2>1 DEF Workflows!Init
<1>2. traces \in TraceLog(GraphRunIds, GraphRunIds) /\ DOMAIN traces = {}
  BY DEF Workflows!Init, TraceLog
<1> QED
  BY <1>1, <1>2 DEF Workflows!Init, WorkflowInv, GraphTypes

LEMMA WorkflowsStep == WorkflowInv /\ [Workflows!Next]_(Workflows!vars) => WorkflowInv'
<1> SUFFICES ASSUME WorkflowInv, [Workflows!Next]_(Workflows!vars) PROVE WorkflowInv'
  OBVIOUS
<1> USE DEF TraceOf
<1>0. /\ Len(states) \in Nat /\ DOMAIN states = 1..Len(states)
      /\ Len(traces) \in Nat /\ DOMAIN traces = 1..Len(traces)
  BY Element DEF WorkflowInv, GraphTypes
<1>1. ASSUME NEW r \in GraphRunIds, NEW x \in Contexts, Workflows!StartTrace(r, x) PROVE WorkflowInv'
  <2> DEFINE s == Len(states) + 1
             t == Len(traces) + 1
  <2>1. /\ phase[r] = "waiting" /\ phase' = [phase EXCEPT ![r] = "open"]
        /\ registry' = [registry EXCEPT ![r] = s]
    BY <1>1, WorkflowsStart
  <2>2. /\ states' \in Seq(GraphState) /\ DOMAIN states' = DOMAIN states \cup {s}
        /\ states'[s].trace = t /\ \A i \in DOMAIN states : states'[i] = states[i]
    <3> DEFINE rec == [trace |-> t, query |-> TRUE]
    <3>1. states' = Append(states, rec)
      BY <1>1, WorkflowsStart
    <3>2. rec \in GraphState /\ rec.trace = t /\ states \in Seq(GraphState)
      BY <1>0 DEF WorkflowInv, GraphTypes, GraphState
    <3> HIDE DEF rec
    <3> QED
      BY <3>1, <3>2, Appended
  <2>3. /\ traces' \in TraceLog(GraphRunIds, GraphRunIds)
        /\ DOMAIN traces' = DOMAIN traces \cup {t} /\ t \notin DOMAIN traces
        /\ traces'[t].by = {r} /\ traces'[t].answers = <<>>
        /\ \A u \in DOMAIN traces : traces'[u] = traces[u]
    <3> DEFINE rec == [by |-> {r}, answers |-> <<>>]
    <3>1. traces' = Append(traces, rec) /\ traces \in TraceLog(GraphRunIds, GraphRunIds)
      BY <1>1, WorkflowsStart DEF WorkflowInv, GraphTypes
    <3>2. rec \in TraceRecords(GraphRunIds, GraphRunIds) /\ rec.by = {r} /\ rec.answers = <<>>
      BY DEF TraceRecords
    <3> HIDE DEF rec
    <3>3. traces' \in TraceLog(GraphRunIds, GraphRunIds)
      BY <3>1, <3>2, TraceAdded
    <3>4. DOMAIN traces' = DOMAIN traces \cup {t} /\ t \notin DOMAIN traces
      BY <3>1, <3>2, TraceAdded
    <3>5. traces'[t] = rec
      BY <3>1, <3>2, TraceAdded
    <3>6. \A u \in DOMAIN traces : traces'[u] = traces[u]
      BY <3>1, <3>2, TraceAdded
    <3> QED
      BY <3>2, <3>3, <3>4, <3>5, <3>6
  <2>4. GraphTypes(GraphRunIds)'
    BY <2>1, <2>2, <2>3 DEF WorkflowInv, GraphTypes
  <2>5. registry' \in [GraphRunIds -> Nat \cup {NoState}]
    BY <1>0, <2>1 DEF WorkflowInv
  <2>6. ASSUME NEW y \in GraphRunIds PROVE registry'[y] # NoState <=> phase'[y] = "open"
    BY <1>0, <2>1, StateAssumption DEF WorkflowInv, GraphTypes
  <2>7. ASSUME NEW u \in DOMAIN traces PROVE r \notin traces[u].by
    BY <2>1, <2>7 DEF WorkflowInv, GraphTrace
  <2>8. ASSUME NEW y \in GraphRunIds, phase'[y] = "open"
        PROVE  /\ registry'[y] \in DOMAIN states' /\ TraceOf(y)' \in DOMAIN traces'
               /\ \A u \in DOMAIN traces' : traces'[u].by = {y} <=> u = TraceOf(y)'
    <3>1. CASE y = r
      BY <2>1, <2>2, <2>3, <2>7, <3>1 DEF WorkflowInv
    <3>2. CASE y # r
      <4>1. phase[y] = "open" /\ registry'[y] = registry[y]
        BY <2>1, <2>8, <3>2 DEF WorkflowInv, GraphTypes
      <4>2. QED
        <5>1. registry[y] \in DOMAIN states /\ TraceOf(y) \in DOMAIN traces
          BY <4>1 DEF WorkflowInv
        <5>2. TraceOf(y)' = TraceOf(y)
          BY <2>2, <4>1, <5>1
        <5>3. \A u \in DOMAIN traces : traces[u].by = {y} <=> u = TraceOf(y)
          BY <4>1 DEF WorkflowInv
        <5> QED
          BY <2>2, <2>3, <3>2, <4>1, <5>1, <5>2, <5>3
    <3> QED
      BY <3>1, <3>2
  <2>9. ASSUME NEW u \in DOMAIN traces' PROVE GraphTrace(GraphRunIds, u)'
    BY <2>1, <2>3 DEF WorkflowInv, GraphTypes, GraphTrace
  <2> QED
    BY <2>4, <2>5, <2>6, <2>8, <2>9 DEF WorkflowInv
<1>2. ASSUME NEW r \in GraphRunIds, NEW x \in Contexts, Workflows!Event(r, x) PROVE WorkflowInv'
  BY <1>2, WorkflowsEvent DEF WorkflowInv, GraphTypes, GraphTrace
<1>3. ASSUME NEW r \in GraphRunIds, NEW x \in Contexts, Workflows!EndTrace(r, x) PROVE WorkflowInv'
  <2> DEFINE s == registry[r]
             t == TraceOf(r)
  <2>1. /\ phase[r] = "open" /\ phase' = [phase EXCEPT ![r] = "ended"]
        /\ registry' = [registry EXCEPT ![r] = NoState]
    BY <1>3, WorkflowsEnd
  <2>2. s \in DOMAIN states /\ t \in DOMAIN traces /\ \A u \in DOMAIN traces : traces[u].by = {r} <=> u = t
    BY <2>1 DEF WorkflowInv
  <2>3. /\ states' \in Seq(GraphState) /\ DOMAIN states' = DOMAIN states
        /\ \A i \in DOMAIN states \ {s} : states'[i] = states[i]
    <3>1. states' = [states EXCEPT ![s].trace = 0] /\ states \in Seq(GraphState)
      BY <1>3, WorkflowsEnd DEF WorkflowInv, GraphTypes
    <3> QED
      BY <2>2, <3>1, StateClosed
  <2>4. traces[t].answers = <<>>
    BY <2>1, <2>2 DEF WorkflowInv, GraphTrace
  <2>5. /\ traces' \in TraceLog(GraphRunIds, GraphRunIds) /\ DOMAIN traces' = DOMAIN traces
        /\ traces'[t].by = traces[t].by /\ traces'[t].answers \in {<<>>, <<r>>}
        /\ \A u \in DOMAIN traces \ {t} : traces'[u] = traces[u]
    <3>1. CASE traces' = traces
      BY <2>4, <3>1 DEF WorkflowInv, GraphTypes
    <3>2. CASE traces' = [traces EXCEPT ![TraceOf(r)].answers = Append(@, r)]
      <4>1. traces[t].answers \in Seq(GraphRunIds)
        BY <2>2, Element DEF WorkflowInv, GraphTypes
      <4>2. Append(traces[t].answers, r) = <<r>>
        BY <2>4
      <4>3. QED
        <5>1. traces \in TraceLog(GraphRunIds, GraphRunIds)
          BY DEF WorkflowInv, GraphTypes
        <5>2. traces' \in TraceLog(GraphRunIds, GraphRunIds) /\ DOMAIN traces' = DOMAIN traces
          BY <2>2, <3>2, <5>1, AnswerAdded
        <5>3. traces'[t].by = traces[t].by
          BY <2>2, <3>2, <5>1, AnswerAdded
        <5>5. traces'[t].answers = Append(traces[t].answers, r)
          BY <2>2, <3>2, <5>1, AnswerAdded
        <5>4. \A u \in DOMAIN traces \ {t} : traces'[u] = traces[u]
          BY <2>2, <3>2, <5>1, AnswerAdded
        <5> QED
          BY <4>2, <5>2, <5>3, <5>4, <5>5
    <3> QED
      BY <1>3, <3>1, <3>2, WorkflowsEnd
  <2>6. GraphTypes(GraphRunIds)' /\ registry' \in [GraphRunIds -> Nat \cup {NoState}]
    BY <2>1, <2>3, <2>5 DEF WorkflowInv, GraphTypes
  <2>7. ASSUME NEW y \in GraphRunIds PROVE registry'[y] # NoState <=> phase'[y] = "open"
    BY <2>1 DEF WorkflowInv, GraphTypes
  <2>8. ASSUME NEW y \in GraphRunIds, phase'[y] = "open"
        PROVE  /\ registry'[y] \in DOMAIN states' /\ TraceOf(y)' \in DOMAIN traces'
               /\ \A u \in DOMAIN traces' : traces'[u].by = {y} <=> u = TraceOf(y)'
    <3>1. y # r /\ phase[y] = "open" /\ registry'[y] = registry[y]
      BY <2>1, <2>8 DEF WorkflowInv, GraphTypes
    <3>2. registry[y] # s
      BY <2>2, <3>1 DEF WorkflowInv
    <3>3. \A u \in DOMAIN traces : traces'[u].by = traces[u].by
      BY <2>5
    <3> QED
      BY <2>3, <2>5, <3>1, <3>2, <3>3 DEF WorkflowInv
  <2>9. ASSUME NEW u \in DOMAIN traces' PROVE GraphTrace(GraphRunIds, u)'
    <3>1. CASE u = t
      BY <2>1, <2>2, <2>5, <3>1 DEF WorkflowInv, GraphTypes, GraphTrace
    <3>2. CASE u # t
      BY <2>1, <2>2, <2>5, <3>2 DEF WorkflowInv, GraphTypes, GraphTrace
    <3> QED
      BY <3>1, <3>2
  <2> QED
    BY <2>6, <2>7, <2>8, <2>9 DEF WorkflowInv
<1>4. ASSUME NEW x \in Contexts, NEW y \in Contexts, Workflows!Fork(x, y) PROVE WorkflowInv'
  BY <1>4 DEF Workflows!Fork, WorkflowInv, GraphTypes, GraphTrace
<1>5. CASE UNCHANGED Workflows!vars
  BY <1>5 DEF Workflows!vars, WorkflowInv, GraphTypes, GraphTrace
<1> QED
  BY <1>1, <1>2, <1>3, <1>4, <1>5 DEF Workflows!Next, Workflows!FirstNode

\* The handlers count with the operator of the same module.
LEMMA SameCardinality ==
    \A S : Workflows!Cardinality(S) = Cardinality(S) /\ PlainWorkflows!Cardinality(S) = Cardinality(S)
BY Zenon DEF Workflows!Cardinality, PlainWorkflows!Cardinality, Cardinality

LEMMA SingleSet == \A x : Workflows!Cardinality({x}) = 1 /\ PlainWorkflows!Cardinality({x}) = 1
BY SameCardinality, FS_Singleton

LEMMA WorkflowsKeep ==
    WorkflowInv => /\ Workflows!OneRunPerTrace /\ Workflows!OneTraceWhileOpen
                   /\ Workflows!OneAnswer /\ Workflows!EntriesReleased
<1> SUFFICES ASSUME WorkflowInv
             PROVE  /\ Workflows!OneRunPerTrace /\ Workflows!OneTraceWhileOpen
                    /\ Workflows!OneAnswer /\ Workflows!EntriesReleased
  OBVIOUS
<1>1. Workflows!OneRunPerTrace
  <2>1. ASSUME NEW t \in DOMAIN traces PROVE Workflows!Cardinality(traces[t].by) = 1
    <3>1. PICK r \in GraphRunIds : traces[t].by = {r}
      BY <2>1 DEF WorkflowInv, GraphTrace
    <3> QED
      BY <3>1, SingleSet
  <2> HIDE DEF WorkflowInv
  <2> QED
    BY <2>1 DEF Workflows!OneRunPerTrace
<1>2. ASSUME NEW r \in GraphRunIds, phase[r] = "open" PROVE Workflows!Cardinality(Workflows!TracesOf(r)) = 1
  <2>1. Workflows!TracesOf(r) = {TraceOf(r)}
    BY <1>2 DEF Workflows!TracesOf, WorkflowInv, GraphTrace
  <2> QED
    BY <2>1, SingleSet
<1>3. Workflows!OneAnswer
  <2>1. ASSUME NEW t \in DOMAIN traces
        PROVE  /\ Len(traces[t].answers) <= 1
               /\ \A i \in DOMAIN traces[t].answers : traces[t].answers[i] \in traces[t].by
    <3>1. PICK r \in GraphRunIds : traces[t].by = {r} /\ (traces[t].answers = <<>> \/ traces[t].answers = <<r>>)
      BY <2>1 DEF WorkflowInv, GraphTrace
    <3>2. CASE traces[t].answers = <<>>
      BY <3>2
    <3>3. CASE traces[t].answers = <<r>>
      BY <3>1, <3>3
    <3> QED
      BY <3>1, <3>2, <3>3
  <2> QED
    BY <2>1 DEF Workflows!OneAnswer
<1>4. Workflows!EntriesReleased
  BY DEF Workflows!EntriesReleased, WorkflowInv
<1> QED
  BY <1>1, <1>2, <1>3, <1>4 DEF Workflows!OneTraceWhileOpen

-----------------------------------------------------------------------------
(* PlainWorkflows: LangGraph without run ids.                              *)

\* What every context of an open run holds: a state with the only trace of the run.
HoldsTrace(r, s) ==
    /\ s \in DOMAIN states /\ \A x \in home[r] : current[x] = s
    /\ states[s].trace \in DOMAIN traces
    /\ \A t \in DOMAIN traces : traces[t].by = {r} <=> t = states[s].trace

\* Open runs have contexts of their own; a context none of them works in holds no
\* state or one whose run has ended; the default state waits for the run that
\* begins with a node.
PlainWorkflowInv ==
    /\ GraphTypes(PlainGraphRuns)
    /\ registry = [r \in PlainGraphRuns |-> NoState]
    /\ home \in [PlainGraphRuns -> SUBSET Contexts]
    /\ current \in [Contexts -> DOMAIN states \cup {NoState}]
    /\ \A s \in DOMAIN states : ~states[s].query => states[s].trace = 0
    /\ 1 \in DOMAIN states
    /\ states[1].query => \E r \in Implicit \cap PlainGraphRuns : phase[r] # "waiting"
    /\ \A r, y \in PlainGraphRuns : phase[r] = "open" /\ phase[y] = "open" /\ r # y => home[r] \cap home[y] = {}
    /\ \A r \in PlainGraphRuns : phase[r] = "open" => \E s \in DOMAIN states : HoldsTrace(r, s)
    /\ \A x \in Contexts : ~PlainWorkflows!Busy(x) /\ current[x] # NoState =>
          states[current[x]].trace = 0 /\ states[current[x]].query
    /\ \A t \in DOMAIN traces : GraphTrace(PlainGraphRuns, t)

\* A run begins in a context of its own with a new state, or with the default one.
PlainBegins(r, x, s) ==
    /\ phase[r] = "waiting" /\ ~PlainWorkflows!Busy(x)
    /\ phase' = [phase EXCEPT ![r] = "open"] /\ home' = [home EXCEPT ![r] = {x}]
    /\ registry' = registry /\ current' = [current EXCEPT ![x] = s]
    /\ LET rec == [trace |-> Len(traces) + 1, query |-> TRUE]
       IN \/ s = Len(states) + 1 /\ states' = Append(states, rec)
          \/ s = 1 /\ ~states[1].query /\ r \in Implicit /\ states' = [states EXCEPT ![1] = rec]
    /\ traces' = Append(traces, [by |-> {r}, answers |-> <<>>])

\* What start_trace makes of a new state.
LEMMA PlainNew ==
    ASSUME PlainWorkflowInv, NEW r \in PlainGraphRuns
    PROVE  PlainWorkflows!Opened(PlainWorkflows!With(PlainWorkflows!Now, Len(states) + 1), Len(states) + 1, r)
             = [states |-> Append(states, [trace |-> Len(traces) + 1, query |-> TRUE]),
                traces |-> Append(traces, [by |-> {r}, answers |-> <<>>])]
<1> DEFINE fresh == [trace |-> 0, query |-> FALSE]
           open == [trace |-> Len(traces) + 1, query |-> TRUE]
           s == Len(states) + 1
           grown == PlainWorkflows!With(PlainWorkflows!Now, s)
<1>1. Len(states) \in Nat /\ Len(traces) \in Nat
  BY Element DEF PlainWorkflowInv, GraphTypes
<1>2. grown = [states |-> Append(states, fresh), traces |-> traces]
  <2>1. s > Len(states)
    BY <1>1
  <2> HIDE DEF s, fresh
  <2> QED
    BY <2>1, StatesOf DEF PlainWorkflows!With, PlainWorkflows!Now, PlainWorkflows!FreshState, fresh
<1>3. fresh \in GraphState /\ open \in GraphState /\ states \in Seq(GraphState)
  BY <1>1 DEF PlainWorkflowInv, GraphTypes, GraphState
<1>4. Append(states, fresh)[s] = fresh /\ [Append(states, fresh) EXCEPT ![s] = open] = Append(states, open)
  <2> HIDE DEF fresh, open
  <2> QED
    BY <1>3, LastReplaced
<1> HIDE DEF grown, s
<1>6. grown.states = Append(states, fresh) /\ grown.traces = traces
  BY <1>2
<1>7. fresh.trace = 0
  OBVIOUS
<1> HIDE DEF fresh
<1>5. ~PlainWorkflows!HasTrace(grown, s)
  BY <1>4, <1>6, <1>7 DEF PlainWorkflows!HasTrace
<1> QED
  BY <1>4, <1>5, <1>6 DEF PlainWorkflows!Opened, grown, s

LEMMA PlainStart ==
    ASSUME PlainWorkflowInv, NEW r \in PlainGraphRuns, NEW x \in Contexts, PlainWorkflows!StartTrace(r, x)
    PROVE  PlainBegins(r, x, Len(states) + 1)
<1> DEFINE s == PlainWorkflows!StateFor(PlainWorkflows!Now, PlainWorkflows!Known(r), FALSE, current[x], TRUE)
<1>1. /\ phase[r] = "waiting" /\ ~PlainWorkflows!Busy(x)
      /\ phase' = [phase EXCEPT ![r] = "open"] /\ home' = [home EXCEPT ![r] = {x}]
  BY DEF PlainWorkflows!StartTrace, PlainWorkflows!MayBegin, PlainWorkflows!Begins
<1>2. PlainWorkflows!NeedsState(PlainWorkflows!Now, FALSE, current[x])
  BY <1>1 DEF PlainWorkflows!NeedsState, PlainWorkflows!Spent, PlainWorkflows!Now, PlainWorkflowInv
<1>3. s = Len(states) + 1
  BY <1>2 DEF PlainWorkflows!StateFor, PlainWorkflows!Known, PlainWorkflows!Now
<1>4. PlainWorkflows!Becomes(PlainWorkflows!Opened(PlainWorkflows!With(PlainWorkflows!Now, s), s, r),
                             PlainWorkflows!Entered(r, s), x, s)
  BY DEF PlainWorkflows!StartTrace
<1>5. PlainWorkflows!Entered(r, s) = registry
  BY DEF PlainWorkflows!Entered
<1> HIDE DEF s
<1>6. /\ states' = Append(states, [trace |-> Len(traces) + 1, query |-> TRUE])
      /\ traces' = Append(traces, [by |-> {r}, answers |-> <<>>])
      /\ registry' = registry /\ current' = [current EXCEPT ![x] = s]
  <2> DEFINE opened == PlainWorkflows!Opened(PlainWorkflows!With(PlainWorkflows!Now, s), s, r)
             more == Append(states, [trace |-> Len(traces) + 1, query |-> TRUE])
             begun == Append(traces, [by |-> {r}, answers |-> <<>>])
  <2>1. opened = [states |-> more, traces |-> begun]
    BY <1>3, PlainNew
  <2>2. PlainWorkflows!Becomes(opened, registry, x, s)
    BY <1>4, <1>5
  <2> HIDE DEF opened, more, begun
  <2>3. states' = more /\ traces' = begun /\ registry' = registry /\ current' = [current EXCEPT ![x] = s]
    BY <2>1, <2>2 DEF PlainWorkflows!Becomes
  <2> QED
    BY <2>3 DEF more, begun
<1> QED
  BY <1>1, <1>3, <1>6 DEF PlainBegins

\* The run a trace is of writes to it.
LEMMA PlainWrite ==
    ASSUME NEW T \in TraceLog(PlainGraphRuns, PlainGraphRuns), NEW S, NEW s, NEW r \in PlainGraphRuns,
           S[s].trace \in DOMAIN T, T[S[s].trace].by = {r}
    PROVE  PlainWorkflows!Write([states |-> S, traces |-> T], s, r) = [states |-> S, traces |-> T]
<1> DEFINE w == [T EXCEPT ![S[s].trace].by = @ \cup {r}]
<1>1. w = T
  BY OwnerWrites
<1>2. PlainWorkflows!Write([states |-> S, traces |-> T], s, r) = [[states |-> S, traces |-> T] EXCEPT !.traces = w]
  BY DEF PlainWorkflows!Write
<1> HIDE DEF w
<1> QED
  BY <1>1, <1>2, StatesOf

LEMMA PlainFirst ==
    ASSUME PlainWorkflowInv, NEW r \in PlainGraphRuns, NEW x \in Contexts, PlainWorkflows!FirstNode(r, x)
    PROVE  \E s \in Nat : PlainBegins(r, x, s)
<1>1. /\ r \in Implicit /\ phase[r] = "waiting" /\ ~PlainWorkflows!Busy(x)
      /\ phase' = [phase EXCEPT ![r] = "open"] /\ home' = [home EXCEPT ![r] = {x}]
  BY DEF PlainWorkflows!FirstNode, PlainWorkflows!MayBegin, PlainWorkflows!Begins
<1> DEFINE s == PlainWorkflows!StateFor(PlainWorkflows!Now, PlainWorkflows!Known(r), FALSE, current[x], FALSE)
           at == PlainWorkflows!Ensured(PlainWorkflows!Now, s)
           log0 == PlainWorkflows!Opened(PlainWorkflows!With(PlainWorkflows!Now, at), at, r)
           more == Append(states, [trace |-> Len(traces) + 1, query |-> TRUE])
           used == [states EXCEPT ![1] = [trace |-> Len(traces) + 1, query |-> TRUE]]
           begun == Append(traces, [by |-> {r}, answers |-> <<>>])
<1>2. PlainWorkflows!Becomes(PlainWorkflows!Write(log0, at, r), PlainWorkflows!Entered(r, s), x, at)
  BY DEF PlainWorkflows!FirstNode, PlainWorkflows!LogsEvent
<1>3. PlainWorkflows!Entered(r, s) = registry
  BY DEF PlainWorkflows!Entered
<1>4. s = IF current[x] # NoState THEN current[x] ELSE 1
  BY DEF PlainWorkflows!StateFor, PlainWorkflows!Known, PlainWorkflows!CurrentOr, PlainWorkflows!DefaultState
<1>5. Len(states) \in Nat /\ DOMAIN states = 1..Len(states) /\ Len(traces) \in Nat /\ DOMAIN traces = 1..Len(traces)
  BY Element DEF PlainWorkflowInv, GraphTypes
<1>6. /\ begun \in TraceLog(PlainGraphRuns, PlainGraphRuns)
      /\ Len(traces) + 1 \in DOMAIN begun /\ begun[Len(traces) + 1].by = {r}
  <2> DEFINE rec == [by |-> {r}, answers |-> <<>>]
  <2>1. rec \in TraceRecords(PlainGraphRuns, PlainGraphRuns) /\ rec.by = {r}
    BY DEF TraceRecords
  <2>2. traces \in TraceLog(PlainGraphRuns, PlainGraphRuns) /\ begun = Append(traces, rec)
    BY DEF PlainWorkflowInv, GraphTypes
  <2> HIDE DEF rec, begun
  <2>3. begun \in TraceLog(PlainGraphRuns, PlainGraphRuns)
    BY <2>1, <2>2, TraceAdded
  <2>4. Len(traces) + 1 \in DOMAIN begun
    BY <2>1, <2>2, TraceAdded
  <2>5. begun[Len(traces) + 1] = rec
    BY <2>1, <2>2, TraceAdded
  <2> QED
    BY <2>1, <2>3, <2>4, <2>5
<1>7. CASE current[x] # NoState
  <2>1. s = current[x] /\ states[s].trace = 0 /\ states[s].query
    BY <1>1, <1>4, <1>7 DEF PlainWorkflowInv
  <2>2. at = Len(states) + 1
    BY <1>7, <2>1
    DEF PlainWorkflows!Ensured, PlainWorkflows!HasTrace, PlainWorkflows!Now, PlainWorkflows!StateFor,
        PlainWorkflows!NeedsState, PlainWorkflows!Spent
  <2> HIDE DEF s, at
  <2>3. log0 = [states |-> more, traces |-> begun]
    BY <2>2, PlainNew
  <2>4. more[at].trace = Len(traces) + 1
    <3> DEFINE rec == [trace |-> Len(traces) + 1, query |-> TRUE]
    <3>1. rec \in GraphState /\ states \in Seq(GraphState) /\ rec.trace = Len(traces) + 1
      BY <1>5 DEF PlainWorkflowInv, GraphTypes, GraphState
    <3>2. more = Append(states, rec)
      OBVIOUS
    <3> HIDE DEF rec, more
    <3>3. more[Len(states) + 1] = rec
      BY <3>1, <3>2, Appended
    <3> QED
      BY <2>2, <3>1, <3>3
  <2> HIDE DEF more, begun, log0
  <2>5. PlainWorkflows!Write(log0, at, r) = log0
    BY <1>6, <2>3, <2>4, PlainWrite
  <2>6. states' = more /\ traces' = begun /\ registry' = registry /\ current' = [current EXCEPT ![x] = at]
    BY <1>2, <1>3, <2>3, <2>5 DEF PlainWorkflows!Becomes
  <2>7. PlainBegins(r, x, Len(states) + 1)
    BY <1>1, <2>2, <2>6 DEF PlainBegins, more, begun
  <2> QED
    BY <1>5, <2>7
<1>8. CASE current[x] = NoState
  <2>1. s = 1 /\ ~states[1].query /\ states[1].trace = 0 /\ 1 \in DOMAIN states
    BY <1>1, <1>4, <1>8, ImplicitAssumption DEF PlainWorkflowInv
  <2>2. at = 1
    BY <2>1, StateAssumption
    DEF PlainWorkflows!Ensured, PlainWorkflows!HasTrace, PlainWorkflows!Now, PlainWorkflows!StateFor,
        PlainWorkflows!NeedsState, PlainWorkflows!Spent, PlainWorkflows!CurrentOr
  <2> HIDE DEF s, at
  <2>3. PlainWorkflows!With(PlainWorkflows!Now, at) = PlainWorkflows!Now
    BY <1>5, <2>1, <2>2 DEF PlainWorkflows!With, PlainWorkflows!Now
  <2>4. log0 = [states |-> used, traces |-> begun]
    <3>1. log0 = PlainWorkflows!Opened(PlainWorkflows!Now, 1, r)
      BY <2>2, <2>3
    <3>2. ~PlainWorkflows!HasTrace(PlainWorkflows!Now, 1)
      BY <2>1 DEF PlainWorkflows!HasTrace, PlainWorkflows!Now
    <3> HIDE DEF log0
    <3> QED
      BY <3>1, <3>2 DEF PlainWorkflows!Opened, PlainWorkflows!Now
  <2>5. used[at].trace = Len(traces) + 1
    BY <2>1, <2>2
  <2> HIDE DEF used, begun, log0
  <2>6. PlainWorkflows!Write(log0, at, r) = log0
    BY <1>6, <2>4, <2>5, PlainWrite
  <2>7. states' = used /\ traces' = begun /\ registry' = registry /\ current' = [current EXCEPT ![x] = at]
    BY <1>2, <1>3, <2>4, <2>6 DEF PlainWorkflows!Becomes
  <2>8. PlainBegins(r, x, 1)
    BY <1>1, <2>1, <2>2, <2>7 DEF PlainBegins, used, begun
  <2> QED
    BY <2>8
<1> QED
  BY <1>7, <1>8

LEMMA PlainEvent ==
    ASSUME PlainWorkflowInv, NEW r \in PlainGraphRuns, NEW x \in Contexts, PlainWorkflows!Event(r, x)
    PROVE  UNCHANGED <<phase, home, registry, current, states, traces>>
<1>1. phase[r] = "open" /\ x \in home[r] /\ phase' = phase /\ home' = home /\ PlainWorkflows!LogsEvent(r, x)
  BY DEF PlainWorkflows!Event
<1>2. PICK s \in DOMAIN states : HoldsTrace(r, s)
  BY <1>1 DEF PlainWorkflowInv
<1>3. /\ current[x] = s /\ s # NoState /\ s \in 1..Len(states) /\ Len(states) \in Nat
      /\ states[s].trace \in DOMAIN traces /\ traces[states[s].trace].by = {r} /\ states[s].trace # 0
  BY <1>1, <1>2, Element, StateAssumption DEF HoldsTrace, PlainWorkflowInv, GraphTypes
<1>4. PlainWorkflows!StateFor(PlainWorkflows!Now, PlainWorkflows!Known(r), FALSE, current[x], FALSE) = s
  BY <1>3 DEF PlainWorkflows!StateFor, PlainWorkflows!Known, PlainWorkflows!CurrentOr
<1>5. PlainWorkflows!Ensured(PlainWorkflows!Now, s) = s
  BY <1>3 DEF PlainWorkflows!Ensured, PlainWorkflows!HasTrace, PlainWorkflows!Now
<1>6. PlainWorkflows!With(PlainWorkflows!Now, s) = PlainWorkflows!Now
  BY <1>3 DEF PlainWorkflows!With, PlainWorkflows!Now
<1>7. PlainWorkflows!Opened(PlainWorkflows!Now, s, r) = PlainWorkflows!Now
  BY <1>3 DEF PlainWorkflows!Opened, PlainWorkflows!HasTrace, PlainWorkflows!Now
<1>8. PlainWorkflows!Write(PlainWorkflows!Now, s, r) = PlainWorkflows!Now
  BY <1>3, PlainWrite DEF PlainWorkflows!Now, PlainWorkflowInv, GraphTypes
<1>9. PlainWorkflows!Becomes(PlainWorkflows!Now, registry, x, s)
  BY <1>1, <1>4, <1>5, <1>6, <1>7, <1>8 DEF PlainWorkflows!LogsEvent, PlainWorkflows!Entered
<1>10. [current EXCEPT ![x] = s] = current
  BY <1>3 DEF PlainWorkflowInv
<1> QED
  BY <1>1, <1>9, <1>10 DEF PlainWorkflows!Becomes, PlainWorkflows!Now

LEMMA PlainEnd ==
    ASSUME PlainWorkflowInv, NEW r \in PlainGraphRuns, NEW x \in Contexts, PlainWorkflows!EndTrace(r, x)
    PROVE  /\ phase[r] = "open" /\ phase' = [phase EXCEPT ![r] = "ended"]
           /\ UNCHANGED <<home, registry, current>>
           /\ \E s \in DOMAIN states :
                 /\ HoldsTrace(r, s) /\ states' = [states EXCEPT ![s].trace = 0]
                 /\ \/ traces' = traces
                    \/ traces' = [traces EXCEPT ![states[s].trace].answers = Append(@, r)]
<1>1. /\ phase[r] = "open" /\ x \in home[r] /\ home' = home
      /\ phase' = [phase EXCEPT ![r] = "ended"]
  BY DEF PlainWorkflows!EndTrace
<1>2. PICK s \in DOMAIN states : HoldsTrace(r, s)
  BY <1>1 DEF PlainWorkflowInv
<1> DEFINE t == states[s].trace
           w == [traces EXCEPT ![t].answers = Append(@, r)]
           closed == [states EXCEPT ![s].trace = 0]
           answered == [PlainWorkflows!Now EXCEPT !.traces[t].answers = Append(@, r)]
<1>3. current[x] = s /\ s # NoState /\ t \in DOMAIN traces /\ traces[t].by = {r} /\ t # 0
  BY <1>1, <1>2, Element, StateAssumption DEF HoldsTrace, PlainWorkflowInv, GraphTypes
<1>4. PlainWorkflows!StateFor(PlainWorkflows!Now, PlainWorkflows!Known(r), FALSE, current[x], FALSE) = s
  BY <1>3 DEF PlainWorkflows!StateFor, PlainWorkflows!Known, PlainWorkflows!CurrentOr
<1>5. PlainWorkflows!HasTrace(PlainWorkflows!Now, s)
  BY <1>3 DEF PlainWorkflows!HasTrace, PlainWorkflows!Now
<1>6. PlainWorkflows!Write(PlainWorkflows!Now, s, r) = PlainWorkflows!Now
  BY <1>3, PlainWrite DEF PlainWorkflows!Now, PlainWorkflowInv, GraphTypes
<1>7. PlainWorkflows!Entered(r, s) = registry /\ PlainWorkflows!Release(registry, s, r) = registry
  BY DEF PlainWorkflows!Entered, PlainWorkflows!Release, PlainWorkflowInv
<1>8. \/ PlainWorkflows!Becomes(PlainWorkflows!Closed(answered, s), registry, x, s)
      \/ PlainWorkflows!Becomes(PlainWorkflows!Closed(PlainWorkflows!Now, s), registry, x, s)
  BY <1>4, <1>5, <1>6, <1>7 DEF PlainWorkflows!EndTrace
<1>9. [current EXCEPT ![x] = s] = current
  BY <1>3 DEF PlainWorkflowInv
<1>10. ASSUME NEW T PROVE PlainWorkflows!Closed([states |-> states, traces |-> T], s) = [states |-> closed, traces |-> T]
  <2>1. PlainWorkflows!Closed([states |-> states, traces |-> T], s)
          = [[states |-> states, traces |-> T] EXCEPT !.states = closed]
    BY DEF PlainWorkflows!Closed
  <2> HIDE DEF closed
  <2> QED
    BY <2>1, StatesOf
<1>11. answered = [states |-> states, traces |-> w]
  BY DEF PlainWorkflows!Now
<1> HIDE DEF answered, w, closed
<1>12. /\ PlainWorkflows!Closed(answered, s) = [states |-> closed, traces |-> w]
       /\ PlainWorkflows!Closed(PlainWorkflows!Now, s) = [states |-> closed, traces |-> traces]
  BY <1>10, <1>11 DEF PlainWorkflows!Now
<1>13. states' = closed /\ registry' = registry /\ current' = current /\ (traces' = traces \/ traces' = w)
  BY <1>8, <1>9, <1>12 DEF PlainWorkflows!Becomes
<1> QED
  BY <1>1, <1>2, <1>13 DEF closed, w

LEMMA PlainWorkflowsInit == PlainWorkflows!Init => PlainWorkflowInv
<1> SUFFICES ASSUME PlainWorkflows!Init PROVE PlainWorkflowInv
  OBVIOUS
<1>1. PlainWorkflows!FreshState \in GraphState /\ ~PlainWorkflows!FreshState.query /\ PlainWorkflows!FreshState.trace = 0
  BY DEF PlainWorkflows!FreshState, GraphState
<1>2. states = <<PlainWorkflows!FreshState>> /\ states \in Seq(GraphState) /\ DOMAIN states = {1} /\ states[1] = PlainWorkflows!FreshState
  BY <1>1 DEF PlainWorkflows!Init
<1>3. traces \in TraceLog(PlainGraphRuns, PlainGraphRuns) /\ DOMAIN traces = {}
  BY DEF PlainWorkflows!Init, TraceLog
<1> QED
  BY <1>1, <1>2, <1>3 DEF PlainWorkflows!Init, PlainWorkflowInv, GraphTypes

LEMMA PlainBeginsStep ==
    ASSUME PlainWorkflowInv, NEW r \in PlainGraphRuns, NEW x \in Contexts, NEW s, PlainBegins(r, x, s)
    PROVE  PlainWorkflowInv'
<1> DEFINE t == Len(traces) + 1
<1>0. Len(states) \in Nat /\ DOMAIN states = 1..Len(states) /\ Len(traces) \in Nat /\ DOMAIN traces = 1..Len(traces)
  BY Element DEF PlainWorkflowInv, GraphTypes
<1>1. /\ phase[r] = "waiting" /\ ~PlainWorkflows!Busy(x)
      /\ phase' = [phase EXCEPT ![r] = "open"] /\ home' = [home EXCEPT ![r] = {x}]
      /\ registry' = registry /\ current' = [current EXCEPT ![x] = s]
  BY DEF PlainBegins
<1>2. /\ states' \in Seq(GraphState) /\ DOMAIN states' = DOMAIN states \cup {s} /\ s \in Nat
      /\ states'[s].trace = t /\ states'[s].query
      /\ \A i \in DOMAIN states \ {s} : states'[i] = states[i]
      /\ s \in DOMAIN states => s = 1 /\ ~states[1].query /\ r \in Implicit
  <2> DEFINE rec == [trace |-> t, query |-> TRUE]
  <2>1. rec \in GraphState /\ rec.trace = t /\ rec.query /\ states \in Seq(GraphState)
    BY <1>0 DEF PlainWorkflowInv, GraphTypes, GraphState
  <2>2. \/ s = Len(states) + 1 /\ states' = Append(states, rec)
        \/ s = 1 /\ ~states[1].query /\ r \in Implicit /\ states' = [states EXCEPT ![1] = rec]
    BY DEF PlainBegins
  <2> HIDE DEF rec, t
  <2>3. CASE s = Len(states) + 1 /\ states' = Append(states, rec)
    <3>1. states' \in Seq(GraphState) /\ DOMAIN states' = DOMAIN states \cup {s} /\ s \notin DOMAIN states
      BY <2>1, <2>3, Appended
    <3>2. states'[s] = rec /\ \A i \in DOMAIN states : states'[i] = states[i]
      BY <2>1, <2>3, Appended
    <3> QED
      BY <1>0, <2>1, <2>3, <3>1, <3>2
  <2>4. CASE s = 1 /\ ~states[1].query /\ r \in Implicit /\ states' = [states EXCEPT ![1] = rec]
    <3>0. 1 \in DOMAIN states
      BY DEF PlainWorkflowInv
    <3>1. states' \in Seq(GraphState) /\ DOMAIN states' = DOMAIN states
      BY <2>1, <2>4, <3>0, Replaced
    <3>2. states'[1] = rec /\ \A i \in DOMAIN states \ {1} : states'[i] = states[i]
      BY <2>1, <2>4, <3>0, Replaced
    <3> QED
      BY <2>1, <2>4, <3>0, <3>1, <3>2
  <2> QED
    BY <2>2, <2>3, <2>4
<1>3. /\ traces' \in TraceLog(PlainGraphRuns, PlainGraphRuns)
      /\ DOMAIN traces' = DOMAIN traces \cup {t} /\ t \notin DOMAIN traces
      /\ traces'[t].by = {r} /\ traces'[t].answers = <<>>
      /\ \A u \in DOMAIN traces : traces'[u] = traces[u]
  <2> DEFINE rec == [by |-> {r}, answers |-> <<>>]
  <2>1. traces' = Append(traces, rec) /\ traces \in TraceLog(PlainGraphRuns, PlainGraphRuns)
    BY DEF PlainBegins, PlainWorkflowInv, GraphTypes
  <2>2. rec \in TraceRecords(PlainGraphRuns, PlainGraphRuns) /\ rec.by = {r} /\ rec.answers = <<>>
    BY DEF TraceRecords
  <2> HIDE DEF rec
  <2>3. traces' \in TraceLog(PlainGraphRuns, PlainGraphRuns)
    BY <2>1, <2>2, TraceAdded
  <2>4. DOMAIN traces' = DOMAIN traces \cup {t} /\ t \notin DOMAIN traces
    BY <2>1, <2>2, TraceAdded
  <2>5. traces'[t] = rec
    BY <2>1, <2>2, TraceAdded
  <2>6. \A u \in DOMAIN traces : traces'[u] = traces[u]
    BY <2>1, <2>2, TraceAdded
  <2> QED
    BY <2>2, <2>3, <2>4, <2>5, <2>6
<1> HIDE DEF t
<1>4. ASSUME NEW i \in DOMAIN states, states[i].query \/ states[i].trace \in DOMAIN traces PROVE i # s /\ states'[i] = states[i]
  BY <1>0, <1>2, <1>4 DEF PlainWorkflowInv
<1>5. ASSUME NEW u \in DOMAIN traces PROVE r \notin traces[u].by
  BY <1>1, <1>5 DEF PlainWorkflowInv, GraphTrace
<1>6. /\ GraphTypes(PlainGraphRuns)' /\ home' \in [PlainGraphRuns -> SUBSET Contexts]
      /\ current' \in [Contexts -> DOMAIN states' \cup {NoState}]
  BY <1>1, <1>2, <1>3 DEF PlainWorkflowInv, GraphTypes
<1>7. /\ \A i \in DOMAIN states' : ~states'[i].query => states'[i].trace = 0
      /\ 1 \in DOMAIN states'
      /\ states'[1].query => \E y \in Implicit \cap PlainGraphRuns : phase'[y] # "waiting"
  <2>1. ASSUME NEW i \in DOMAIN states', ~states'[i].query PROVE states'[i].trace = 0
    BY <1>2, <2>1 DEF PlainWorkflowInv
  <2>2. 1 \in DOMAIN states'
    BY <1>2 DEF PlainWorkflowInv
  <2>3. ASSUME states'[1].query PROVE \E y \in Implicit \cap PlainGraphRuns : phase'[y] # "waiting"
    <3>1. CASE s = 1
      <4>1. r \in Implicit /\ phase'[r] = "open"
        BY <1>1, <1>2, <3>1 DEF PlainWorkflowInv, GraphTypes
      <4> QED
        BY <4>1
    <3>2. CASE s # 1
      <4>1. PICK y \in Implicit \cap PlainGraphRuns : phase[y] # "waiting"
        BY <1>2, <2>3, <3>2 DEF PlainWorkflowInv
      <4>2. phase'[y] # "waiting"
        BY <1>1, <4>1 DEF PlainWorkflowInv, GraphTypes
      <4> QED
        BY <4>1, <4>2
    <3> QED
      BY <3>1, <3>2
  <2> QED
    BY <2>1, <2>2, <2>3
<1>8. ASSUME NEW y \in PlainGraphRuns, phase'[y] = "open", y # r
      PROVE  phase[y] = "open" /\ home'[y] = home[y] /\ x \notin home[y]
  BY <1>1, <1>8 DEF PlainWorkflowInv, GraphTypes, PlainWorkflows!Busy
<1>9. ASSUME NEW y \in PlainGraphRuns, NEW z \in PlainGraphRuns, phase'[y] = "open", phase'[z] = "open", y # z
      PROVE  home'[y] \cap home'[z] = {}
  BY <1>1, <1>8, <1>9 DEF PlainWorkflowInv, GraphTypes
<1>10. ASSUME NEW y \in PlainGraphRuns, phase'[y] = "open"
       PROVE  \E i \in DOMAIN states' : HoldsTrace(y, i)'
  <2>1. CASE y = r
    <3>1. s \in DOMAIN states' /\ (\A z \in home'[r] : current'[z] = s) /\ states'[s].trace \in DOMAIN traces'
      BY <1>1, <1>2, <1>3 DEF PlainWorkflowInv
    <3>2. \A u \in DOMAIN traces' : traces'[u].by = {r} <=> u = states'[s].trace
      BY <1>2, <1>3, <1>5
    <3> QED
      BY <2>1, <3>1, <3>2 DEF HoldsTrace
  <2>2. CASE y # r
    <3>1. PICK i \in DOMAIN states : HoldsTrace(y, i)
      BY <1>8, <1>10, <2>2 DEF PlainWorkflowInv
    <3>2. states'[i] = states[i] /\ i \in DOMAIN states' /\ states[i].trace \in DOMAIN traces
      BY <1>2, <1>4, <3>1 DEF HoldsTrace
    <3>3. \A z \in home'[y] : current'[z] = i
      BY <1>1, <1>8, <1>10, <2>2, <3>1 DEF HoldsTrace, PlainWorkflowInv
    <3>4. \A u \in DOMAIN traces' : traces'[u].by = {y} <=> u = states'[i].trace
      BY <1>3, <2>2, <3>1, <3>2 DEF HoldsTrace
    <3> QED
      BY <1>3, <3>2, <3>3, <3>4 DEF HoldsTrace
  <2> QED
    BY <2>1, <2>2
<1>11. ASSUME NEW z \in Contexts, ~PlainWorkflows!Busy(z)', current'[z] # NoState
       PROVE  states'[current'[z]].trace = 0 /\ states'[current'[z]].query
  <2>1. z # x
    BY <1>1, <1>11 DEF PlainWorkflows!Busy, PlainWorkflowInv, GraphTypes
  <2>2. ~PlainWorkflows!Busy(z)
    BY <1>1, <1>8, <1>11 DEF PlainWorkflows!Busy, PlainWorkflowInv, GraphTypes
  <2>3. current'[z] = current[z] /\ current[z] \in DOMAIN states
    BY <1>1, <1>11, <2>1 DEF PlainWorkflowInv
  <2>4. states[current[z]].trace = 0 /\ states[current[z]].query
    BY <1>11, <2>2, <2>3 DEF PlainWorkflowInv
  <2> QED
    BY <1>4, <2>3, <2>4
<1>12. ASSUME NEW u \in DOMAIN traces' PROVE GraphTrace(PlainGraphRuns, u)'
  <2>1. phase'[r] = "open" /\ \A y \in PlainGraphRuns : y # r => phase'[y] = phase[y]
    BY <1>1 DEF PlainWorkflowInv, GraphTypes
  <2>2. CASE u = t
    BY <1>3, <2>1, <2>2 DEF GraphTrace
  <2>3. CASE u # t
    <3>1. traces'[u] = traces[u] /\ GraphTrace(PlainGraphRuns, u)
      BY <1>3, <2>3 DEF PlainWorkflowInv
    <3> QED
      BY <1>1, <2>1, <3>1 DEF GraphTrace
  <2> QED
    BY <2>2, <2>3
<1>13. registry' = [y \in PlainGraphRuns |-> NoState]
  BY <1>1 DEF PlainWorkflowInv
<1> QED
  BY <1>6, <1>7, <1>9, <1>10, <1>11, <1>12, <1>13 DEF PlainWorkflowInv

LEMMA PlainEndStep ==
    ASSUME PlainWorkflowInv, NEW r \in PlainGraphRuns, NEW x \in Contexts, PlainWorkflows!EndTrace(r, x)
    PROVE  PlainWorkflowInv'
<1>0. Len(states) \in Nat /\ DOMAIN states = 1..Len(states) /\ Len(traces) \in Nat /\ DOMAIN traces = 1..Len(traces)
  BY Element DEF PlainWorkflowInv, GraphTypes
<1>1. /\ phase[r] = "open" /\ phase' = [phase EXCEPT ![r] = "ended"]
      /\ home' = home /\ registry' = registry /\ current' = current
  BY PlainEnd
<1>2. PICK s \in DOMAIN states :
         /\ HoldsTrace(r, s) /\ states' = [states EXCEPT ![s].trace = 0]
         /\ \/ traces' = traces
            \/ traces' = [traces EXCEPT ![states[s].trace].answers = Append(@, r)]
  BY PlainEnd
<1> DEFINE t == states[s].trace
<1>3. /\ states' \in Seq(GraphState) /\ DOMAIN states' = DOMAIN states
      /\ states'[s].trace = 0 /\ states'[s].query = states[s].query
      /\ \A i \in DOMAIN states \ {s} : states'[i] = states[i]
  <2>1. states \in Seq(GraphState) /\ states' = [states EXCEPT ![s].trace = 0]
    BY <1>2 DEF PlainWorkflowInv, GraphTypes
  <2> HIDE DEF PlainWorkflowInv
  <2> QED
    BY <2>1, StateClosed
<1>4. t \in DOMAIN traces /\ t # 0 /\ traces[t].by = {r} /\ states[s].query
  BY <1>0, <1>2 DEF HoldsTrace, PlainWorkflowInv
<1>5. traces[t].answers = <<>>
  <2>1. PICK y \in PlainGraphRuns : traces[t].by = {y} /\ (traces[t].answers = <<>> \/ phase[y] = "ended")
    BY <1>4 DEF PlainWorkflowInv, GraphTrace
  <2>2. y = r
    BY <1>4, <2>1
  <2> QED
    BY <1>1, <2>1, <2>2
<1>6. /\ traces' \in TraceLog(PlainGraphRuns, PlainGraphRuns) /\ DOMAIN traces' = DOMAIN traces
      /\ traces'[t].by = {r} /\ (traces'[t].answers = <<>> \/ traces'[t].answers = <<r>>)
      /\ \A u \in DOMAIN traces \ {t} : traces'[u] = traces[u]
  <2>0. traces \in TraceLog(PlainGraphRuns, PlainGraphRuns)
    BY DEF PlainWorkflowInv, GraphTypes
  <2>1. CASE traces' = traces
    BY <1>4, <1>5, <2>0, <2>1
  <2>2. CASE traces' = [traces EXCEPT ![t].answers = Append(@, r)]
    <3> HIDE DEF t
    <3>1. Append(traces[t].answers, r) = <<r>>
      BY <1>5
    <3>2. traces' \in TraceLog(PlainGraphRuns, PlainGraphRuns) /\ DOMAIN traces' = DOMAIN traces
      BY <1>4, <2>0, <2>2, AnswerAdded
    <3>3. traces'[t].by = {r}
      <4>1. traces[t] \in [by : SUBSET PlainGraphRuns, answers : Seq(PlainGraphRuns)]
        BY <1>4, <2>0, Element
      <4>2. traces'[t] = [traces[t] EXCEPT !.answers = Append(@, r)]
        BY <1>4, <2>2
      <4> QED
        BY <1>4, <4>1, <4>2
    <3>4. traces'[t].answers = Append(traces[t].answers, r)
      BY <1>4, <2>0, <2>2, AnswerAdded
    <3>5. \A u \in DOMAIN traces \ {t} : traces'[u] = traces[u]
      BY <1>4, <2>0, <2>2, AnswerAdded
    <3> QED
      BY <1>4, <3>1, <3>2, <3>3, <3>4, <3>5
  <2> QED
    BY <1>2, <2>1, <2>2
<1> HIDE DEF t
<1>7. ASSUME NEW y \in PlainGraphRuns, phase'[y] = "open" PROVE y # r /\ phase[y] = "open"
  BY <1>1, <1>7 DEF PlainWorkflowInv, GraphTypes
<1>8. GraphTypes(PlainGraphRuns)' /\ home' \in [PlainGraphRuns -> SUBSET Contexts]
      /\ current' \in [Contexts -> DOMAIN states' \cup {NoState}] /\ registry' = [y \in PlainGraphRuns |-> NoState]
  BY <1>1, <1>3, <1>6 DEF PlainWorkflowInv, GraphTypes
<1>9. /\ \A i \in DOMAIN states' : ~states'[i].query => states'[i].trace = 0
      /\ 1 \in DOMAIN states'
      /\ states'[1].query => \E y \in Implicit \cap PlainGraphRuns : phase'[y] # "waiting"
  <2>1. ASSUME NEW i \in DOMAIN states', ~states'[i].query PROVE states'[i].trace = 0
    BY <1>3, <2>1 DEF PlainWorkflowInv
  <2>2. 1 \in DOMAIN states'
    BY <1>3 DEF PlainWorkflowInv
  <2>3. ASSUME states'[1].query PROVE \E y \in Implicit \cap PlainGraphRuns : phase'[y] # "waiting"
    <3>1. states[1].query
      BY <1>3, <2>2, <2>3
    <3>2. PICK y \in Implicit \cap PlainGraphRuns : phase[y] # "waiting"
      BY <3>1 DEF PlainWorkflowInv
    <3>3. phase'[y] # "waiting"
      BY <1>1, <3>2 DEF PlainWorkflowInv, GraphTypes
    <3> QED
      BY <3>2, <3>3
  <2> QED
    BY <2>1, <2>2, <2>3
<1>10. ASSUME NEW y \in PlainGraphRuns, NEW z \in PlainGraphRuns, phase'[y] = "open", phase'[z] = "open", y # z
       PROVE  home'[y] \cap home'[z] = {}
  BY <1>1, <1>7, <1>10 DEF PlainWorkflowInv
<1>11. ASSUME NEW y \in PlainGraphRuns, phase'[y] = "open"
       PROVE  \E i \in DOMAIN states' : HoldsTrace(y, i)'
  <2>1. PICK i \in DOMAIN states : HoldsTrace(y, i)
    BY <1>7, <1>11 DEF PlainWorkflowInv
  <2>2. i # s
    BY <1>4, <1>7, <1>11, <2>1 DEF HoldsTrace, t
  <2>3. \A u \in DOMAIN traces : traces'[u].by = traces[u].by
    BY <1>4, <1>6
  <2>4. states'[i] = states[i]
    BY <1>3, <2>2
  <2>5. HoldsTrace(y, i)'
    BY <1>1, <1>3, <1>6, <2>1, <2>3, <2>4 DEF HoldsTrace
  <2> QED
    BY <1>3, <2>5
<1>12. ASSUME NEW z \in Contexts, ~PlainWorkflows!Busy(z)', current'[z] # NoState
       PROVE  states'[current'[z]].trace = 0 /\ states'[current'[z]].query
  <2>1. CASE current[z] = s
    BY <1>1, <1>3, <1>4, <2>1
  <2>2. CASE current[z] # s
    <3>1. current[z] \in DOMAIN states /\ states'[current[z]] = states[current[z]]
      BY <1>1, <1>3, <1>12, <2>2 DEF PlainWorkflowInv
    <3>2. ~PlainWorkflows!Busy(z)
      <4>1. SUFFICES ASSUME NEW y \in PlainGraphRuns, phase[y] = "open", z \in home[y] PROVE FALSE
        BY DEF PlainWorkflows!Busy
      <4>2. y = r
        BY <1>1, <1>12, <4>1 DEF PlainWorkflows!Busy, PlainWorkflowInv, GraphTypes
      <4> QED
        BY <1>2, <2>2, <4>1, <4>2 DEF HoldsTrace
    <3> QED
      BY <1>1, <1>12, <3>1, <3>2 DEF PlainWorkflowInv
  <2> QED
    BY <2>1, <2>2
<1>13. ASSUME NEW u \in DOMAIN traces' PROVE GraphTrace(PlainGraphRuns, u)'
  <2>1. phase'[r] = "ended" /\ \A y \in PlainGraphRuns : y # r => phase'[y] = phase[y]
    BY <1>1 DEF PlainWorkflowInv, GraphTypes
  <2>2. CASE u = t
    BY <1>6, <2>1, <2>2 DEF GraphTrace
  <2>3. CASE u # t
    <3>1. traces'[u] = traces[u] /\ GraphTrace(PlainGraphRuns, u)
      BY <1>6, <2>3 DEF PlainWorkflowInv
    <3> QED
      BY <1>1, <2>1, <3>1 DEF GraphTrace
  <2> QED
    BY <2>2, <2>3
<1> QED
  BY <1>8, <1>9, <1>10, <1>11, <1>12, <1>13 DEF PlainWorkflowInv

LEMMA PlainForkStep ==
    ASSUME PlainWorkflowInv, NEW x \in Contexts, NEW y \in Contexts, PlainWorkflows!Fork(x, y)
    PROVE  PlainWorkflowInv'
<1>1. /\ x # y /\ ~PlainWorkflows!Busy(y) /\ current' = [current EXCEPT ![y] = current[x]]
      /\ UNCHANGED <<phase, states, registry, traces>>
  BY DEF PlainWorkflows!Fork
<1>2. /\ home' \in [PlainGraphRuns -> SUBSET Contexts]
      /\ \A r \in PlainGraphRuns : phase[r] = "open" =>
            /\ y \notin home[r] /\ (x \in home[r] => home'[r] = home[r] \cup {y})
            /\ (x \notin home[r] => home'[r] = home[r])
  <2>1. home' = [r \in PlainGraphRuns |-> IF phase[r] = "open" /\ x \in home[r] THEN home[r] \cup {y} ELSE home[r] \ {y}]
    BY DEF PlainWorkflows!Fork
  <2>2. home' \in [PlainGraphRuns -> SUBSET Contexts]
    BY <2>1 DEF PlainWorkflowInv
  <2>3. ASSUME NEW r \in PlainGraphRuns, phase[r] = "open"
        PROVE  /\ y \notin home[r] /\ (x \in home[r] => home'[r] = home[r] \cup {y})
               /\ (x \notin home[r] => home'[r] = home[r])
    BY <1>1, <2>1, <2>3 DEF PlainWorkflows!Busy
  <2> QED
    BY <2>2, <2>3
<1>3. current' \in [Contexts -> DOMAIN states \cup {NoState}] /\ current'[y] = current[x]
      /\ \A z \in Contexts : z # y => current'[z] = current[z]
  BY <1>1 DEF PlainWorkflowInv
<1>4. ASSUME NEW r \in PlainGraphRuns, NEW z \in PlainGraphRuns, phase[r] = "open", phase[z] = "open", r # z
      PROVE  home'[r] \cap home'[z] = {}
  BY <1>2, <1>4 DEF PlainWorkflowInv
<1>5. ASSUME NEW r \in PlainGraphRuns, phase[r] = "open" PROVE \E s \in DOMAIN states : HoldsTrace(r, s)'
  <2>1. PICK s \in DOMAIN states : HoldsTrace(r, s)
    BY <1>5 DEF PlainWorkflowInv
  <2>2. \A z \in home'[r] : current'[z] = s
    BY <1>2, <1>3, <1>5, <2>1 DEF HoldsTrace, PlainWorkflowInv
  <2> QED
    BY <1>1, <2>1, <2>2 DEF HoldsTrace
<1>6. ASSUME NEW z \in Contexts, ~PlainWorkflows!Busy(z)', current'[z] # NoState
      PROVE  states[current'[z]].trace = 0 /\ states[current'[z]].query
  <2>1. CASE z = y
    <3>1. ~PlainWorkflows!Busy(x)
      BY <1>1, <1>2, <1>6, <2>1 DEF PlainWorkflows!Busy
    <3> QED
      BY <1>3, <1>6, <2>1, <3>1 DEF PlainWorkflowInv
  <2>2. CASE z # y
    <3>1. ~PlainWorkflows!Busy(z)
      BY <1>1, <1>2, <1>6, <2>2 DEF PlainWorkflows!Busy
    <3> QED
      BY <1>3, <1>6, <2>2, <3>1 DEF PlainWorkflowInv
  <2> QED
    BY <2>1, <2>2
<1>7. GraphTypes(PlainGraphRuns)' /\ registry' = [r \in PlainGraphRuns |-> NoState]
  BY <1>1 DEF PlainWorkflowInv, GraphTypes
<1>8. /\ \A s \in DOMAIN states' : ~states'[s].query => states'[s].trace = 0
      /\ 1 \in DOMAIN states'
      /\ states'[1].query => \E r \in Implicit \cap PlainGraphRuns : phase'[r] # "waiting"
  BY <1>1 DEF PlainWorkflowInv
<1>9. \A t \in DOMAIN traces' : GraphTrace(PlainGraphRuns, t)'
  BY <1>1 DEF PlainWorkflowInv, GraphTrace
<1> QED
  BY <1>1, <1>2, <1>3, <1>4, <1>5, <1>6, <1>7, <1>8, <1>9 DEF PlainWorkflowInv

LEMMA PlainSame ==
    ASSUME PlainWorkflowInv, UNCHANGED <<phase, home, registry, current, states, traces>>
    PROVE  PlainWorkflowInv'
<1>1. \A r, s : HoldsTrace(r, s)' <=> HoldsTrace(r, s)
  BY DEF HoldsTrace
<1>2. \A x : PlainWorkflows!Busy(x)' <=> PlainWorkflows!Busy(x)
  BY DEF PlainWorkflows!Busy
<1>3. \A t : GraphTrace(PlainGraphRuns, t)' <=> GraphTrace(PlainGraphRuns, t)
  BY DEF GraphTrace
<1>4. GraphTypes(PlainGraphRuns)'
  BY DEF PlainWorkflowInv, GraphTypes
<1> QED
  BY <1>1, <1>2, <1>3, <1>4 DEF PlainWorkflowInv

LEMMA PlainWorkflowsStep == PlainWorkflowInv /\ [PlainWorkflows!Next]_(PlainWorkflows!vars) => PlainWorkflowInv'
<1> SUFFICES ASSUME PlainWorkflowInv, [PlainWorkflows!Next]_(PlainWorkflows!vars) PROVE PlainWorkflowInv'
  OBVIOUS
<1>1. ASSUME NEW r \in PlainGraphRuns, NEW x \in Contexts,
             PlainWorkflows!StartTrace(r, x) \/ PlainWorkflows!FirstNode(r, x)
      PROVE  PlainWorkflowInv'
  <2>1. \E s : PlainBegins(r, x, s)
    BY <1>1, PlainStart, PlainFirst
  <2> QED
    BY <2>1, PlainBeginsStep
<1>2. ASSUME NEW r \in PlainGraphRuns, NEW x \in Contexts, PlainWorkflows!Event(r, x) PROVE PlainWorkflowInv'
  BY <1>2, PlainEvent, PlainSame
<1>3. ASSUME NEW r \in PlainGraphRuns, NEW x \in Contexts, PlainWorkflows!EndTrace(r, x) PROVE PlainWorkflowInv'
  BY <1>3, PlainEndStep
<1>4. ASSUME NEW x \in Contexts, NEW y \in Contexts, PlainWorkflows!Fork(x, y) PROVE PlainWorkflowInv'
  BY <1>4, PlainForkStep
<1>5. CASE UNCHANGED PlainWorkflows!vars
  BY <1>5, PlainSame DEF PlainWorkflows!vars
<1> QED
  BY <1>1, <1>2, <1>3, <1>4, <1>5 DEF PlainWorkflows!Next

LEMMA PlainWorkflowsKeep ==
    PlainWorkflowInv => /\ PlainWorkflows!OneRunPerTrace /\ PlainWorkflows!OneTraceWhileOpen
                        /\ PlainWorkflows!OneAnswer
<1> SUFFICES ASSUME PlainWorkflowInv
             PROVE  /\ PlainWorkflows!OneRunPerTrace /\ PlainWorkflows!OneTraceWhileOpen
                    /\ PlainWorkflows!OneAnswer
  OBVIOUS
<1>1. ASSUME NEW t \in DOMAIN traces
      PROVE  /\ PlainWorkflows!Cardinality(traces[t].by) = 1 /\ Len(traces[t].answers) <= 1
             /\ \A i \in DOMAIN traces[t].answers : traces[t].answers[i] \in traces[t].by
  <2>1. PICK r \in PlainGraphRuns : traces[t].by = {r} /\ (traces[t].answers = <<>> \/ traces[t].answers = <<r>>)
    BY <1>1 DEF PlainWorkflowInv, GraphTrace
  <2>2. PlainWorkflows!Cardinality(traces[t].by) = 1
    BY <2>1, SingleSet
  <2>3. CASE traces[t].answers = <<>>
    BY <2>2, <2>3
  <2>4. CASE traces[t].answers = <<r>>
    BY <2>1, <2>2, <2>4
  <2> QED
    BY <2>1, <2>3, <2>4
<1>2. ASSUME NEW r \in PlainGraphRuns, phase[r] = "open" PROVE PlainWorkflows!Cardinality(PlainWorkflows!TracesOf(r)) = 1
  <2>1. PICK s \in DOMAIN states : HoldsTrace(r, s)
    BY <1>2 DEF PlainWorkflowInv
  <2>2. PlainWorkflows!TracesOf(r) = {states[s].trace}
    BY <2>1 DEF PlainWorkflows!TracesOf, HoldsTrace, PlainWorkflowInv, GraphTrace
  <2> QED
    BY <2>2, SingleSet
<1> HIDE DEF PlainWorkflowInv
<1> QED
  BY <1>1, <1>2 DEF PlainWorkflows!OneTraceWhileOpen, PlainWorkflows!OneRunPerTrace, PlainWorkflows!OneAnswer

-----------------------------------------------------------------------------
(* A run, its state and its trace: what the handlers of LangChain and      *)
(* LlamaIndex do to the pair of all states and traces.                     *)

Logs(S, runs, answer) == [states : Seq(S), traces : TraceLog(runs, answer)]

\* A type of state with the two fields both handlers assign to.
StateType(S) ==
    /\ \A p \in S : p.trace \in Nat /\ p.answered \in BOOLEAN
    /\ \A p \in S, n \in Nat : LET w == [p EXCEPT !.trace = n] IN w \in S /\ w.trace = n /\ w.answered = p.answered
    /\ \A p \in S : LET w == [p EXCEPT !.answered = TRUE] IN w \in S /\ w.trace = p.trace /\ w.answered

\* The state is of one run: it names the only trace of that run, if there is one,
\* and is marked when that trace has its answer.
Keeps(pair, s, q) ==
    /\ s \in DOMAIN pair.states
    /\ \/ /\ pair.states[s].trace = 0 /\ ~pair.states[s].answered
          /\ \A u \in DOMAIN pair.traces : pair.traces[u].by # {q}
       \/ /\ pair.states[s].trace \in DOMAIN pair.traces
          /\ \A u \in DOMAIN pair.traces : pair.traces[u].by = {q} <=> u = pair.states[s].trace
          /\ pair.traces[pair.states[s].trace].answers # <<>> <=> pair.states[s].answered

\* What a callback may change: the state s and the trace of its run q, which may be
\* new, and which may get one of the answers in B if it has none.
Moves(pair, new, s, q, B) ==
    /\ DOMAIN new.states = DOMAIN pair.states
    /\ \A i \in DOMAIN pair.states \ {s} : new.states[i] = pair.states[i]
    /\ \A u \in DOMAIN pair.traces :
          /\ u \in DOMAIN new.traces /\ new.traces[u].by = pair.traces[u].by
          /\ pair.traces[u].by # {q} \/ pair.traces[u].answers # <<>> => new.traces[u] = pair.traces[u]
    /\ \A u \in DOMAIN new.traces : u \notin DOMAIN pair.traces =>
          /\ new.traces[u].by = {q} /\ pair.states[s].trace = 0 /\ new.states[s].trace = u
    /\ \A u \in DOMAIN new.traces :
          \/ u \in DOMAIN pair.traces /\ new.traces[u].answers = pair.traces[u].answers
          \/ new.traces[u].answers = <<>>
          \/ \E p \in B : new.traces[u].answers = <<p>>

LEMMA LogParts ==
    ASSUME NEW S, NEW R, NEW A, NEW pair \in Logs(S, R, A)
    PROVE  /\ pair.states \in Seq(S) /\ pair.traces \in TraceLog(R, A)
           /\ Len(pair.states) \in Nat /\ DOMAIN pair.states = 1..Len(pair.states)
           /\ Len(pair.traces) \in Nat /\ DOMAIN pair.traces = 1..Len(pair.traces)
           /\ \A i \in DOMAIN pair.states : pair.states[i] \in S
           /\ \A u \in DOMAIN pair.traces : pair.traces[u].by \in SUBSET R /\ pair.traces[u].answers \in Seq(A)
           /\ pair = [states |-> pair.states, traces |-> pair.traces]
<1>1. pair.states \in Seq(S) /\ pair.traces \in TraceLog(R, A) /\ pair = [states |-> pair.states, traces |-> pair.traces]
  BY DEF Logs
<1>2. /\ Len(pair.states) \in Nat /\ DOMAIN pair.states = 1..Len(pair.states)
      /\ \A i \in DOMAIN pair.states : pair.states[i] \in S
  BY <1>1
<1>3. Len(pair.traces) \in Nat /\ DOMAIN pair.traces = 1..Len(pair.traces)
  BY <1>1, Element
<1>4. ASSUME NEW u \in DOMAIN pair.traces PROVE pair.traces[u].by \in SUBSET R /\ pair.traces[u].answers \in Seq(A)
  BY <1>1, <1>4, Element
<1> QED
  BY <1>1, <1>2, <1>3, <1>4

LEMMA PairIsLog ==
    ASSUME NEW S, NEW R, NEW A, NEW q \in Seq(S), NEW T \in TraceLog(R, A)
    PROVE  /\ [states |-> q, traces |-> T] \in Logs(S, R, A)
           /\ [states |-> q, traces |-> T].states = q /\ [states |-> q, traces |-> T].traces = T
BY DEF Logs

\* Nothing changes; one change follows another.
LEMMA NoMove == ASSUME NEW pair, NEW s, NEW q, NEW B PROVE Moves(pair, pair, s, q, B)
BY DEF Moves

LEMMA MoveOn ==
    ASSUME NEW l0, NEW l1, NEW l2, NEW s, NEW q, NEW B,
           Moves(l0, l1, s, q, B), Moves(l1, l2, s, q, B), Keeps(l0, s, q), Keeps(l1, s, q),
           l0.states[s].trace # 0 => l1.states[s].trace = l0.states[s].trace,
           l1.states[s].trace # 0 => l2.states[s].trace = l1.states[s].trace, 0 \notin DOMAIN l1.traces
    PROVE  Moves(l0, l2, s, q, B)
<1>1. DOMAIN l2.states = DOMAIN l0.states /\ \A i \in DOMAIN l0.states \ {s} : l2.states[i] = l0.states[i]
  BY DEF Moves
<1>2. ASSUME NEW u \in DOMAIN l0.traces
      PROVE  /\ u \in DOMAIN l2.traces /\ l2.traces[u].by = l0.traces[u].by
             /\ l0.traces[u].by # {q} \/ l0.traces[u].answers # <<>> => l2.traces[u] = l0.traces[u]
  BY DEF Moves
<1>3. ASSUME NEW u \in DOMAIN l2.traces, u \notin DOMAIN l0.traces
      PROVE  l2.traces[u].by = {q} /\ l0.states[s].trace = 0 /\ l2.states[s].trace = u
  BY <1>3 DEF Moves, Keeps
<1>4. ASSUME NEW u \in DOMAIN l2.traces
      PROVE  \/ u \in DOMAIN l0.traces /\ l2.traces[u].answers = l0.traces[u].answers
             \/ l2.traces[u].answers = <<>>
             \/ \E p \in B : l2.traces[u].answers = <<p>>
  BY <1>4 DEF Moves
<1> QED
  BY <1>1, <1>2, <1>3, <1>4 DEF Moves

Ensured(pair, s, q) ==
    IF pair.states[s].trace # 0 THEN pair
    ELSE [states |-> [pair.states EXCEPT ![s].trace = Len(pair.traces) + 1],
          traces |-> Append(pair.traces, [by |-> {q}, answers |-> <<>>])]

Answered(pair, s, p) ==
    [pair EXCEPT !.traces[pair.states[s].trace].answers = Append(@, p), !.states[s].answered = TRUE]

Wrote(pair, s, q) == [pair EXCEPT !.traces[pair.states[s].trace].by = @ \cup {q}]

\* What a run writes to its own trace changes nothing about whose it is.
LEMMA OwnerWritten ==
    ASSUME NEW S, NEW R, NEW A, NEW pair \in Logs(S, R, A), NEW s, NEW q \in R,
           Keeps(pair, s, q), pair.states[s].trace # 0
    PROVE  Wrote(pair, s, q) = pair
<1> DEFINE t == pair.states[s].trace
           w == [pair.traces EXCEPT ![t].by = @ \cup {q}]
<1>1. t \in DOMAIN pair.traces /\ pair.traces[t].by = {q} /\ pair.traces \in TraceLog(R, A)
  BY LogParts DEF Keeps
<1>2. w = pair.traces
  BY <1>1, OwnerWrites
<1>3. Wrote(pair, s, q) = [pair EXCEPT !.traces = w]
  BY DEF Wrote
<1> HIDE DEF w
<1>4. pair = [states |-> pair.states, traces |-> pair.traces]
  BY LogParts
<1> QED
  BY <1>2, <1>3, <1>4

\* A run has its trace.
LEMMA EnsuredKeeps ==
    ASSUME NEW S, StateType(S), NEW R, NEW A, NEW pair \in Logs(S, R, A), NEW s, NEW q \in R,
           Keeps(pair, s, q), NEW B, NEW new, new = Ensured(pair, s, q)
    PROVE  /\ new \in Logs(S, R, A) /\ Keeps(new, s, q) /\ Moves(pair, new, s, q, B)
           /\ new.states[s].trace # 0 /\ new.states[s].answered = pair.states[s].answered
           /\ pair.states[s].trace # 0 => new = pair
<1>1. CASE pair.states[s].trace # 0
  <2>1. new = pair
    BY <1>1 DEF Ensured
  <2> QED
    BY <1>1, <2>1, NoMove
<1>2. CASE pair.states[s].trace = 0
  <2> DEFINE t == Len(pair.traces) + 1
             rec == [by |-> {q}, answers |-> <<>>]
             w == [pair.states[s] EXCEPT !.trace = t]
             grown == Append(pair.traces, rec)
             named == [pair.states EXCEPT ![s] = w]
  <2>1. new = [states |-> named, traces |-> grown]
    BY <1>2 DEF Ensured
  <2>2. /\ pair.states \in Seq(S) /\ s \in DOMAIN pair.states /\ pair.states[s] \in S /\ t \in Nat /\ t # 0
        /\ pair.traces \in TraceLog(R, A)
    BY LogParts DEF Keeps
  <2>3. w \in S /\ w.trace = t /\ w.answered = pair.states[s].answered
    BY <2>2 DEF StateType
  <2>4. rec \in TraceRecords(R, A) /\ rec.by = {q} /\ rec.answers = <<>>
    BY DEF TraceRecords
  <2> HIDE DEF w, rec
  <2>5. /\ named \in Seq(S) /\ DOMAIN named = DOMAIN pair.states /\ named[s] = w
        /\ \A i \in DOMAIN pair.states \ {s} : named[i] = pair.states[i]
    BY <2>2, <2>3, Replaced
  <2>0. grown = Append(pair.traces, rec)
    OBVIOUS
  <2> HIDE DEF grown
  <2>6. grown \in TraceLog(R, A) /\ DOMAIN grown = DOMAIN pair.traces \cup {t}
    <3>1. grown \in TraceLog(R, A)
      BY <2>0, <2>2, <2>4, TraceAdded
    <3>2. DOMAIN grown = DOMAIN pair.traces \cup {t}
      BY <2>0, <2>2, <2>4, TraceAdded
    <3> QED
      BY <3>1, <3>2
  <2>7. t \notin DOMAIN pair.traces
    BY <2>0, <2>2, <2>4, TraceAdded
  <2>8. grown[t] = rec
    BY <2>0, <2>2, <2>4, TraceAdded
  <2>9. \A u \in DOMAIN pair.traces : grown[u] = pair.traces[u]
    BY <2>0, <2>2, <2>4, TraceAdded
  <2> HIDE DEF named, t
  <2>10. new \in Logs(S, R, A) /\ new.states = named /\ new.traces = grown
    BY <2>1, <2>5, <2>6, PairIsLog
  <2>11. ~pair.states[s].answered /\ \A u \in DOMAIN pair.traces : pair.traces[u].by # {q}
    BY <1>2, LogParts DEF Keeps
  <2>12. Keeps(new, s, q)
    BY <2>2, <2>3, <2>4, <2>5, <2>6, <2>8, <2>9, <2>10, <2>11 DEF Keeps
  <2>13. Moves(pair, new, s, q, B)
    BY <1>2, <2>3, <2>4, <2>5, <2>6, <2>8, <2>9, <2>10 DEF Moves
  <2> QED
    BY <1>2, <2>2, <2>3, <2>5, <2>10, <2>12, <2>13
<1>3. pair.states[s].trace \in Nat
  BY LogParts DEF Keeps, StateType
<1> QED
  BY <1>1, <1>2, <1>3

\* A run that has a trace but no answer gets one.
LEMMA AnsweredKeeps ==
    ASSUME NEW S, StateType(S), NEW R, NEW A, NEW pair \in Logs(S, R, A), NEW s, NEW q \in R,
           Keeps(pair, s, q), pair.states[s].trace # 0, ~pair.states[s].answered,
           NEW p \in A, NEW B, p \in B, NEW new, new = Answered(pair, s, p)
    PROVE  /\ new \in Logs(S, R, A) /\ Keeps(new, s, q) /\ Moves(pair, new, s, q, B)
           /\ new.states[s].trace = pair.states[s].trace /\ new.states[s].answered
<1> DEFINE t == pair.states[s].trace
           w == [pair.states[s] EXCEPT !.answered = TRUE]
           given == [pair.traces EXCEPT ![t].answers = Append(@, p)]
           marked == [pair.states EXCEPT ![s] = w]
<1>1. /\ pair.states \in Seq(S) /\ s \in DOMAIN pair.states /\ pair.states[s] \in S
      /\ pair.traces \in TraceLog(R, A) /\ t \in DOMAIN pair.traces
      /\ pair.traces[t].by = {q} /\ pair.traces[t].answers = <<>>
  BY LogParts DEF Keeps
<1>2. w \in S /\ w.trace = t /\ w.answered
  BY <1>1 DEF StateType
<1>3. new = [states |-> marked, traces |-> given]
  <2>1. pair = [states |-> pair.states, traces |-> pair.traces]
    BY LogParts
  <2>2. new = [[pair EXCEPT !.traces = given] EXCEPT !.states = marked]
    BY <2>1 DEF Answered
  <2> HIDE DEF marked, given
  <2> QED
    BY <2>1, <2>2
<1>4. /\ given[t].by = {q} /\ given[t].answers = <<p>>
  <2>1. pair.traces[t] \in [by : SUBSET R, answers : Seq(A)]
    BY <1>1, Element
  <2>2. given[t] = [pair.traces[t] EXCEPT !.answers = Append(@, p)]
    BY <1>1
  <2> HIDE DEF given
  <2>3. given[t].by = pair.traces[t].by
    BY <2>1, <2>2
  <2>4. given[t].answers = Append(pair.traces[t].answers, p)
    BY <2>1, <2>2
  <2>5. Append(<<>>, p) = <<p>>
    OBVIOUS
  <2> QED
    BY <1>1, <2>3, <2>4, <2>5
<1>5. given \in TraceLog(R, A) /\ DOMAIN given = DOMAIN pair.traces
  BY <1>1, AnswerAdded
<1>6. \A u \in DOMAIN pair.traces \ {t} : given[u] = pair.traces[u]
  BY <1>1
<1> HIDE DEF w
<1>7. /\ marked \in Seq(S) /\ DOMAIN marked = DOMAIN pair.states /\ marked[s] = w
      /\ \A i \in DOMAIN pair.states \ {s} : marked[i] = pair.states[i]
  BY <1>1, <1>2, Replaced
<1> HIDE DEF marked, given
<1>8. new \in Logs(S, R, A) /\ new.states = marked /\ new.traces = given
  BY <1>3, <1>5, <1>7, PairIsLog
<1>9. Keeps(new, s, q)
  <2>1. \A u \in DOMAIN pair.traces : pair.traces[u].by = {q} <=> u = t
    BY <1>1 DEF Keeps
  <2>2. \A u \in DOMAIN given : given[u].by = {q} <=> u = t
    BY <1>1, <1>4, <1>5, <1>6, <2>1
  <2>3. given[t].answers # <<>>
    BY <1>4
  <2> QED
    BY <1>1, <1>2, <1>5, <1>7, <1>8, <2>2, <2>3 DEF Keeps
<1>10. Moves(pair, new, s, q, B)
  BY <1>1, <1>2, <1>4, <1>5, <1>6, <1>7, <1>8 DEF Moves
<1> QED
  BY <1>2, <1>7, <1>8, <1>9, <1>10

\* What another run keeps stays as it is.
LEMMA OthersKeep ==
    ASSUME NEW pair, NEW new, NEW s, NEW q, NEW B, Moves(pair, new, s, q, B),
           NEW i, NEW y, i # s, y # q, Keeps(pair, i, y)
    PROVE  Keeps(new, i, y)
<1>1. i \in DOMAIN new.states /\ new.states[i] = pair.states[i]
  BY DEF Moves, Keeps
<1>2. CASE pair.states[i].trace = 0 /\ ~pair.states[i].answered /\ \A u \in DOMAIN pair.traces : pair.traces[u].by # {y}
  <2>1. \A u \in DOMAIN new.traces : new.traces[u].by # {y}
    BY <1>2 DEF Moves
  <2> QED
    BY <1>1, <1>2, <2>1 DEF Keeps
<1>3. CASE /\ pair.states[i].trace \in DOMAIN pair.traces
           /\ \A u \in DOMAIN pair.traces : pair.traces[u].by = {y} <=> u = pair.states[i].trace
           /\ pair.traces[pair.states[i].trace].answers # <<>> <=> pair.states[i].answered
  <2> DEFINE t == pair.states[i].trace
  <2>1. t \in DOMAIN new.traces /\ new.traces[t] = pair.traces[t]
    <3>1. t \in DOMAIN pair.traces /\ pair.traces[t].by = {y} /\ {y} # {q}
      BY <1>3
    <3> HIDE DEF t
    <3> QED
      BY <3>1 DEF Moves
  <2>2. \A u \in DOMAIN new.traces : new.traces[u].by = {y} <=> u = t
    BY <1>3 DEF Moves
  <2> QED
    BY <1>1, <1>3, <2>1, <2>2 DEF Keeps
<1> QED
  BY <1>2, <1>3 DEF Keeps

\* Every trace is of one run that has begun and has one answer at most; no run has two.
Apart(T, begun) ==
    /\ \A t \in DOMAIN T : Len(T[t].answers) <= 1 /\ \E q \in begun : T[t].by = {q}
    /\ \A t, u \in DOMAIN T : T[t].by = T[u].by => t = u

LEMMA StayApart ==
    ASSUME NEW pair, NEW new, NEW s, NEW q, NEW B, Moves(pair, new, s, q, B), Keeps(pair, s, q), Keeps(new, s, q),
           NEW begun, q \in begun, Apart(pair.traces, begun)
    PROVE  Apart(new.traces, begun)
<1>1. ASSUME NEW t \in DOMAIN new.traces
      PROVE  Len(new.traces[t].answers) <= 1 /\ \E y \in begun : new.traces[t].by = {y}
  <2>1. \E y \in begun : new.traces[t].by = {y}
    BY <1>1 DEF Moves, Apart
  <2>2. CASE t \in DOMAIN pair.traces /\ new.traces[t].answers = pair.traces[t].answers
    BY <2>1, <2>2 DEF Apart
  <2>3. CASE new.traces[t].answers = <<>>
    BY <2>1, <2>3
  <2>4. CASE \E p \in B : new.traces[t].answers = <<p>>
    BY <2>1, <2>4
  <2> QED
    BY <2>2, <2>3, <2>4 DEF Moves
<1>2. ASSUME NEW t \in DOMAIN new.traces, NEW u \in DOMAIN new.traces, new.traces[t].by = new.traces[u].by
      PROVE  t = u
  <2>1. CASE new.traces[t].by = {q}
    BY <1>2, <2>1 DEF Keeps
  <2>2. CASE new.traces[t].by # {q}
    BY <1>2, <2>2 DEF Moves, Apart
  <2> QED
    BY <2>1, <2>2
<1> QED
  BY <1>1, <1>2 DEF Apart

-----------------------------------------------------------------------------
(* Chains: LangChain with run ids.                                         *)

RunState == [trace : Nat, answered : BOOLEAN]
LEMMA RunStateType == StateType(RunState)
<1>1. \A p \in RunState : p.trace \in Nat /\ p.answered \in BOOLEAN
  BY DEF RunState
<1>2. ASSUME NEW p \in RunState, NEW n \in Nat
      PROVE  LET w == [p EXCEPT !.trace = n] IN w \in RunState /\ w.trace = n /\ w.answered = p.answered
  BY DEF RunState
<1>3. ASSUME NEW p \in RunState
      PROVE  LET w == [p EXCEPT !.answered = TRUE] IN w \in RunState /\ w.trace = p.trace /\ w.answered
  BY DEF RunState
<1> QED
  BY <1>1, <1>2, <1>3 DEF StateType

Now == [states |-> states, traces |-> traces]

RunEnds == {"answered", "silent", "failed"}
ChainAnswers == ChainRuns \X {"answer", "failure"}
ChainRoots == {r \in ChainRuns : ChainParent[r] = NoRun}
ChainsBegun == {q \in ChainRoots : phase[q] # "waiting"}

\* The root failed or answered for itself.
ChainDone(q) ==
    \/ phase[q] = "failed"
    \/ \E t \in DOMAIN traces :
          q \in traces[t].by /\ \E i \in DOMAIN traces[t].answers : traces[t].answers[i] = <<q, "answer">>

\* All entries of a root and what is nested in it are of one state, which keeps the
\* root's trace, until the root is done.
ChainInv ==
    /\ phase \in [ChainRuns -> {"waiting", "open"} \cup RunEnds]
    /\ Now \in Logs(RunState, ChainRuns, ChainAnswers)
    /\ registry \in [ChainRuns -> Nat \cup {NoState}]
    /\ \A r \in ChainRuns : phase[r] = "open" => phase[Chains!Root(r)] = "open"
    /\ \A q \in ChainRoots : phase[q] = "waiting" => registry[q] = NoState
    /\ \A q \in ChainRoots : phase[q] = "open" => registry[q] # NoState
    /\ \A r \in ChainRuns : registry[r] # NoState => registry[Chains!Root(r)] = registry[r]
    /\ \A q, y \in ChainRoots : registry[q] # NoState /\ registry[q] = registry[y] => q = y
    /\ \A q \in ChainRoots : registry[q] # NoState => Keeps(Now, registry[q], q)
    /\ Apart(traces, ChainsBegun)
    /\ \A q \in ChainRoots : phase[q] = "answered" =>
          \E t \in DOMAIN traces : traces[t].by = {q} /\ traces[t].answers # <<>>
    /\ \A q \in ChainRoots : ChainDone(q) =>
          phase[q] # "open" /\ \A r \in ChainRuns : Chains!Root(r) = q => registry[r] = NoState

\* A nested run is nested in a root.
LEMMA ChainRoot ==
    ASSUME NEW r \in ChainRuns
    PROVE  /\ Chains!Root(r) \in ChainRoots /\ NoRun \notin ChainRuns
           /\ r \in ChainRoots => Chains!Root(r) = r
           /\ r \notin ChainRoots => Chains!Root(r) = ChainParent[r] /\ Chains!Root(r) # r
BY ChainsAssumption DEF Nested, Chains!Root, ChainRoots

\* What a callback of a run does: it keeps to the state of its root.
ChainEffect(r, q, to, new, B, released) ==
    /\ q = Chains!Root(r) /\ phase[q] = "open"
    /\ to \in {"open"} \cup RunEnds /\ phase' = [phase EXCEPT ![r] = to]
    /\ r = q => to # "open" /\ \A x \in ChainRuns : ChainParent[x] = r => phase[x] # "open"
    /\ new \in Logs(RunState, ChainRuns, ChainAnswers) /\ Moves(Now, new, registry[q], q, B)
    /\ Keeps(new, registry[q], q) /\ states' = new.states /\ traces' = new.traces
    /\ registry' \in [ChainRuns -> Nat \cup {NoState}]
    /\ IF released THEN r = q ELSE registry'[q] = registry[q]
    /\ \A x \in ChainRuns : Chains!Root(x) # q => registry'[x] = registry[x]
    /\ \A x \in ChainRuns : Chains!Root(x) = q =>
          registry'[x] = NoState \/ (~released /\ registry'[x] = registry[q])
    /\ (r = q /\ to = "failed") \/ <<q, "answer">> \in B => released
    /\ r = q /\ to = "answered" => new.states[registry[q]].answered

LEMMA ChainCallback ==
    ASSUME ChainInv, NEW r \in ChainRuns, NEW q, NEW to, NEW new, NEW B, NEW released \in BOOLEAN,
           ChainEffect(r, q, to, new, B, released)
    PROVE  ChainInv'
<1> USE DEF ChainEffect
<1> DEFINE s == registry[q]
<1>1. q \in ChainRoots /\ Chains!Root(q) = q /\ s # NoState /\ Keeps(Now, s, q) /\ phase[q] # "waiting"
  <2>1. q \in ChainRoots /\ q \in ChainRuns
    BY ChainRoot DEF ChainRoots
  <2>2. Chains!Root(q) = q
    BY <2>1, ChainRoot
  <2>3. s # NoState
    BY <2>1 DEF ChainInv
  <2> QED
    BY <2>1, <2>2, <2>3 DEF ChainInv
<1>2. Now' = new
  <2>1. new = [states |-> new.states, traces |-> new.traces]
    BY LogParts
  <2> QED
    BY <2>1 DEF Now
<1>3. phase' \in [ChainRuns -> {"waiting", "open"} \cup RunEnds]
  BY DEF ChainInv
<1>4. \A y \in ChainRoots : y # q => phase'[y] = phase[y] /\ registry'[y] = registry[y]
  BY ChainRoot DEF ChainInv, ChainRoots
<1>5. ASSUME NEW x \in ChainRuns, phase'[x] = "open" PROVE phase'[Chains!Root(x)] = "open"
  <2>1. CASE Chains!Root(x) = q
    <3>1. r # q
      <4>1. SUFFICES ASSUME r = q PROVE FALSE
        OBVIOUS
      <4>2. x # r /\ phase[x] = "open"
        BY <1>5, <4>1 DEF ChainInv
      <4>3. ChainParent[x] = r
        BY <2>1, <4>1, <4>2, ChainRoot
      <4> QED
        BY <4>1, <4>2, <4>3
    <3>2. phase'[q] = phase[q]
      BY <1>1, <3>1 DEF ChainInv, ChainRoots
    <3> QED
      BY <2>1, <3>2
  <2>2. CASE Chains!Root(x) # q
    <3>1. x # r /\ phase[x] = "open"
      BY <1>5, <2>2 DEF ChainInv
    <3> QED
      BY <1>4, <2>2, <3>1, ChainRoot DEF ChainInv
  <2> QED
    BY <2>1, <2>2
<1>6. ASSUME NEW y \in ChainRoots, phase'[y] = "waiting" PROVE registry'[y] = NoState
  <2>1. y # q
    BY <1>1, <1>6 DEF ChainInv, RunEnds, ChainRoots
  <2> QED
    BY <1>4, <1>6, <2>1 DEF ChainInv
<1>7. ASSUME NEW y \in ChainRoots, phase'[y] = "open" PROVE registry'[y] # NoState
  <2>1. CASE y = q
    <3>1. r # q
      BY <1>7, <2>1 DEF ChainInv, ChainRoots
    <3> QED
      BY <1>1, <2>1, <3>1
  <2>2. CASE y # q
    BY <1>4, <1>7, <2>2 DEF ChainInv
  <2> QED
    BY <2>1, <2>2
<1>8. ASSUME NEW x \in ChainRuns, registry'[x] # NoState PROVE registry'[Chains!Root(x)] = registry'[x]
  <2>1. CASE Chains!Root(x) = q
    BY <1>8, <2>1
  <2>2. CASE Chains!Root(x) # q
    <3>1. Chains!Root(x) \in ChainRoots /\ registry'[x] = registry[x]
      BY <2>2, ChainRoot
    <3> QED
      BY <1>4, <1>8, <2>2, <3>1 DEF ChainInv
  <2> QED
    BY <2>1, <2>2
<1>9. registry'[q] \in {NoState, s}
  BY <1>1 DEF ChainRoots
<1>10. ASSUME NEW y \in ChainRoots, NEW z \in ChainRoots, registry'[y] # NoState, registry'[y] = registry'[z]
       PROVE  y = z
  <2>1. registry[y] = registry'[y] /\ registry[z] = registry'[z]
    BY <1>4, <1>9, <1>10
  <2> QED
    BY <1>10, <2>1 DEF ChainInv
<1>11. ASSUME NEW y \in ChainRoots, registry'[y] # NoState PROVE Keeps(Now, registry[y], y)'
  <2>1. registry'[y] = registry[y]
    BY <1>4, <1>9, <1>11
  <2>2. CASE y = q
    BY <1>2, <2>1, <2>2
  <2>3. CASE y # q
    <3>1. registry[y] # s /\ Keeps(Now, registry[y], y)
      BY <1>1, <1>11, <2>1, <2>3 DEF ChainInv
    <3>2. Keeps(new, registry[y], y)
      BY <2>3, <3>1, OthersKeep
    <3> QED
      BY <1>2, <2>1, <3>2
  <2> QED
    BY <2>2, <2>3
<1>12. Apart(traces, ChainsBegun)'
  <2>1. ChainsBegun' = ChainsBegun
    BY <1>1, <1>4 DEF ChainsBegun, ChainInv, RunEnds, ChainRoots
  <2>2. q \in ChainsBegun /\ Apart(Now.traces, ChainsBegun)
    BY <1>1 DEF ChainInv, ChainsBegun, Now
  <2>3. Apart(new.traces, ChainsBegun)
    BY <1>1, <2>2, StayApart
  <2> QED
    BY <2>1, <2>3
<1>13. ASSUME NEW y \in ChainRoots, phase'[y] = "answered"
       PROVE  \E t \in DOMAIN traces' : traces'[t].by = {y} /\ traces'[t].answers # <<>>
  <2>1. CASE y = q
    <3>1. r = q /\ to = "answered"
      BY <1>1, <1>13, <2>1 DEF ChainInv, ChainRoots
    <3> QED
      BY <2>1, <3>1 DEF Keeps
  <2>2. CASE y # q
    <3>0. phase[y] = "answered"
      BY <1>4, <1>13, <2>2
    <3>1. PICK t \in DOMAIN traces : traces[t].by = {y} /\ traces[t].answers # <<>>
      BY ONLY <3>0, ChainInv, y \in ChainRoots DEF ChainInv
    <3>2. t \in DOMAIN traces' /\ traces'[t] = traces[t]
      BY <3>1 DEF Moves, Now
    <3> QED
      BY <3>1, <3>2
  <2> QED
    BY <2>1, <2>2
<1>14. ASSUME NEW y \in ChainRoots, ChainDone(y)'
       PROVE  phase'[y] # "open" /\ \A x \in ChainRuns : Chains!Root(x) = y => registry'[x] = NoState
  <2>1. CASE y = q
    <3>1. ~ChainDone(q) /\ phase[q] = "open"
      BY <1>1 DEF ChainInv
    <3>2. released
      <4>1. CASE phase'[q] = "failed"
        BY <1>1, <4>1 DEF ChainInv, ChainRoots
      <4>2. CASE \E t \in DOMAIN traces' :
                    q \in traces'[t].by /\ \E i \in DOMAIN traces'[t].answers : traces'[t].answers[i] = <<q, "answer">>
        <5>1. PICK t \in DOMAIN traces' :
                 q \in traces'[t].by /\ \E i \in DOMAIN traces'[t].answers : traces'[t].answers[i] = <<q, "answer">>
          BY <4>2
        <5>2. ~(t \in DOMAIN traces /\ traces'[t].answers = traces[t].answers)
          <6>1. SUFFICES ASSUME t \in DOMAIN traces, traces'[t].answers = traces[t].answers PROVE FALSE
            OBVIOUS
          <6>2. traces'[t].by = traces[t].by
            BY <6>1 DEF Moves, Now
          <6> QED
            BY <3>1, <5>1, <6>1, <6>2 DEF ChainDone
        <5>3. traces'[t].answers # <<>>
          BY <5>1
        <5>4. PICK p \in B : traces'[t].answers = <<p>>
          BY <5>2, <5>3 DEF Moves, Now
        <5>5. p = <<q, "answer">>
          BY <5>1, <5>4
        <5> QED
          BY <5>5
      <4> QED
        BY <2>1, <1>14, <4>1, <4>2 DEF ChainDone
    <3>3. phase'[q] # "open"
      BY <1>1, <3>2 DEF ChainInv, ChainRoots
    <3> QED
      BY <2>1, <3>2, <3>3
  <2>2. CASE y # q
    <3>1. ChainDone(y)
      <4>1. CASE phase'[y] = "failed"
        BY <1>4, <2>2, <4>1 DEF ChainDone
      <4>2. CASE \E t \in DOMAIN traces' :
                    y \in traces'[t].by /\ \E i \in DOMAIN traces'[t].answers : traces'[t].answers[i] = <<y, "answer">>
        <5>1. PICK t \in DOMAIN traces' :
                 y \in traces'[t].by /\ \E i \in DOMAIN traces'[t].answers : traces'[t].answers[i] = <<y, "answer">>
          BY <4>2
        <5>2. t \in DOMAIN traces /\ traces'[t] = traces[t]
          BY <2>2, <5>1 DEF Moves, Now
        <5> QED
          BY <5>1, <5>2 DEF ChainDone
      <4> QED
        BY <1>14, <4>1, <4>2 DEF ChainDone
    <3>2. phase[y] # "open" /\ \A x \in ChainRuns : Chains!Root(x) = y => registry[x] = NoState
      BY <3>1 DEF ChainInv
    <3> QED
      BY <1>4, <2>2, <3>2
  <2> QED
    BY <2>1, <2>2
<1> QED
  BY <1>2, <1>3, <1>5, <1>6, <1>7, <1>8, <1>10, <1>11, <1>12, <1>13, <1>14 DEF ChainInv, Chains!Root

\* A new state is nobody's, and what is kept stays kept.
LEMMA StateAdded ==
    ASSUME NEW S, NEW R, NEW A, NEW pair \in Logs(S, R, A), NEW p \in S, NEW new,
           new = [states |-> Append(pair.states, p), traces |-> pair.traces]
    PROVE  /\ new \in Logs(S, R, A) /\ new.traces = pair.traces
           /\ Len(pair.states) + 1 \notin DOMAIN pair.states
           /\ DOMAIN new.states = DOMAIN pair.states \cup {Len(pair.states) + 1}
           /\ new.states[Len(pair.states) + 1] = p
           /\ \A i \in DOMAIN pair.states : new.states[i] = pair.states[i]
           /\ \A i, y : Keeps(pair, i, y) => Keeps(new, i, y)
<1> DEFINE grown == Append(pair.states, p)
<1>1. pair.states \in Seq(S) /\ pair.traces \in TraceLog(R, A)
  BY LogParts
<1>2. /\ grown \in Seq(S) /\ DOMAIN grown = DOMAIN pair.states \cup {Len(pair.states) + 1}
      /\ Len(pair.states) + 1 \notin DOMAIN pair.states
      /\ grown[Len(pair.states) + 1] = p /\ \A i \in DOMAIN pair.states : grown[i] = pair.states[i]
  BY <1>1, Appended
<1> HIDE DEF grown
<1>3. new \in Logs(S, R, A) /\ new.states = grown /\ new.traces = pair.traces
  BY <1>1, <1>2, PairIsLog DEF grown
<1>4. ASSUME NEW i, NEW y, Keeps(pair, i, y) PROVE Keeps(new, i, y)
  <2>1. i \in DOMAIN pair.states
    BY <1>4 DEF Keeps
  <2>2. i \in DOMAIN new.states /\ new.states[i] = pair.states[i] /\ new.traces = pair.traces
    BY <1>2, <1>3, <2>1
  <2> QED
    BY <1>4, <2>2 DEF Keeps
<1> QED
  BY <1>2, <1>3, <1>4

\* A root begins with a state of its own.
LEMMA ChainBegins ==
    ASSUME ChainInv, NEW q \in ChainRoots, phase[q] = "waiting", phase' = [phase EXCEPT ![q] = "open"],
           NEW s, s = Len(states) + 1, NEW grown, grown = [states |-> Append(states, Chains!FreshState), traces |-> traces],
           NEW new, new \in Logs(RunState, ChainRuns, ChainAnswers), Moves(grown, new, s, q, {}), Keeps(new, s, q),
           Keeps(grown, s, q), states' = new.states, traces' = new.traces, registry' = [registry EXCEPT ![q] = s]
    PROVE  ChainInv'
<1>0. Now \in Logs(RunState, ChainRuns, ChainAnswers) /\ Now.states = states /\ Now.traces = traces
  BY DEF ChainInv, Now
<1>1. Chains!FreshState \in RunState
  BY DEF Chains!FreshState, RunState
<1>2. /\ s \notin DOMAIN states /\ grown.traces = traces
      /\ \A i, y : Keeps(Now, i, y) => Keeps(grown, i, y)
  <2>1. grown = [states |-> Append(Now.states, Chains!FreshState), traces |-> Now.traces] /\ s = Len(Now.states) + 1
    BY <1>0
  <2> QED
    BY ONLY <1>0, <1>1, <2>1, StateAdded
<1>3. s \in Nat
  BY <1>0, LogParts
<1>4. Now' = new
  <2>1. new = [states |-> new.states, traces |-> new.traces]
    BY LogParts
  <2> QED
    BY <2>1 DEF Now
<1>5. q \in ChainRuns /\ Chains!Root(q) = q
  BY ChainRoot DEF ChainRoots
<1>6. /\ phase' \in [ChainRuns -> {"waiting", "open"} \cup RunEnds] /\ registry' \in [ChainRuns -> Nat \cup {NoState}]
      /\ phase'[q] = "open" /\ registry'[q] = s /\ s # NoState
      /\ \A y \in ChainRuns : y # q => phase'[y] = phase[y] /\ registry'[y] = registry[y]
  BY <1>3, <1>5, StateAssumption DEF ChainInv
<1>7. ASSUME NEW x \in ChainRuns, phase'[x] = "open" PROVE phase'[Chains!Root(x)] = "open"
  BY <1>5, <1>6, <1>7, ChainRoot DEF ChainInv, ChainRoots
<1>8. ASSUME NEW y \in ChainRoots PROVE /\ phase'[y] = "waiting" => registry'[y] = NoState
                                        /\ phase'[y] = "open" => registry'[y] # NoState
  BY <1>6, <1>8 DEF ChainInv, ChainRoots
<1>9. ASSUME NEW x \in ChainRuns, x # q PROVE Chains!Root(x) = q => registry[x] = NoState
  BY <1>9 DEF ChainInv
<1>10. ASSUME NEW x \in ChainRuns, registry'[x] # NoState PROVE registry'[Chains!Root(x)] = registry'[x]
  <2>1. CASE x = q
    BY <1>5, <2>1
  <2>2. CASE x # q
    <3>1. registry'[x] = registry[x] /\ Chains!Root(x) # q /\ Chains!Root(x) \in ChainRuns
      BY <1>6, <1>9, <1>10, <2>2, ChainRoot DEF ChainRoots
    <3> QED
      BY <1>6, <1>10, <3>1 DEF ChainInv
  <2> QED
    BY <2>1, <2>2
<1>11. ASSUME NEW y \in ChainRoots, y # q, registry'[y] # NoState
       PROVE  registry'[y] = registry[y] /\ registry[y] # s /\ Keeps(Now, registry[y], y)
  <2>1. registry'[y] = registry[y]
    BY <1>6, <1>11 DEF ChainRoots
  <2>2. Keeps(Now, registry[y], y)
    BY <1>11, <2>1 DEF ChainInv
  <2>3. registry[y] \in DOMAIN states
    BY <1>0, <2>2 DEF Keeps
  <2> QED
    BY <1>2, <2>1, <2>2, <2>3
<1>12. ASSUME NEW y \in ChainRoots, NEW z \in ChainRoots, registry'[y] # NoState, registry'[y] = registry'[z]
       PROVE  y = z
  BY <1>6, <1>11, <1>12 DEF ChainInv
<1>13. ASSUME NEW y \in ChainRoots, registry'[y] # NoState PROVE Keeps(Now, registry[y], y)'
  <2>1. CASE y = q
    BY <1>4, <1>6, <2>1
  <2>2. CASE y # q
    <3>1. registry'[y] = registry[y] /\ registry[y] # s /\ Keeps(grown, registry[y], y)
      BY <1>2, <1>11, <1>13, <2>2
    <3>2. Keeps(new, registry[y], y)
      BY <2>2, <3>1, OthersKeep
    <3> QED
      BY <1>4, <3>1, <3>2
  <2> QED
    BY <2>1, <2>2
<1>14. Apart(traces, ChainsBegun)'
  <2>1. ChainsBegun' = ChainsBegun \cup {q}
    BY <1>6 DEF ChainsBegun, ChainRoots
  <2>2. Apart(grown.traces, ChainsBegun')
    BY <1>2, <2>1 DEF ChainInv, Apart
  <2>3. Apart(new.traces, ChainsBegun')
    BY <2>1, <2>2, StayApart
  <2> QED
    BY <2>3
<1>15. ASSUME NEW t \in DOMAIN traces PROVE t \in DOMAIN traces' /\ traces'[t] = traces[t] /\ q \notin traces[t].by
  <2>1. traces[t].by # {q} /\ q \notin traces[t].by
    BY <1>15 DEF ChainInv, Apart, ChainsBegun
  <2> QED
    BY <1>2, <2>1 DEF Moves
<1>16. ASSUME NEW y \in ChainRoots, phase'[y] = "answered"
       PROVE  \E t \in DOMAIN traces' : traces'[t].by = {y} /\ traces'[t].answers # <<>>
  <2>1. PICK t \in DOMAIN traces : traces[t].by = {y} /\ traces[t].answers # <<>>
    BY <1>6, <1>16 DEF ChainInv, ChainRoots
  <2> QED
    BY <1>15, <2>1
<1>17. ASSUME NEW y \in ChainRoots, ChainDone(y)'
       PROVE  phase'[y] # "open" /\ \A x \in ChainRuns : Chains!Root(x) = y => registry'[x] = NoState
  <2>1. ASSUME NEW t \in DOMAIN traces', t \notin DOMAIN traces PROVE traces'[t].answers = <<>>
    BY <1>2, <2>1 DEF Moves
  <2>2. y # q /\ ChainDone(y)
    <3>1. CASE phase'[y] = "failed"
      BY <1>6, <3>1 DEF ChainDone, ChainRoots
    <3>2. CASE \E t \in DOMAIN traces' :
                  y \in traces'[t].by /\ \E i \in DOMAIN traces'[t].answers : traces'[t].answers[i] = <<y, "answer">>
      <4>1. PICK t \in DOMAIN traces' :
               y \in traces'[t].by /\ \E i \in DOMAIN traces'[t].answers : traces'[t].answers[i] = <<y, "answer">>
        BY <3>2
      <4>2. t \in DOMAIN traces
        BY <2>1, <4>1
      <4>3. traces'[t] = traces[t] /\ q \notin traces[t].by
        BY <1>15, <4>2
      <4> QED
        BY <4>1, <4>2, <4>3 DEF ChainDone
    <3> QED
      BY <1>17, <3>1, <3>2 DEF ChainDone
  <2>3. phase[y] # "open" /\ \A x \in ChainRuns : Chains!Root(x) = y => registry[x] = NoState
    BY <2>2 DEF ChainInv
  <2> QED
    BY <1>5, <1>6, <2>2, <2>3 DEF ChainRoots
<1> QED
  BY <1>4, <1>6, <1>7, <1>8, <1>10, <1>12, <1>13, <1>14, <1>16, <1>17 DEF ChainInv, Chains!Root

\* What the handler finds, and what it does with it, in a callback of an open run.
LEMMA ChainWorks ==
    ASSUME ChainInv, NEW r \in ChainRuns, NEW q, q = Chains!Root(r), phase[q] = "open", NEW s, s = registry[q]
    PROVE  /\ q \in ChainRoots /\ s \in DOMAIN states /\ Keeps(Now, s, q) /\ Now \in Logs(RunState, ChainRuns, ChainAnswers)
           /\ Chains!Log(s) = Now
           /\ \A x, b : Chains!StateFor(r, x, b) = s
           /\ \A pair \in Logs(RunState, ChainRuns, ChainAnswers) : Keeps(pair, s, q) =>
                 /\ Chains!Write(pair, s, r) = pair
                 /\ Chains!EnsureTrace(pair, s, r) = Ensured(pair, s, q)
                 /\ pair.states[s].trace # 0 => \A w : Chains!LogAnswer(pair, s, r, w) = Answered(pair, s, <<r, w>>)
<1>1. q \in ChainRoots /\ Chains!Root(q) = q
  <2>1. q \in ChainRoots /\ q \in ChainRuns
    BY ChainRoot DEF ChainRoots
  <2> QED
    BY <2>1, ChainRoot
<1>2. s # NoState /\ Keeps(Now, s, q) /\ Now \in Logs(RunState, ChainRuns, ChainAnswers)
  BY <1>1 DEF ChainInv
<1>3. s \in DOMAIN states /\ s \in 1..Len(states) /\ Len(states) \in Nat
  <2>1. s \in DOMAIN Now.states /\ Now.states = states
    BY <1>2 DEF Keeps, Now
  <2>2. DOMAIN Now.states = 1..Len(Now.states) /\ Len(Now.states) \in Nat
    BY <1>2, LogParts
  <2> QED
    BY <2>1, <2>2
<1>4. Chains!Log(s) = Now
  BY <1>3 DEF Chains!Log, Now
<1>5. ASSUME NEW x, NEW b PROVE Chains!StateFor(r, x, b) = s
  <2>1. Chains!Registered(r) = s
    <3>1. CASE ChainParent[r] = NoRun
      BY <3>1 DEF Chains!Registered, Chains!Root
    <3>2. CASE ChainParent[r] # NoRun
      BY <1>2, <3>2 DEF Chains!Registered, Chains!Root
    <3> QED
      BY <3>1, <3>2
  <2> QED
    BY <1>2, <2>1 DEF Chains!StateFor
<1>6. ASSUME NEW pair \in Logs(RunState, ChainRuns, ChainAnswers), Keeps(pair, s, q)
      PROVE  /\ Chains!Write(pair, s, r) = pair
             /\ Chains!EnsureTrace(pair, s, r) = Ensured(pair, s, q)
             /\ pair.states[s].trace # 0 => \A w : Chains!LogAnswer(pair, s, r, w) = Answered(pair, s, <<r, w>>)
  <2>1. Chains!Write(pair, s, r) = pair
    <3>1. CASE pair.states[s].trace = 0
      BY <3>1 DEF Chains!Write, Chains!HasTrace, Chains!TraceOf
    <3>2. CASE pair.states[s].trace # 0
      <4>1. Wrote(pair, s, q) = pair
        <5>1. q \in ChainRuns
          BY <1>1 DEF ChainRoots
        <5> QED
          BY <1>6, <3>2, <5>1, OwnerWritten
      <4> QED
        BY <3>2, <4>1 DEF Chains!Write, Chains!HasTrace, Chains!TraceOf, Wrote
    <3> QED
      BY <3>1, <3>2
  <2>2. Chains!EnsureTrace(pair, s, r) = Ensured(pair, s, q)
    BY DEF Chains!EnsureTrace, Chains!HasTrace, Chains!TraceOf, Ensured
  <2>3. ASSUME NEW w PROVE Chains!LogAnswer(pair, s, r, w) = Answered(pair, s, <<r, w>>)
    BY <2>1 DEF Chains!LogAnswer, Chains!TraceOf, Answered
  <2> QED
    BY <2>1, <2>2, <2>3
<1> QED
  BY <1>1, <1>2, <1>3, <1>4, <1>5, <1>6

\* The entries after a callback, kept or released.
LEMMA ChainEntries ==
    ASSUME ChainInv, NEW r \in ChainRuns, NEW q, q = Chains!Root(r), phase[q] = "open", NEW s, s = registry[q],
           NEW x, NEW entries, entries = Chains!Activate(r, x, s)
    PROVE  /\ entries \in [ChainRuns -> Nat \cup {NoState}] /\ entries[q] = s
           /\ \A y \in ChainRuns : Chains!Root(y) # q => entries[y] = registry[y]
           /\ \A y \in ChainRuns : Chains!Root(y) = q => entries[y] = NoState \/ entries[y] = s
           /\ Chains!Release(entries, s) \in [ChainRuns -> Nat \cup {NoState}]
           /\ \A y \in ChainRuns : Chains!Root(y) # q => Chains!Release(entries, s)[y] = registry[y]
           /\ \A y \in ChainRuns : Chains!Root(y) = q => Chains!Release(entries, s)[y] = NoState
<1>1. q \in ChainRoots /\ q \in ChainRuns /\ Chains!Root(q) = q /\ s # NoState /\ s \in Nat
  <2>1. q \in ChainRoots /\ q \in ChainRuns
    BY ChainRoot DEF ChainRoots
  <2> QED
    BY <2>1, ChainRoot DEF ChainInv
<1>2. entries = [y \in ChainRuns |-> IF y \in {r, ChainParent[r]} THEN s ELSE registry[y]]
  BY DEF Chains!Activate
<1>3. entries \in [ChainRuns -> Nat \cup {NoState}]
  BY <1>1, <1>2 DEF ChainInv
<1>4. entries[q] = s
  BY <1>1, <1>2
<1>5. ASSUME NEW y \in ChainRuns, Chains!Root(y) # q PROVE entries[y] = registry[y] /\ registry[y] # s
  <2>1. y # r /\ y # ChainParent[r]
    BY <1>1, <1>5, ChainRoot DEF ChainRoots
  <2>2. registry[y] # s
    BY <1>1, <1>5, ChainRoot DEF ChainInv
  <2> QED
    BY <1>2, <2>1, <2>2
<1>6. ASSUME NEW y \in ChainRuns, Chains!Root(y) = q PROVE entries[y] = NoState \/ entries[y] = s
  BY <1>2, <1>6 DEF ChainInv
<1> HIDE DEF ChainInv
<1> QED
  BY <1>1, <1>3, <1>4, <1>5, <1>6 DEF Chains!Release

\* A callback of an open run, or the start of a nested one, that makes the log new.
ChainCall(r, q, s, to, x, new, B) ==
    /\ q = Chains!Root(r) /\ phase[q] = "open" /\ s = registry[q]
    /\ to \in {"open"} \cup RunEnds /\ Chains!Goes(r, to)
    /\ r = q => to # "open" /\ \A y \in ChainRuns : ChainParent[y] = r => phase[y] # "open"
    /\ new \in Logs(RunState, ChainRuns, ChainAnswers) /\ Moves(Now, new, s, q, B) /\ Keeps(new, s, q)
    /\ \/ /\ Chains!Becomes(new, Chains!Activate(r, x, s), x, s)
          /\ <<q, "answer">> \notin B /\ ~(r = q /\ to = "failed")
       \/ Chains!Becomes(new, Chains!Release(Chains!Activate(r, x, s), s), x, s) /\ r = q
    /\ r = q /\ to = "answered" => new.states[s].answered

LEMMA ChainGoesOn ==
    ASSUME ChainInv, NEW r \in ChainRuns, NEW q, NEW s, NEW to, NEW x, NEW new, NEW B,
           ChainCall(r, q, s, to, x, new, B)
    PROVE  ChainInv'
<1> USE DEF ChainCall
<1>0. q = Chains!Root(r) /\ phase[q] = "open" /\ s = registry[q]
  OBVIOUS
<1>1. states' = new.states /\ traces' = new.traces /\ phase' = [phase EXCEPT ![r] = to]
  BY DEF Chains!Becomes, Chains!Goes
<1> DEFINE entries == Chains!Activate(r, x, s)
<1>2. /\ entries \in [ChainRuns -> Nat \cup {NoState}] /\ entries[q] = s
      /\ \A y \in ChainRuns : Chains!Root(y) # q => entries[y] = registry[y]
      /\ \A y \in ChainRuns : Chains!Root(y) = q => entries[y] = NoState \/ entries[y] = s
      /\ Chains!Release(entries, s) \in [ChainRuns -> Nat \cup {NoState}]
      /\ \A y \in ChainRuns : Chains!Root(y) # q => Chains!Release(entries, s)[y] = registry[y]
      /\ \A y \in ChainRuns : Chains!Root(y) = q => Chains!Release(entries, s)[y] = NoState
  <2> HIDE DEF ChainCall
  <2> QED
    BY <1>0, ChainEntries
<1> HIDE DEF entries
<1>3. CASE registry' = entries /\ <<q, "answer">> \notin B /\ ~(r = q /\ to = "failed")
  <2>1. /\ registry' \in [ChainRuns -> Nat \cup {NoState}] /\ registry'[q] = registry[q]
        /\ \A y \in ChainRuns : Chains!Root(y) # q => registry'[y] = registry[y]
        /\ \A y \in ChainRuns : Chains!Root(y) = q => registry'[y] = NoState \/ registry'[y] = registry[q]
    BY <1>2, <1>3
  <2>2. ChainEffect(r, q, to, new, B, FALSE)
    BY <1>1, <1>3, <2>1 DEF ChainEffect
  <2> QED
    BY <2>2, ChainCallback
<1>4. CASE registry' = Chains!Release(entries, s) /\ r = q
  <2>1. /\ registry' \in [ChainRuns -> Nat \cup {NoState}]
        /\ \A y \in ChainRuns : Chains!Root(y) # q => registry'[y] = registry[y]
        /\ \A y \in ChainRuns : Chains!Root(y) = q => registry'[y] = NoState
    BY <1>2, <1>4
  <2>2. ChainEffect(r, q, to, new, B, TRUE)
    BY <1>1, <1>4, <2>1 DEF ChainEffect
  <2> QED
    BY <2>2, ChainCallback
<1> QED
  BY <1>3, <1>4 DEF Chains!Becomes, entries

LEMMA ChainStartStep ==
    ASSUME ChainInv, NEW r \in ChainRuns, NEW x, Chains!ChainStart(r, x)
    PROVE  ChainInv'
<1>1. phase[r] = "waiting" /\ (ChainParent[r] # NoRun => phase[ChainParent[r]] = "open") /\ Chains!Goes(r, "open")
  BY DEF Chains!ChainStart, Chains!MayStart, Chains!Open
<1>2. CASE r \in ChainRoots
  <2> DEFINE s == Len(states) + 1
             grown == [states |-> Append(states, Chains!FreshState), traces |-> traces]
  <2>1. registry[r] = NoState /\ ChainParent[r] = NoRun /\ Chains!Root(r) = r
    BY <1>1, <1>2, ChainRoot DEF ChainInv, ChainRoots
  <2>2. Chains!StateFor(r, x, TRUE) = s
    BY <2>1 DEF Chains!StateFor, Chains!Registered, Chains!Allocated
  <2>3. Now \in Logs(RunState, ChainRuns, ChainAnswers) /\ Now.states = states /\ Now.traces = traces
    BY DEF ChainInv, Now
  <2>4. Chains!FreshState \in RunState /\ Chains!FreshState.trace = 0 /\ ~Chains!FreshState.answered
    BY DEF Chains!FreshState, RunState
  <2>5. /\ grown \in Logs(RunState, ChainRuns, ChainAnswers) /\ grown.traces = traces
        /\ s \in DOMAIN grown.states /\ grown.states[s] = Chains!FreshState
    BY <2>3, <2>4, StateAdded
  <2>6. Chains!Log(s) = grown
    <3>1. Len(states) \in Nat
      BY <2>3, LogParts
    <3>2. s > Len(states)
      BY <3>1
    <3> HIDE DEF s
    <3> QED
      BY <3>2 DEF Chains!Log
  <2> HIDE DEF grown
  <2>7. Keeps(grown, s, r)
    <3>1. \A u \in DOMAIN traces : traces[u].by # {r}
      BY <1>1 DEF ChainInv, Apart, ChainsBegun
    <3> QED
      BY <2>4, <2>5, <3>1 DEF Keeps
  <2>8. \E new : /\ new \in Logs(RunState, ChainRuns, ChainAnswers) /\ Moves(grown, new, s, r, {}) /\ Keeps(new, s, r)
                 /\ Chains!Becomes(new, Chains!Activate(r, x, s), x, s)
    <3>1. /\ Ensured(grown, s, r) \in Logs(RunState, ChainRuns, ChainAnswers)
          /\ Moves(grown, Ensured(grown, s, r), s, r, {}) /\ Keeps(Ensured(grown, s, r), s, r)
      BY <2>5, <2>7, RunStateType, EnsuredKeeps
    <3>2. Chains!EnsureTrace(grown, s, r) = Ensured(grown, s, r)
      BY <2>1 DEF Chains!EnsureTrace, Chains!HasTrace, Chains!TraceOf, Ensured
    <3>3. Moves(grown, grown, s, r, {})
      BY NoMove
    <3>4. \/ Chains!Becomes(Chains!EnsureTrace(grown, s, r), Chains!Activate(r, x, s), x, s)
          \/ Chains!Becomes(grown, Chains!Activate(r, x, s), x, s)
      BY <2>1, <2>2, <2>6 DEF Chains!ChainStart
    <3> QED
      BY <2>5, <2>7, <3>1, <3>2, <3>3, <3>4
  <2>9. PICK new : /\ new \in Logs(RunState, ChainRuns, ChainAnswers) /\ Moves(grown, new, s, r, {}) /\ Keeps(new, s, r)
                   /\ Chains!Becomes(new, Chains!Activate(r, x, s), x, s)
    BY <2>8
  <2>10. Chains!Activate(r, x, s) = [registry EXCEPT ![r] = s]
    BY <2>1, ChainRoot DEF Chains!Activate, ChainInv
  <2>11. phase' = [phase EXCEPT ![r] = "open"] /\ states' = new.states /\ traces' = new.traces
         /\ registry' = [registry EXCEPT ![r] = s]
    BY <1>1, <2>9, <2>10 DEF Chains!Goes, Chains!Becomes
  <2> HIDE DEF s
  <2> QED
    BY <1>1, <1>2, <2>7, <2>9, <2>11, ChainBegins DEF s, grown
<1>3. CASE r \notin ChainRoots
  <2> DEFINE q == Chains!Root(r)
             s == registry[q]
  <2>1. q = ChainParent[r] /\ r # q /\ phase[q] = "open" /\ q \in ChainRuns
    BY <1>1, <1>3, ChainRoot DEF ChainRoots
  <2>2. /\ Keeps(Now, s, q) /\ Now \in Logs(RunState, ChainRuns, ChainAnswers) /\ Chains!Log(s) = Now
        /\ Chains!StateFor(r, x, FALSE) = s /\ Chains!EnsureTrace(Now, s, r) = Ensured(Now, s, q)
    <3>1. /\ Keeps(Now, s, q) /\ Now \in Logs(RunState, ChainRuns, ChainAnswers) /\ Chains!Log(s) = Now
          /\ Chains!StateFor(r, x, FALSE) = s
      BY <2>1, ChainWorks
    <3>2. Chains!EnsureTrace(Now, s, r) = Ensured(Now, s, q)
      BY <2>1, <3>1, ChainWorks
    <3> QED
      BY <3>1, <3>2
  <2> HIDE DEF q, s
  <2>3. /\ Ensured(Now, s, q) \in Logs(RunState, ChainRuns, ChainAnswers)
        /\ Moves(Now, Ensured(Now, s, q), s, q, {}) /\ Keeps(Ensured(Now, s, q), s, q)
    BY <2>1, <2>2, RunStateType, EnsuredKeeps
  <2>4. Moves(Now, Now, s, q, {})
    BY NoMove
  <2>5. \/ Chains!Becomes(Ensured(Now, s, q), Chains!Activate(r, x, s), x, s)
        \/ Chains!Becomes(Now, Chains!Activate(r, x, s), x, s)
    <3>1. ChainParent[r] # NoRun
      BY <1>3 DEF ChainRoots
    <3> QED
      BY <2>2, <3>1 DEF Chains!ChainStart
  <2>6. CASE Chains!Becomes(Ensured(Now, s, q), Chains!Activate(r, x, s), x, s)
    <3>1. ChainCall(r, q, s, "open", x, Ensured(Now, s, q), {})
      BY <1>1, <2>1, <2>3, <2>6 DEF ChainCall, q, s
    <3> QED
      BY <3>1, ChainGoesOn
  <2>7. CASE Chains!Becomes(Now, Chains!Activate(r, x, s), x, s)
    <3>1. ChainCall(r, q, s, "open", x, Now, {})
      BY <1>1, <2>1, <2>2, <2>4, <2>7 DEF ChainCall, q, s
    <3> QED
      BY <3>1, ChainGoesOn
  <2> QED
    BY <2>5, <2>6, <2>7
<1> QED
  BY <1>2, <1>3

\* What is not a chain is nested in one.
LEMMA NestedCall ==
    ASSUME NEW r \in ChainRuns, ChainKind[r] # "chain"
    PROVE  r \notin ChainRoots /\ ChainParent[r] # NoRun /\ Chains!Root(r) = ChainParent[r] /\ r # Chains!Root(r)
<1>1. r \notin ChainRoots /\ ChainParent[r] # NoRun
  BY ChainsAssumption DEF Nested, ChainRoots
<1> QED
  BY <1>1, ChainRoot

\* Retrievers and tools: nothing is answered.
LEMMA ChainNestedStep ==
    ASSUME ChainInv, NEW r \in ChainRuns, NEW x,
           \/ Chains!RetrieverStart(r, x) \/ Chains!RetrieverEnd(r, x) \/ Chains!ToolStart(r, x) \/ Chains!ToolEnd(r, x)
    PROVE  ChainInv'
<1> DEFINE q == Chains!Root(r)
           s == registry[q]
           ensured == Ensured(Now, s, q)
<1>1. q = ChainParent[r] /\ r # q /\ ChainParent[r] # NoRun
  <2>1. ChainKind[r] # "chain"
    BY DEF Chains!RetrieverStart, Chains!RetrieverEnd, Chains!ToolStart, Chains!ToolEnd
  <2> QED
    BY <2>1, NestedCall
<1>2. phase[q] = "open"
  <2>1. CASE Chains!RetrieverStart(r, x) \/ Chains!ToolStart(r, x)
    BY <1>1, <2>1 DEF Chains!RetrieverStart, Chains!ToolStart, Chains!MayStart, Chains!Open
  <2>2. CASE Chains!RetrieverEnd(r, x) \/ Chains!ToolEnd(r, x)
    <3>1. phase[r] = "open"
      BY <2>2 DEF Chains!RetrieverEnd, Chains!ToolEnd, Chains!MayEnd, Chains!Open
    <3> QED
      BY <3>1 DEF ChainInv
  <2> QED
    BY <2>1, <2>2
<1>3. /\ Keeps(Now, s, q) /\ Now \in Logs(RunState, ChainRuns, ChainAnswers) /\ Chains!Log(s) = Now
      /\ Chains!StateFor(r, x, FALSE) = s /\ q \in ChainRuns
  BY <1>2, ChainWorks DEF ChainRoots
<1>4. Chains!EnsureTrace(Now, s, r) = ensured /\ Chains!Write(Now, s, r) = Now
  BY <1>2, <1>3, ChainWorks
<1>5. /\ ensured \in Logs(RunState, ChainRuns, ChainAnswers) /\ Keeps(ensured, s, q)
      /\ Moves(Now, ensured, s, q, {})
  BY <1>3, RunStateType, EnsuredKeeps
<1>6. Chains!Write(ensured, s, r) = ensured
  BY <1>2, <1>5, ChainWorks
<1>7. Moves(Now, Now, s, q, {})
  BY NoMove
<1> HIDE DEF q, s, ensured
<1>8. \E to \in {"open"} \cup RunEnds :
         /\ Chains!Goes(r, to)
         /\ \/ Chains!Becomes(ensured, Chains!Activate(r, x, s), x, s)
            \/ Chains!Becomes(Now, Chains!Activate(r, x, s), x, s)
  <2>1. CASE Chains!RetrieverStart(r, x)
    BY <1>3, <1>4, <2>1 DEF Chains!RetrieverStart
  <2>2. CASE Chains!RetrieverEnd(r, x)
    BY <1>3, <1>4, <1>6, <2>2 DEF Chains!RetrieverEnd, RunEnds
  <2>3. CASE Chains!ToolStart(r, x)
    BY <1>3, <1>4, <1>6, <2>3 DEF Chains!ToolStart
  <2>4. CASE Chains!ToolEnd(r, x)
    <3>1. \E to \in {"answered", "failed"} : Chains!Goes(r, to)
      BY <2>4 DEF Chains!ToolEnd
    <3>2. Chains!Becomes(Now, Chains!Activate(r, x, s), x, s)
      BY <1>3, <1>4, <2>4 DEF Chains!ToolEnd
    <3> QED
      BY <3>1, <3>2 DEF RunEnds
  <2> QED
    BY <2>1, <2>2, <2>3, <2>4
<1>9. PICK to \in {"open"} \cup RunEnds :
         /\ Chains!Goes(r, to)
         /\ \/ Chains!Becomes(ensured, Chains!Activate(r, x, s), x, s)
            \/ Chains!Becomes(Now, Chains!Activate(r, x, s), x, s)
  BY <1>8
<1>10. CASE Chains!Becomes(ensured, Chains!Activate(r, x, s), x, s)
  <2>1. ChainCall(r, q, s, to, x, ensured, {})
    BY <1>1, <1>2, <1>5, <1>9, <1>10 DEF ChainCall, q, s
  <2> QED
    BY <2>1, ChainGoesOn
<1>11. CASE Chains!Becomes(Now, Chains!Activate(r, x, s), x, s)
  <2>1. ChainCall(r, q, s, to, x, Now, {})
    BY <1>1, <1>2, <1>3, <1>7, <1>9, <1>11 DEF ChainCall, q, s
  <2> QED
    BY <2>1, ChainGoesOn
<1> QED
  BY <1>9, <1>10, <1>11

LEMMA ChainEndStep ==
    ASSUME ChainInv, NEW r \in ChainRuns, NEW x, Chains!ChainEnd(r, x)
    PROVE  ChainInv'
<1> DEFINE q == Chains!Root(r)
           s == registry[q]
           ensured == Ensured(Now, s, q)
           pair == <<r, "answer">>
           new == Answered(ensured, s, pair)
           entries == Chains!Activate(r, x, s)
<1>1. phase[r] = "open" /\ phase[q] = "open" /\ \A y \in ChainRuns : ChainParent[y] = r => phase[y] # "open"
  BY DEF Chains!ChainEnd, Chains!MayEnd, Chains!Open, ChainInv
<1>2. /\ Keeps(Now, s, q) /\ Now \in Logs(RunState, ChainRuns, ChainAnswers) /\ Chains!Log(s) = Now
      /\ Chains!StateFor(r, x, FALSE) = s /\ q \in ChainRuns
  <2>1. /\ Keeps(Now, s, q) /\ Now \in Logs(RunState, ChainRuns, ChainAnswers) /\ Chains!Log(s) = Now
        /\ Chains!StateFor(r, x, FALSE) = s
    BY <1>1, ChainWorks
  <2>2. q \in ChainRuns
    BY ChainRoot DEF ChainRoots
  <2> QED
    BY <2>1, <2>2
<1>3. Chains!EnsureTrace(Now, s, r) = ensured
  BY <1>1, <1>2, ChainWorks
<1>4. /\ ensured \in Logs(RunState, ChainRuns, ChainAnswers) /\ Keeps(ensured, s, q)
      /\ \A B : Moves(Now, ensured, s, q, B)
      /\ ensured.states[s].trace # 0 /\ (Now.states[s].trace # 0 => ensured = Now)
  BY <1>2, RunStateType, EnsuredKeeps
<1>5. Chains!LogAnswer(ensured, s, r, "answer") = new
  BY <1>1, <1>4, ChainWorks
<1>6. Moves(Now, Now, s, q, {})
  BY NoMove
<1> HIDE DEF ensured
<1>7. ASSUME ~ensured.states[s].answered
      PROVE  /\ new \in Logs(RunState, ChainRuns, ChainAnswers) /\ Keeps(new, s, q) /\ Moves(Now, new, s, q, {pair})
             /\ new.states[s].answered
  <2>1. pair \in ChainAnswers /\ pair \in {pair}
    BY DEF ChainAnswers
  <2> HIDE DEF new, pair
  <2>2. /\ new \in Logs(RunState, ChainRuns, ChainAnswers) /\ Keeps(new, s, q) /\ Moves(ensured, new, s, q, {pair})
        /\ new.states[s].trace = ensured.states[s].trace /\ new.states[s].answered
    BY <1>2, <1>4, <1>7, <2>1, RunStateType, AnsweredKeeps DEF new
  <2>3. 0 \notin DOMAIN ensured.traces
    <3>1. DOMAIN ensured.traces = 1..Len(ensured.traces)
      BY <1>4, LogParts
    <3> QED
      BY <3>1
  <2>4. Moves(Now, new, s, q, {pair})
    BY <1>2, <1>4, <2>2, <2>3, MoveOn
  <2> QED
    BY <2>2, <2>4
<1>8. \/ Chains!Becomes(Now, entries, x, s) /\ Chains!Goes(r, "silent")
      \/ Chains!Becomes(ensured, entries, x, s) /\ Chains!Goes(r, "answered") /\ ensured.states[s].answered
      \/ /\ ~ensured.states[s].answered /\ Chains!Goes(r, "answered")
         /\ Chains!Becomes(new, Chains!ReleaseAtEnd(r, entries, s), x, s)
  BY <1>2, <1>3, <1>5 DEF Chains!ChainEnd
<1> HIDE DEF q, s, entries
<1>9. CASE Chains!Becomes(Now, entries, x, s) /\ Chains!Goes(r, "silent")
  <2>1. ChainCall(r, q, s, "silent", x, Now, {})
    BY <1>1, <1>2, <1>6, <1>9 DEF ChainCall, RunEnds, q, s, entries
  <2> QED
    BY <2>1, ChainGoesOn
<1>10. CASE Chains!Becomes(ensured, entries, x, s) /\ Chains!Goes(r, "answered") /\ ensured.states[s].answered
  <2>1. ChainCall(r, q, s, "answered", x, ensured, {})
    BY <1>1, <1>4, <1>10 DEF ChainCall, RunEnds, q, s, entries
  <2> QED
    BY <2>1, ChainGoesOn
<1>11. CASE /\ ~ensured.states[s].answered /\ Chains!Goes(r, "answered")
            /\ Chains!Becomes(new, Chains!ReleaseAtEnd(r, entries, s), x, s)
  <2> HIDE DEF new
  <2>1. CASE ChainParent[r] = NoRun
    <3>1. r = q /\ Chains!ReleaseAtEnd(r, entries, s) = Chains!Release(entries, s)
      BY <2>1 DEF Chains!Root, Chains!ReleaseAtEnd, q
    <3>2. ChainCall(r, q, s, "answered", x, new, {pair})
      BY <1>1, <1>7, <1>11, <3>1 DEF ChainCall, RunEnds, q, s, entries
    <3> QED
      BY <3>2, ChainGoesOn
  <2>2. CASE ChainParent[r] # NoRun
    <3>1. r # q /\ Chains!ReleaseAtEnd(r, entries, s) = entries
      BY <2>2, ChainRoot DEF ChainRoots, Chains!ReleaseAtEnd, q
    <3>2. <<q, "answer">> \notin {pair}
      BY <3>1
    <3> HIDE DEF pair
    <3>3. ChainCall(r, q, s, "answered", x, new, {pair})
      BY <1>1, <1>7, <1>11, <3>1, <3>2 DEF ChainCall, RunEnds, q, s, entries
    <3> QED
      BY <3>3, ChainGoesOn
  <2> QED
    BY <2>1, <2>2
<1> QED
  BY <1>8, <1>9, <1>10, <1>11

LEMMA ChainErrorStep ==
    ASSUME ChainInv, NEW r \in ChainRuns, NEW x, Chains!ChainError(r, x)
    PROVE  ChainInv'
<1> DEFINE q == Chains!Root(r)
           s == registry[q]
           pair == <<r, "failure">>
           new == Answered(Now, s, pair)
           entries == Chains!Activate(r, x, s)
           left == Chains!ReleaseAtEnd(r, entries, s)
<1>1. phase[r] = "open" /\ phase[q] = "open" /\ \A y \in ChainRuns : ChainParent[y] = r => phase[y] # "open"
  BY DEF Chains!ChainError, Chains!MayEnd, Chains!Open, ChainInv
<1>2. /\ Keeps(Now, s, q) /\ Now \in Logs(RunState, ChainRuns, ChainAnswers) /\ Chains!Log(s) = Now
      /\ Chains!StateFor(r, x, FALSE) = s /\ q \in ChainRuns
  <2>1. /\ Keeps(Now, s, q) /\ Now \in Logs(RunState, ChainRuns, ChainAnswers) /\ Chains!Log(s) = Now
        /\ Chains!StateFor(r, x, FALSE) = s
    BY <1>1, ChainWorks
  <2>2. q \in ChainRuns
    BY ChainRoot DEF ChainRoots
  <2> QED
    BY <2>1, <2>2
<1>3. /\ Chains!Write(Now, s, r) = Now
      /\ Now.states[s].trace # 0 => Chains!LogAnswer(Now, s, r, "failure") = new
  BY <1>1, <1>2, ChainWorks
<1>4. Moves(Now, Now, s, q, {pair})
  BY NoMove
<1>5. ASSUME Now.states[s].trace # 0, ~Now.states[s].answered
      PROVE  new \in Logs(RunState, ChainRuns, ChainAnswers) /\ Keeps(new, s, q) /\ Moves(Now, new, s, q, {pair})
  <2>1. pair \in ChainAnswers /\ pair \in {pair}
    BY DEF ChainAnswers
  <2> HIDE DEF new, pair
  <2> QED
    BY <1>2, <1>5, <2>1, RunStateType, AnsweredKeeps DEF new
<1>6. /\ Chains!Goes(r, "failed")
      /\ \/ Chains!Becomes(Now, left, x, s)
         \/ Now.states[s].trace # 0 /\ ~Now.states[s].answered /\ Chains!Becomes(new, left, x, s)
  BY <1>2, <1>3 DEF Chains!ChainError, Chains!HasTrace, Chains!TraceOf
<1> HIDE DEF q, s, entries, new, left
<1>7. PICK end : /\ end \in Logs(RunState, ChainRuns, ChainAnswers) /\ Keeps(end, s, q) /\ Moves(Now, end, s, q, {pair})
                 /\ Chains!Becomes(end, left, x, s)
  BY <1>2, <1>4, <1>5, <1>6
<1>8. <<q, "answer">> \notin {pair}
  OBVIOUS
<1> HIDE DEF pair
<1>9. CASE ChainParent[r] = NoRun
  <2>1. r = q /\ left = Chains!Release(entries, s)
    BY <1>9 DEF Chains!Root, Chains!ReleaseAtEnd, q, left
  <2>2. ChainCall(r, q, s, "failed", x, end, {pair})
    BY <1>1, <1>6, <1>7, <2>1 DEF ChainCall, RunEnds, q, s, entries
  <2> QED
    BY <2>2, ChainGoesOn
<1>10. CASE ChainParent[r] # NoRun
  <2>1. r # q /\ left = entries
    BY <1>10, ChainRoot DEF ChainRoots, Chains!ReleaseAtEnd, q, left
  <2>2. ChainCall(r, q, s, "failed", x, end, {pair})
    BY <1>1, <1>6, <1>7, <1>8, <2>1 DEF ChainCall, RunEnds, q, s, entries
  <2> QED
    BY <2>2, ChainGoesOn
<1> QED
  BY <1>9, <1>10

LEMMA ChainSame ==
    ASSUME ChainInv, UNCHANGED <<phase, states, registry, traces>>
    PROVE  ChainInv'
<1>1. Now' = Now /\ ChainsBegun' = ChainsBegun
  BY DEF Now, ChainsBegun
<1>2. \A s, q : Keeps(Now, s, q)' <=> Keeps(Now, s, q)
  BY <1>1 DEF Keeps
<1>3. \A q : ChainDone(q)' <=> ChainDone(q)
  BY DEF ChainDone
<1>4. Apart(traces, ChainsBegun)'
  BY <1>1 DEF ChainInv, Apart
<1> QED
  BY <1>1, <1>2, <1>3, <1>4 DEF ChainInv, Chains!Root

LEMMA ChainsInit == Chains!Init => ChainInv
<1> SUFFICES ASSUME Chains!Init PROVE ChainInv
  OBVIOUS
<1>1. Chains!FreshState \in RunState
  BY DEF Chains!FreshState, RunState
<1>2. states \in Seq(RunState)
  BY <1>1 DEF Chains!Init
<1>3. traces \in TraceLog(ChainRuns, ChainAnswers) /\ DOMAIN traces = {}
  BY DEF Chains!Init, TraceLog
<1>4. Now \in Logs(RunState, ChainRuns, ChainAnswers)
  BY <1>2, <1>3, PairIsLog DEF Now
<1>5. \A q \in ChainRuns : phase[q] = "waiting" /\ registry[q] = NoState /\ ~ChainDone(q)
  BY <1>3 DEF Chains!Init, ChainDone
<1> QED
  BY <1>3, <1>4, <1>5 DEF Chains!Init, ChainInv, Apart, ChainRoots, RunEnds

LEMMA ChainsStep == ChainInv /\ [Chains!Next]_(Chains!vars) => ChainInv'
<1> SUFFICES ASSUME ChainInv, [Chains!Next]_(Chains!vars) PROVE ChainInv'
  OBVIOUS
<1>1. ASSUME NEW r \in ChainRuns, NEW x \in Contexts, Chains!ChainStart(r, x) PROVE ChainInv'
  BY <1>1, ChainStartStep
<1>2. ASSUME NEW r \in ChainRuns, NEW x \in Contexts, Chains!ChainEnd(r, x) PROVE ChainInv'
  BY <1>2, ChainEndStep
<1>3. ASSUME NEW r \in ChainRuns, NEW x \in Contexts, Chains!ChainError(r, x) PROVE ChainInv'
  BY <1>3, ChainErrorStep
<1>4. ASSUME NEW r \in ChainRuns, NEW x \in Contexts,
             \/ Chains!RetrieverStart(r, x) \/ Chains!RetrieverEnd(r, x)
             \/ Chains!ToolStart(r, x) \/ Chains!ToolEnd(r, x)
      PROVE  ChainInv'
  BY <1>4, ChainNestedStep
<1>5. ASSUME NEW x \in Contexts, NEW y \in Contexts, Chains!Fork(x, y) PROVE ChainInv'
  BY <1>5, ChainSame DEF Chains!Fork
<1>6. CASE UNCHANGED Chains!vars
  BY <1>6, ChainSame DEF Chains!vars
<1> QED
  BY <1>1, <1>2, <1>3, <1>4, <1>5, <1>6 DEF Chains!Next

\* The handlers count with the operator of the same module.
LEMMA CountOne == \A x : Chains!Cardinality({x}) = 1 /\ PlainChains!Cardinality({x}) = 1 /\ Queries!Cardinality({x}) = 1
<1>1. \A S : /\ Chains!Cardinality(S) = Cardinality(S) /\ PlainChains!Cardinality(S) = Cardinality(S)
             /\ Queries!Cardinality(S) = Cardinality(S)
  BY Zenon DEF Chains!Cardinality, PlainChains!Cardinality, Queries!Cardinality, Cardinality
<1> QED
  BY <1>1, FS_Singleton

\* A run's trace is found by the run.
LEMMA TraceOfOne ==
    ASSUME NEW T, NEW begun, Apart(T, begun), NEW t \in DOMAIN T, NEW u \in DOMAIN T
    PROVE  T[t].by \cap T[u].by # {} => t = u
<1>1. PICK q \in begun : T[t].by = {q}
  BY DEF Apart
<1>2. PICK y \in begun : T[u].by = {y}
  BY DEF Apart
<1> QED
  BY <1>1, <1>2 DEF Apart

LEMMA ChainsKeep ==
    ChainInv => /\ Chains!OneRunPerTrace /\ Chains!OneTracePerRun
                /\ Chains!OneAnswer /\ Chains!AnswerIsKept /\ Chains!EntriesReleased
<1> SUFFICES ASSUME ChainInv
             PROVE  /\ Chains!OneRunPerTrace /\ Chains!OneTracePerRun
                    /\ Chains!OneAnswer /\ Chains!AnswerIsKept /\ Chains!EntriesReleased
  OBVIOUS
<1>1. Chains!OneRunPerTrace
  <2>1. ASSUME NEW t \in DOMAIN traces PROVE Chains!Cardinality(traces[t].by) = 1
    <3>1. PICK q : traces[t].by = {q}
      BY <2>1 DEF ChainInv, Apart
    <3> QED
      BY <3>1, CountOne
  <2> HIDE DEF ChainInv
  <2> QED
    BY <2>1 DEF Chains!OneRunPerTrace
<1>2. Chains!OneTracePerRun
  BY TraceOfOne DEF ChainInv, Chains!OneTracePerRun
<1>3. Chains!OneAnswer
  BY DEF ChainInv, Apart, Chains!OneAnswer
<1>4. ASSUME NEW r \in ChainRuns, NEW t \in DOMAIN traces, r \in traces[t].by, NEW i \in DOMAIN traces[t].answers
      PROVE  traces[t].answers[i] \in Chains!Answers(r)
  BY <1>4 DEF Chains!Answers
<1>5. Chains!AnswerIsKept
  <2>1. SUFFICES ASSUME NEW r \in ChainRuns, ChainParent[r] = NoRun, phase[r] = "answered" PROVE Chains!Answers(r) # {}
    BY DEF Chains!AnswerIsKept
  <2>2. PICK t \in DOMAIN traces : traces[t].by = {r} /\ traces[t].answers # <<>>
    BY <2>1 DEF ChainInv, ChainRoots
  <2>3. 1 \in DOMAIN traces[t].answers
    <3>1. traces[t].answers \in Seq(ChainAnswers)
      <4>1. Now \in Logs(RunState, ChainRuns, ChainAnswers) /\ Now.traces = traces
        BY DEF ChainInv, Now
      <4> QED
        BY <4>1, LogParts
    <3> QED
      BY <2>2, <3>1
  <2> QED
    BY <1>4, <2>2, <2>3
<1>6. Chains!EntriesReleased
  <2>1. SUFFICES ASSUME NEW r \in ChainRuns, NEW q, q = Chains!Root(r),
                        phase[q] = "failed" \/ <<q, "answer">> \in Chains!Answers(q)
                 PROVE  registry[r] = NoState
    BY DEF Chains!EntriesReleased
  <2>2. ChainDone(q)
    BY <2>1 DEF ChainDone, Chains!Answers
  <2> QED
    BY <2>1, <2>2, ChainRoot DEF ChainInv
<1> QED
  BY <1>1, <1>2, <1>3, <1>5, <1>6

-----------------------------------------------------------------------------
(* PlainChains: LangChain without run ids.                                 *)

PlainAnswers == PlainRuns \X {"answer", "failure"}
PlainRoots == {r \in PlainRuns : PlainParent[r] = NoRun}
PlainBegun == {q \in PlainRoots : phase[q] # "waiting"}

\* A context that holds a state without an answer.
Unanswered(x) == current[x] # NoState /\ ~states[current[x]].answered

\* The context of an open root holds a state that is the root's and has no answer;
\* no other context holds it.  A state without an answer that an idle context
\* holds has no trace.
PlainChainInv ==
    /\ phase \in [PlainRuns -> {"waiting", "open"} \cup RunEnds]
    /\ Now \in Logs(RunState, PlainRuns, PlainAnswers)
    /\ registry = [r \in PlainRuns |-> NoState]
    /\ current \in [Contexts -> DOMAIN states \cup {NoState}]
    /\ \A r \in PlainRuns : phase[r] = "open" => phase[PlainChains!Root(r)] = "open"
    /\ \A q, y \in PlainRoots : phase[q] = "open" /\ phase[y] = "open" /\ PlainWhere[q] = PlainWhere[y] => q = y
    /\ \A q \in PlainRoots, x \in Contexts : phase[q] = "open" /\ x \in PlainWhere[q] =>
          Unanswered(x) /\ Keeps(Now, current[x], q)
    /\ \A x, z \in Contexts : Unanswered(x) /\ current[z] = current[x] => x = z
    /\ \A x \in Contexts : Unanswered(x) /\ states[current[x]].trace # 0 =>
          \E q \in PlainRoots : phase[q] = "open" /\ x \in PlainWhere[q]
    /\ Apart(traces, PlainBegun)
    /\ \A q \in PlainRoots : phase[q] = "answered" =>
          \E t \in DOMAIN traces : traces[t].by = {q} /\ traces[t].answers # <<>>

\* Chains are roots; what is nested comes in the context of its root.
LEMMA PlainRoot ==
    ASSUME NEW r \in PlainRuns
    PROVE  /\ PlainChains!Root(r) \in PlainRoots /\ PlainChains!Root(r) \in PlainRuns /\ NoRun \notin PlainRuns
           /\ PlainChains!Root(PlainChains!Root(r)) = PlainChains!Root(r)
           /\ PlainKind[r] = "chain" => r \in PlainRoots
           /\ r \in PlainRoots => PlainChains!Root(r) = r
           /\ r \notin PlainRoots => PlainChains!Root(r) = PlainParent[r] /\ PlainChains!Root(r) # r
           /\ PlainKind[r] # "chain" => r \notin PlainRoots
           /\ PlainWhere[PlainChains!Root(r)] = PlainWhere[r]
           /\ \E x \in Contexts : PlainWhere[r] = {x}
BY PlainChainsAssumption DEF Nested, PlainChains!Root, PlainRoots

\* What a callback of a run does: it keeps to the state its context holds.
PlainEffect(r, q, x, to, new, B) ==
    /\ q = PlainChains!Root(r) /\ phase[q] = "open" /\ x \in PlainWhere[q]
    /\ to \in {"open"} \cup RunEnds /\ phase' = [phase EXCEPT ![r] = to]
    /\ r = q => to # "open" /\ \A y \in PlainRuns : PlainParent[y] = r => phase[y] # "open"
    /\ new \in Logs(RunState, PlainRuns, PlainAnswers) /\ Moves(Now, new, current[x], q, B)
    /\ Keeps(new, current[x], q) /\ states' = new.states /\ traces' = new.traces
    /\ registry' = registry /\ current' = current
    /\ IF r = q THEN new.states[current[x]].answered \/ new.states[current[x]].trace = 0
       ELSE ~new.states[current[x]].answered
    /\ r = q /\ to = "answered" => new.states[current[x]].answered

LEMMA PlainCallback ==
    ASSUME PlainChainInv, NEW r \in PlainRuns, NEW q, NEW x \in Contexts, NEW to, NEW new, NEW B,
           PlainEffect(r, q, x, to, new, B)
    PROVE  PlainChainInv'
<1> DEFINE s == current[x]
<1> USE DEF PlainEffect
<1>1. q \in PlainRoots /\ q \in PlainRuns /\ PlainChains!Root(q) = q /\ PlainWhere[q] = {x} /\ phase[q] # "waiting"
  <2>1. q \in PlainRoots /\ q \in PlainRuns
    BY PlainRoot
  <2>2. PlainChains!Root(q) = q /\ PlainWhere[q] = {x}
    BY <2>1, PlainRoot
  <2> QED
    BY <2>1, <2>2
<1>2. Unanswered(x) /\ Keeps(Now, s, q)
  BY <1>1 DEF PlainChainInv
<1>3. Now' = new
  <2>1. new = [states |-> new.states, traces |-> new.traces]
    BY LogParts
  <2> QED
    BY <2>1 DEF Now
<1>4. /\ phase' \in [PlainRuns -> {"waiting", "open"} \cup RunEnds]
      /\ \A y \in PlainRoots : y # q => phase'[y] = phase[y]
  BY PlainRoot DEF PlainChainInv, PlainRoots
<1>5. DOMAIN states' = DOMAIN states /\ \A i \in DOMAIN states : i # s => states'[i] = states[i]
  BY DEF Moves, Now
<1>6. ASSUME NEW z \in PlainRuns, phase'[z] = "open" PROVE phase'[PlainChains!Root(z)] = "open"
  <2>1. CASE PlainChains!Root(z) = q
    <3>1. r # q
      <4>1. SUFFICES ASSUME r = q PROVE FALSE
        OBVIOUS
      <4>2. z # r /\ phase[z] = "open"
        BY <1>6, <4>1 DEF PlainChainInv
      <4>3. PlainParent[z] = r
        BY <2>1, <4>1, <4>2, PlainRoot
      <4> QED
        BY <4>1, <4>2, <4>3
    <3> QED
      BY <1>1, <2>1, <3>1 DEF PlainChainInv
  <2>2. CASE PlainChains!Root(z) # q
    <3>1. z # r /\ phase[z] = "open"
      BY <1>6, <2>2 DEF PlainChainInv
    <3> QED
      BY <1>4, <2>2, <3>1, PlainRoot DEF PlainChainInv
  <2> QED
    BY <2>1, <2>2
<1>7. ASSUME NEW y \in PlainRoots, phase'[y] = "open" PROVE phase[y] = "open" /\ (y = q => r # q)
  BY <1>1, <1>4, <1>7 DEF PlainChainInv
<1>8. ASSUME NEW y \in PlainRoots, NEW z \in Contexts, y # q, phase[y] = "open", z \in PlainWhere[y]
      PROVE  z # x /\ current[z] \in DOMAIN states /\ current[z] # s /\ Unanswered(z) /\ Keeps(Now, current[z], y)
  <2>1. PlainWhere[y] = {z}
    BY <1>8, PlainRoot DEF PlainRoots
  <2>2. z # x
    <3>1. PlainWhere[y] # PlainWhere[q]
      BY <1>1, <1>8 DEF PlainChainInv
    <3> QED
      BY <1>1, <2>1, <3>1
  <2>3. Unanswered(z) /\ Keeps(Now, current[z], y)
    BY <1>8 DEF PlainChainInv
  <2>4. current[z] # s
    BY <1>2, <2>2 DEF PlainChainInv
  <2> QED
    BY <2>2, <2>3, <2>4 DEF PlainChainInv, Unanswered
<1>9. ASSUME NEW y \in PlainRoots, NEW z \in Contexts, phase'[y] = "open", z \in PlainWhere[y]
      PROVE  Unanswered(z)' /\ Keeps(Now, current[z], y)'
  <2>1. CASE y = q
    <3>1. z = x /\ r # q
      BY <1>1, <1>7, <1>9, <2>1
    <3> QED
      BY <1>2, <1>3, <2>1, <3>1 DEF Unanswered
  <2>2. CASE y # q
    <3>1. current[z] \in DOMAIN states /\ current[z] # s /\ Unanswered(z) /\ Keeps(Now, current[z], y)
      BY <1>7, <1>8, <1>9, <2>2
    <3>2. Keeps(new, current[z], y)
      BY <2>2, <3>1, OthersKeep
    <3> QED
      BY <1>3, <1>5, <3>1, <3>2 DEF Unanswered
  <2> QED
    BY <2>1, <2>2
<1>10. ASSUME NEW z \in Contexts, Unanswered(z)' PROVE Unanswered(z) /\ (current[z] = s => z = x)
  <2>1. CASE current[z] = s
    BY <1>2, <2>1 DEF PlainChainInv, Unanswered
  <2>2. CASE current[z] # s
    <3>1. current[z] \in DOMAIN states
      BY <1>10 DEF PlainChainInv, Unanswered
    <3> QED
      BY <1>5, <1>10, <2>2, <3>1 DEF Unanswered
  <2> QED
    BY <2>1, <2>2
<1>11. ASSUME NEW z \in Contexts, NEW y \in Contexts, Unanswered(z)', current'[y] = current'[z] PROVE z = y
  BY <1>10, <1>11 DEF PlainChainInv
<1>12. ASSUME NEW z \in Contexts, Unanswered(z)', states'[current'[z]].trace # 0
       PROVE  \E y \in PlainRoots : phase'[y] = "open" /\ z \in PlainWhere[y]
  <2>1. CASE current[z] = s
    <3>1. z = x /\ r # q
      BY <1>10, <1>12, <2>1 DEF Unanswered
    <3>2. phase'[q] = "open"
      BY <1>1, <3>1 DEF PlainChainInv
    <3> QED
      BY <1>1, <3>1, <3>2
  <2>2. CASE current[z] # s
    <3>1. Unanswered(z) /\ current[z] \in DOMAIN states
      BY <1>10, <1>12 DEF PlainChainInv, Unanswered
    <3>2. states[current[z]].trace # 0
      BY <1>5, <1>12, <2>2, <3>1
    <3>3. PICK y \in PlainRoots : phase[y] = "open" /\ z \in PlainWhere[y]
      BY <3>1, <3>2 DEF PlainChainInv
    <3>4. y # q
      BY <1>1, <2>2, <3>3
    <3> QED
      BY <1>4, <3>3, <3>4
  <2> QED
    BY <2>1, <2>2
<1>13. Apart(traces, PlainBegun)'
  <2>1. PlainBegun' = PlainBegun
    <3>1. phase'[q] # "waiting"
      BY <1>1 DEF PlainChainInv, RunEnds
    <3> QED
      BY <1>1, <1>4, <3>1 DEF PlainBegun
  <2>2. q \in PlainBegun /\ Apart(Now.traces, PlainBegun)
    BY <1>1 DEF PlainChainInv, PlainBegun, Now
  <2>3. Apart(new.traces, PlainBegun)
    BY <1>2, <2>2, StayApart
  <2> QED
    BY <2>1, <2>3
<1>14. ASSUME NEW y \in PlainRoots, phase'[y] = "answered"
       PROVE  \E t \in DOMAIN traces' : traces'[t].by = {y} /\ traces'[t].answers # <<>>
  <2>1. CASE y = q
    <3>1. r = q /\ to = "answered"
      BY <1>1, <1>14, <2>1 DEF PlainChainInv
    <3> QED
      BY <2>1, <3>1 DEF Keeps
  <2>2. CASE y # q
    <3>1. PICK t \in DOMAIN traces : traces[t].by = {y} /\ traces[t].answers # <<>>
      BY <1>4, <1>14, <2>2 DEF PlainChainInv
    <3>2. t \in DOMAIN traces' /\ traces'[t] = traces[t]
      BY <3>1 DEF Moves, Now
    <3> QED
      BY <3>1, <3>2
  <2> QED
    BY <2>1, <2>2
<1>15. ASSUME NEW y \in PlainRoots, NEW z \in PlainRoots, phase'[y] = "open", phase'[z] = "open",
              PlainWhere[y] = PlainWhere[z]
       PROVE  y = z
  BY <1>7, <1>15 DEF PlainChainInv
<1>16. registry' = [y \in PlainRuns |-> NoState] /\ current' \in [Contexts -> DOMAIN states' \cup {NoState}]
  BY <1>5 DEF PlainChainInv
<1> QED
  BY <1>3, <1>4, <1>6, <1>9, <1>11, <1>12, <1>13, <1>14, <1>15, <1>16 DEF PlainChainInv, PlainChains!Root

\* A root begins with a new state, or with one its context holds that has no trace.
PlainRootBegins(q, x, s, grown, new) ==
    /\ phase[q] = "waiting" /\ x \in PlainWhere[q] /\ phase' = [phase EXCEPT ![q] = "open"]
    /\ \A y \in PlainRuns : phase[y] = "open" => x \notin PlainWhere[y]
    /\ grown \in Logs(RunState, PlainRuns, PlainAnswers) /\ grown.traces = traces
    /\ DOMAIN grown.states = DOMAIN states \cup {s} /\ \A i \in DOMAIN states : grown.states[i] = states[i]
    /\ s \in DOMAIN states => s = current[x] /\ Unanswered(x)
    /\ Keeps(grown, s, q) /\ new \in Logs(RunState, PlainRuns, PlainAnswers)
    /\ Moves(grown, new, s, q, {}) /\ Keeps(new, s, q) /\ ~new.states[s].answered
    /\ states' = new.states /\ traces' = new.traces
    /\ registry' = registry /\ current' = [current EXCEPT ![x] = s] /\ s # NoState

LEMMA PlainChainBegins ==
    ASSUME PlainChainInv, NEW q \in PlainRoots, NEW x \in Contexts, NEW s, NEW grown, NEW new,
           PlainRootBegins(q, x, s, grown, new)
    PROVE  PlainChainInv'
<1> USE DEF PlainRootBegins
<1>1. q \in PlainRuns /\ PlainChains!Root(q) = q /\ PlainWhere[q] = {x}
  <2>1. q \in PlainRuns
    BY DEF PlainRoots
  <2> QED
    BY <2>1, PlainRoot
<1>2. Now' = new /\ new \in Logs(RunState, PlainRuns, PlainAnswers)
  <2>1. new = [states |-> new.states, traces |-> new.traces]
    BY LogParts
  <2> QED
    BY <2>1 DEF Now
<1>3. /\ phase' \in [PlainRuns -> {"waiting", "open"} \cup RunEnds]
      /\ phase'[q] = "open" /\ \A y \in PlainRuns : y # q => phase'[y] = phase[y]
  BY <1>1 DEF PlainChainInv
<1>4. /\ DOMAIN states' = DOMAIN states \cup {s} /\ \A i \in DOMAIN states : i # s => states'[i] = states[i]
      /\ current'[x] = s /\ \A z \in Contexts : z # x => current'[z] = current[z] /\ current[z] \in DOMAIN states \cup {NoState}
  BY DEF Moves, PlainChainInv
<1>5. ASSUME NEW z \in Contexts, current[z] = s, z # x PROVE FALSE
  <2>1. s \in DOMAIN states
    BY <1>5 DEF PlainChainInv
  <2> QED
    BY <1>5, <2>1 DEF PlainChainInv
<1>6. ASSUME NEW z \in PlainRuns, phase'[z] = "open" PROVE phase'[PlainChains!Root(z)] = "open"
  <2>1. CASE z = q
    BY <1>1, <1>3, <2>1
  <2>2. CASE z # q
    <3>1. phase[PlainChains!Root(z)] = "open"
      BY <1>3, <1>6, <2>2 DEF PlainChainInv
    <3> QED
      BY <1>3, <3>1, PlainRoot
  <2> QED
    BY <2>1, <2>2
<1>7. ASSUME NEW y \in PlainRoots, phase'[y] = "open", y # q PROVE phase[y] = "open" /\ x \notin PlainWhere[y]
  BY <1>3, <1>7 DEF PlainRoots
<1>8. ASSUME NEW y \in PlainRoots, NEW z \in PlainRoots, phase'[y] = "open", phase'[z] = "open",
             PlainWhere[y] = PlainWhere[z]
      PROVE  y = z
  BY <1>1, <1>7, <1>8 DEF PlainChainInv
<1>9. ASSUME NEW z \in Contexts, Unanswered(z)', z # x
      PROVE  Unanswered(z) /\ current'[z] = current[z] /\ current[z] # s /\ states'[current[z]] = states[current[z]]
  <2>1. current'[z] = current[z] /\ current[z] # s /\ current[z] \in DOMAIN states
    BY <1>4, <1>5, <1>9 DEF Unanswered
  <2> QED
    BY <1>4, <1>9, <2>1 DEF Unanswered
<1>10. ASSUME NEW y \in PlainRoots, NEW z \in Contexts, phase'[y] = "open", z \in PlainWhere[y]
       PROVE  Unanswered(z)' /\ Keeps(Now, current[z], y)'
  <2>1. CASE y = q
    <3>1. z = x
      BY <1>1, <1>10, <2>1
    <3> QED
      BY <1>2, <1>4, <2>1, <3>1 DEF Unanswered
  <2>2. CASE y # q
    <3>1. z # x /\ Unanswered(z) /\ Keeps(Now, current[z], y)
      BY <1>7, <1>10, <2>2 DEF PlainChainInv
    <3>2. current'[z] = current[z] /\ current[z] # s /\ current[z] \in DOMAIN states
      BY <1>4, <1>5, <3>1 DEF Unanswered
    <3>3. Keeps(grown, current[z], y)
      BY <3>1, <3>2 DEF Keeps, Now
    <3>4. Keeps(new, current[z], y)
      BY <2>2, <3>2, <3>3, OthersKeep
    <3> QED
      BY <1>2, <1>4, <3>1, <3>2, <3>4 DEF Unanswered
  <2> QED
    BY <2>1, <2>2
<1>11. ASSUME NEW z \in Contexts, NEW y \in Contexts, Unanswered(z)', current'[y] = current'[z] PROVE z = y
  <2>1. CASE z = x
    BY <1>4, <1>5, <1>11, <2>1
  <2>2. CASE z # x
    <3>1. Unanswered(z) /\ current'[z] = current[z] /\ current[z] # s
      BY <1>9, <1>11, <2>2
    <3>2. y # x
      BY <1>4, <1>11, <3>1
    <3> QED
      BY <1>4, <1>11, <3>1, <3>2 DEF PlainChainInv
  <2> QED
    BY <2>1, <2>2
<1>12. ASSUME NEW z \in Contexts, Unanswered(z)', states'[current'[z]].trace # 0
       PROVE  \E y \in PlainRoots : phase'[y] = "open" /\ z \in PlainWhere[y]
  <2>1. CASE z = x
    BY <1>3, <2>1
  <2>2. CASE z # x
    <3>1. Unanswered(z) /\ states[current[z]].trace # 0
      BY <1>9, <1>12, <2>2
    <3>2. PICK y \in PlainRoots : phase[y] = "open" /\ z \in PlainWhere[y]
      BY <3>1 DEF PlainChainInv
    <3>3. phase'[y] = "open"
      BY <1>3, <3>2 DEF PlainRoots
    <3> QED
      BY <3>2, <3>3
  <2> QED
    BY <2>1, <2>2
<1>13. Apart(traces, PlainBegun)'
  <2>1. PlainBegun' = PlainBegun \cup {q}
    BY <1>3 DEF PlainBegun, PlainRoots
  <2>2. Apart(grown.traces, PlainBegun')
    BY <2>1 DEF PlainChainInv, Apart
  <2>3. Apart(new.traces, PlainBegun')
    BY <2>1, <2>2, StayApart
  <2> QED
    BY <2>3
<1>14. ASSUME NEW y \in PlainRoots, phase'[y] = "answered"
       PROVE  \E t \in DOMAIN traces' : traces'[t].by = {y} /\ traces'[t].answers # <<>>
  <2>1. y # q /\ phase[y] = "answered"
    BY <1>3, <1>14 DEF PlainRoots
  <2>2. PICK t \in DOMAIN traces : traces[t].by = {y} /\ traces[t].answers # <<>>
    BY <2>1 DEF PlainChainInv
  <2>3. t \in DOMAIN traces' /\ traces'[t] = traces[t]
    BY <2>2 DEF Moves
  <2> QED
    BY <2>2, <2>3
<1>15. registry' = [y \in PlainRuns |-> NoState] /\ current' \in [Contexts -> DOMAIN states' \cup {NoState}]
  BY <1>4 DEF PlainChainInv
<1> HIDE DEF PlainRootBegins
<1> QED
  BY <1>2, <1>3, <1>6, <1>8, <1>10, <1>11, <1>12, <1>13, <1>14, <1>15 DEF PlainChainInv, PlainChains!Root

\* What the handler writes for a run that keeps a state.
LEMMA PlainWrites ==
    ASSUME NEW r \in PlainRuns, NEW q, q = PlainChains!Root(r), NEW s,
           NEW pair \in Logs(RunState, PlainRuns, PlainAnswers), Keeps(pair, s, q)
    PROVE  /\ PlainChains!Write(pair, s, r) = pair
           /\ PlainChains!EnsureTrace(pair, s, r) = Ensured(pair, s, q)
           /\ pair.states[s].trace # 0 => \A w : PlainChains!LogAnswer(pair, s, r, w) = Answered(pair, s, <<r, w>>)
<1>1. PlainChains!Write(pair, s, r) = pair
  <2>1. CASE pair.states[s].trace = 0
    BY <2>1 DEF PlainChains!Write, PlainChains!HasTrace, PlainChains!TraceOf
  <2>2. CASE pair.states[s].trace # 0
    <3>1. q \in PlainRuns
      BY PlainRoot
    <3>2. Wrote(pair, s, q) = pair
      BY <2>2, <3>1, OwnerWritten
    <3> QED
      BY <2>2, <3>2 DEF PlainChains!Write, PlainChains!HasTrace, PlainChains!TraceOf, Wrote
  <2> QED
    BY <2>1, <2>2
<1>2. PlainChains!EnsureTrace(pair, s, r) = Ensured(pair, s, q)
  BY DEF PlainChains!EnsureTrace, PlainChains!HasTrace, PlainChains!TraceOf, Ensured
<1>3. ASSUME NEW w PROVE PlainChains!LogAnswer(pair, s, r, w) = Answered(pair, s, <<r, w>>)
  BY <1>1 DEF PlainChains!LogAnswer, PlainChains!TraceOf, Answered
<1> QED
  BY <1>1, <1>2, <1>3

\* What the handler finds in a callback of an open run.
LEMMA PlainWorks ==
    ASSUME PlainChainInv, NEW r \in PlainRuns, NEW q, q = PlainChains!Root(r), phase[q] = "open",
           NEW x \in Contexts, x \in PlainWhere[r], NEW s, s = current[x]
    PROVE  /\ q \in PlainRuns /\ x \in PlainWhere[q]
           /\ s \in DOMAIN states /\ s # NoState /\ Keeps(Now, s, q) /\ ~states[s].answered
           /\ Now \in Logs(RunState, PlainRuns, PlainAnswers) /\ PlainChains!Log(s) = Now
           /\ PlainChains!StateFor(r, x, FALSE) = s
<1>1. q \in PlainRoots /\ q \in PlainRuns /\ x \in PlainWhere[q]
  BY PlainRoot
<1>2. s # NoState /\ ~states[s].answered /\ Keeps(Now, s, q) /\ Now \in Logs(RunState, PlainRuns, PlainAnswers)
  BY <1>1 DEF PlainChainInv, Unanswered
<1>3. s \in DOMAIN states /\ s \in 1..Len(states) /\ Len(states) \in Nat
  <2>1. s \in DOMAIN Now.states /\ Now.states = states
    BY <1>2 DEF Keeps, Now
  <2>2. DOMAIN Now.states = 1..Len(Now.states) /\ Len(Now.states) \in Nat
    BY <1>2, LogParts
  <2> QED
    BY <2>1, <2>2
<1>4. PlainChains!Log(s) = Now
  BY <1>3 DEF PlainChains!Log, Now
<1>5. PlainChains!StateFor(r, x, FALSE) = s
  BY <1>2 DEF PlainChains!StateFor
<1> QED
  BY <1>1, <1>2, <1>3, <1>4, <1>5

\* Without ids nothing is entered.
LEMMA PlainEntries ==
    ASSUME PlainChainInv, NEW r, NEW x, NEW s, NEW new, NEW to,
           \/ PlainChains!Becomes(new, PlainChains!Activate(r, x, s), x, s)
           \/ PlainChains!Becomes(new, PlainChains!Release(PlainChains!Activate(r, x, s), s), x, s)
           \/ PlainChains!Becomes(new, PlainChains!ReleaseAtEnd(r, PlainChains!Activate(r, x, s), s), x, s),
           PlainChains!Goes(r, to)
    PROVE  /\ states' = new.states /\ traces' = new.traces /\ registry' = registry
           /\ current' = [current EXCEPT ![x] = s] /\ phase' = [phase EXCEPT ![r] = to]
<1>1. PlainChains!Activate(r, x, s) = registry
  BY DEF PlainChains!Activate, PlainChainInv
<1>2. PlainChains!Release(registry, s) = registry
  BY DEF PlainChains!Release, PlainChainInv
<1>3. PlainChains!ReleaseAtEnd(r, registry, s) = registry
  BY <1>2 DEF PlainChains!ReleaseAtEnd
<1> QED
  BY <1>1, <1>2, <1>3 DEF PlainChains!Becomes, PlainChains!Goes

LEMMA PlainChainStartStep ==
    ASSUME PlainChainInv, NEW r \in PlainRuns, NEW x \in Contexts, PlainChains!ChainStart(r, x)
    PROVE  PlainChainInv'
<1> DEFINE s == PlainChains!StateFor(r, x, TRUE)
           grown == PlainChains!Log(s)
<1>1. r \in PlainRoots /\ PlainParent[r] = NoRun /\ PlainChains!Root(r) = r
  <2>1. PlainKind[r] = "chain"
    BY DEF PlainChains!ChainStart
  <2> QED
    BY <2>1, PlainRoot DEF PlainRoots
<1>2. /\ phase[r] = "waiting" /\ x \in PlainWhere[r] /\ PlainChains!Goes(r, "open")
      /\ \A y \in PlainRuns : phase[y] = "open" => x \notin PlainWhere[y]
  BY <1>1 DEF PlainChains!ChainStart, PlainChains!MayStart, PlainChains!Open
<1>3. Now \in Logs(RunState, PlainRuns, PlainAnswers) /\ Now.states = states /\ Now.traces = traces
      /\ Len(states) \in Nat /\ DOMAIN states = 1..Len(states)
  <2>1. Now \in Logs(RunState, PlainRuns, PlainAnswers) /\ Now.states = states /\ Now.traces = traces
    BY DEF PlainChainInv, Now
  <2> QED
    BY <2>1, LogParts
<1>4. ASSUME NEW u \in DOMAIN traces PROVE traces[u].by # {r}
  <2>1. PICK y \in PlainBegun : traces[u].by = {y}
    BY <1>4 DEF PlainChainInv, Apart
  <2>2. y # r
    BY <1>2, <2>1 DEF PlainBegun
  <2> QED
    BY <2>1, <2>2
<1>5. /\ grown \in Logs(RunState, PlainRuns, PlainAnswers) /\ grown.traces = traces
      /\ DOMAIN grown.states = DOMAIN states \cup {s} /\ (\A i \in DOMAIN states : grown.states[i] = states[i])
      /\ (s \in DOMAIN states => s = current[x] /\ Unanswered(x)) /\ s # NoState
      /\ Keeps(grown, s, r) /\ ~grown.states[s].answered
  <2>1. CASE Unanswered(x)
    <3>1. s = current[x] /\ s \in DOMAIN states /\ s # NoState
      BY <2>1 DEF PlainChains!StateFor, PlainChains!HoldsUnanswered, Unanswered, PlainChainInv
    <3>2. grown = Now
      <4>1. ~(s > Len(states))
        <5> HIDE DEF s
        <5> QED
          BY <1>3, <3>1
      <4> HIDE DEF s
      <4> QED
        BY <4>1 DEF PlainChains!Log, Now
    <3>3. states[s].trace = 0
      BY <1>1, <1>2, <2>1, <3>1 DEF PlainChainInv, PlainRoots
    <3>4. ~states[s].answered
      BY <2>1, <3>1 DEF Unanswered
    <3> HIDE DEF s, grown
    <3>5. Keeps(grown, s, r)
      BY <1>3, <1>4, <3>1, <3>2, <3>3, <3>4 DEF Keeps
    <3> QED
      BY <1>3, <2>1, <3>1, <3>2, <3>4, <3>5
  <2>2. CASE ~Unanswered(x)
    <3>1. s = Len(states) + 1
      BY <2>2 DEF PlainChains!StateFor, PlainChains!HoldsUnanswered, PlainChains!Allocated, Unanswered
    <3>2. s > Len(states) /\ s # NoState /\ s \notin DOMAIN states
      <4> HIDE DEF s
      <4> QED
        BY <1>3, <3>1, StateAssumption
    <3>3. PlainChains!FreshState \in RunState /\ PlainChains!FreshState.trace = 0 /\ ~PlainChains!FreshState.answered
      BY DEF PlainChains!FreshState, RunState
    <3> HIDE DEF s, grown
    <3>4. grown = [states |-> Append(states, PlainChains!FreshState), traces |-> traces]
      BY <3>2 DEF PlainChains!Log, grown
    <3>5. /\ grown \in Logs(RunState, PlainRuns, PlainAnswers) /\ grown.traces = traces
          /\ DOMAIN grown.states = DOMAIN states \cup {s} /\ grown.states[s] = PlainChains!FreshState
          /\ \A i \in DOMAIN states : grown.states[i] = states[i]
      BY <1>3, <3>1, <3>3, <3>4, StateAdded
    <3>6. Keeps(grown, s, r)
      BY <1>4, <3>3, <3>5 DEF Keeps
    <3> QED
      BY <3>2, <3>3, <3>5, <3>6
  <2> QED
    BY <2>1, <2>2
<1>6. /\ PlainChains!EnsureTrace(grown, s, r) = Ensured(grown, s, r)
      /\ \/ PlainChains!Becomes(PlainChains!EnsureTrace(grown, s, r), PlainChains!Activate(r, x, s), x, s)
         \/ PlainChains!Becomes(grown, PlainChains!Activate(r, x, s), x, s)
  BY <1>1 DEF PlainChains!EnsureTrace, PlainChains!HasTrace, PlainChains!TraceOf, Ensured, PlainChains!ChainStart
<1> HIDE DEF s, grown
<1>7. /\ Ensured(grown, s, r) \in Logs(RunState, PlainRuns, PlainAnswers)
      /\ Moves(grown, Ensured(grown, s, r), s, r, {}) /\ Keeps(Ensured(grown, s, r), s, r)
      /\ Ensured(grown, s, r).states[s].answered = grown.states[s].answered
  BY <1>5, RunStateType, EnsuredKeeps
<1>8. PICK new : /\ new \in Logs(RunState, PlainRuns, PlainAnswers) /\ Moves(grown, new, s, r, {}) /\ Keeps(new, s, r)
                 /\ ~new.states[s].answered /\ PlainChains!Becomes(new, PlainChains!Activate(r, x, s), x, s)
  BY <1>5, <1>6, <1>7, NoMove
<1>9. /\ states' = new.states /\ traces' = new.traces /\ registry' = registry
      /\ current' = [current EXCEPT ![x] = s] /\ phase' = [phase EXCEPT ![r] = "open"]
  BY <1>2, <1>8, PlainEntries
<1>10. PlainRootBegins(r, x, s, grown, new)
  BY <1>2, <1>5, <1>8, <1>9 DEF PlainRootBegins
<1> QED
  BY <1>1, <1>10, PlainChainBegins

\* Retrievers and tools: nothing is answered.
LEMMA PlainNestedStep ==
    ASSUME PlainChainInv, NEW r \in PlainRuns, NEW x \in Contexts,
           \/ PlainChains!RetrieverStart(r, x) \/ PlainChains!RetrieverEnd(r, x)
           \/ PlainChains!ToolStart(r, x) \/ PlainChains!ToolEnd(r, x)
    PROVE  PlainChainInv'
<1> DEFINE q == PlainChains!Root(r)
           s == current[x]
           ensured == Ensured(Now, s, q)
<1>1. q = PlainParent[r] /\ r # q /\ PlainParent[r] # NoRun
  <2>1. PlainKind[r] # "chain"
    BY DEF PlainChains!RetrieverStart, PlainChains!RetrieverEnd, PlainChains!ToolStart, PlainChains!ToolEnd
  <2> QED
    BY <2>1, PlainRoot DEF PlainRoots
<1>2. phase[q] = "open" /\ x \in PlainWhere[r]
  <2>1. CASE PlainChains!RetrieverStart(r, x) \/ PlainChains!ToolStart(r, x)
    BY <1>1, <2>1 DEF PlainChains!RetrieverStart, PlainChains!ToolStart, PlainChains!MayStart, PlainChains!Open
  <2>2. CASE PlainChains!RetrieverEnd(r, x) \/ PlainChains!ToolEnd(r, x)
    <3>1. phase[r] = "open" /\ x \in PlainWhere[r]
      BY <2>2 DEF PlainChains!RetrieverEnd, PlainChains!ToolEnd, PlainChains!MayEnd, PlainChains!Open
    <3> QED
      BY <3>1 DEF PlainChainInv
  <2> QED
    BY <2>1, <2>2
<1>3. /\ Keeps(Now, s, q) /\ Now \in Logs(RunState, PlainRuns, PlainAnswers) /\ PlainChains!Log(s) = Now
      /\ PlainChains!StateFor(r, x, FALSE) = s /\ q \in PlainRuns /\ x \in PlainWhere[q]
      /\ ~states[s].answered /\ Now.states = states
  <2>1. Now.states = states
    BY DEF Now
  <2> QED
    BY <1>2, <2>1, PlainWorks
<1>0. ASSUME NEW pair \in Logs(RunState, PlainRuns, PlainAnswers), Keeps(pair, s, q)
      PROVE  PlainChains!Write(pair, s, r) = pair /\ PlainChains!EnsureTrace(pair, s, r) = Ensured(pair, s, q)
  BY <1>0, PlainWrites
<1>4. PlainChains!EnsureTrace(Now, s, r) = ensured /\ PlainChains!Write(Now, s, r) = Now
  BY <1>0, <1>3
<1>5. /\ ensured \in Logs(RunState, PlainRuns, PlainAnswers) /\ Keeps(ensured, s, q)
      /\ Moves(Now, ensured, s, q, {}) /\ ensured.states[s].answered = Now.states[s].answered
  BY <1>3, RunStateType, EnsuredKeeps
<1>6. PlainChains!Write(ensured, s, r) = ensured
  BY <1>0, <1>5
<1>7. Moves(Now, Now, s, q, {})
  BY NoMove
<1> HIDE DEF q, s, ensured
<1>8. \E to \in {"open"} \cup RunEnds :
         /\ PlainChains!Goes(r, to)
         /\ \/ PlainChains!Becomes(ensured, PlainChains!Activate(r, x, s), x, s)
            \/ PlainChains!Becomes(Now, PlainChains!Activate(r, x, s), x, s)
  <2>1. CASE PlainChains!RetrieverStart(r, x)
    BY <1>3, <1>4, <2>1 DEF PlainChains!RetrieverStart
  <2>2. CASE PlainChains!RetrieverEnd(r, x)
    BY <1>3, <1>4, <1>6, <2>2 DEF PlainChains!RetrieverEnd, RunEnds
  <2>3. CASE PlainChains!ToolStart(r, x)
    BY <1>3, <1>4, <1>6, <2>3 DEF PlainChains!ToolStart
  <2>4. CASE PlainChains!ToolEnd(r, x)
    <3>1. \E to \in {"answered", "failed"} : PlainChains!Goes(r, to)
      BY <2>4 DEF PlainChains!ToolEnd
    <3>2. PlainChains!Becomes(Now, PlainChains!Activate(r, x, s), x, s)
      BY <1>3, <1>4, <2>4 DEF PlainChains!ToolEnd
    <3> QED
      BY <3>1, <3>2 DEF RunEnds
  <2> QED
    BY <2>1, <2>2, <2>3, <2>4
<1>9. PICK to \in {"open"} \cup RunEnds, new \in Logs(RunState, PlainRuns, PlainAnswers) :
         /\ PlainChains!Goes(r, to) /\ Keeps(new, s, q) /\ Moves(Now, new, s, q, {}) /\ ~new.states[s].answered
         /\ PlainChains!Becomes(new, PlainChains!Activate(r, x, s), x, s)
  BY <1>3, <1>5, <1>7, <1>8
<1>10. /\ states' = new.states /\ traces' = new.traces /\ registry' = registry
       /\ current' = [current EXCEPT ![x] = s] /\ phase' = [phase EXCEPT ![r] = to]
  BY <1>9, PlainEntries
<1>11. current' = current
  BY <1>10 DEF PlainChainInv, s
<1>12. PlainEffect(r, q, x, to, new, {})
  BY <1>1, <1>2, <1>3, <1>9, <1>10, <1>11 DEF PlainEffect, q, s
<1> QED
  BY <1>12, PlainCallback

LEMMA PlainChainEndStep ==
    ASSUME PlainChainInv, NEW r \in PlainRuns, NEW x \in Contexts,
           PlainChains!ChainEnd(r, x) \/ PlainChains!ChainError(r, x)
    PROVE  PlainChainInv'
<1> DEFINE s == current[x]
           ensured == Ensured(Now, s, r)
           good == <<r, "answer">>
           bad == <<r, "failure">>
           B == {good, bad}
           left == PlainChains!ReleaseAtEnd(r, PlainChains!Activate(r, x, s), s)
           kept == PlainChains!Activate(r, x, s)
<1>1. /\ phase[r] = "open" /\ x \in PlainWhere[r] /\ PlainKind[r] = "chain"
      /\ \A y \in PlainRuns : PlainParent[y] = r => phase[y] # "open"
  BY DEF PlainChains!ChainEnd, PlainChains!ChainError, PlainChains!MayEnd, PlainChains!Open
<1>2. r \in PlainRoots /\ PlainChains!Root(r) = r /\ PlainParent[r] = NoRun
  BY <1>1, PlainRoot DEF PlainRoots
<1>3. /\ Keeps(Now, s, r) /\ Now \in Logs(RunState, PlainRuns, PlainAnswers) /\ PlainChains!Log(s) = Now
      /\ PlainChains!StateFor(r, x, FALSE) = s /\ x \in PlainWhere[r] /\ s # NoState
      /\ ~states[s].answered /\ Now.states = states
  <2>1. Now.states = states
    BY DEF Now
  <2> QED
    BY <1>1, <1>2, <2>1, PlainWorks
<1>4. PlainChains!EnsureTrace(Now, s, r) = ensured /\ PlainChains!Write(Now, s, r) = Now
  BY <1>2, <1>3, PlainWrites
<1>5. /\ ensured \in Logs(RunState, PlainRuns, PlainAnswers) /\ Keeps(ensured, s, r)
      /\ Moves(Now, ensured, s, r, B) /\ ensured.states[s].answered = Now.states[s].answered
      /\ ensured.states[s].trace # 0 /\ (Now.states[s].trace # 0 => ensured = Now)
  BY <1>3, RunStateType, EnsuredKeeps
<1>6. \A w : PlainChains!LogAnswer(ensured, s, r, w) = Answered(ensured, s, <<r, w>>)
  BY <1>2, <1>5, PlainWrites
<1>7. Moves(Now, Now, s, r, B)
  BY NoMove
<1>8. good \in PlainAnswers /\ bad \in PlainAnswers /\ good \in B /\ bad \in B
  BY DEF PlainAnswers
<1> HIDE DEF ensured, good, bad, B
<1>9. ASSUME NEW p \in B
      PROVE  /\ Answered(ensured, s, p) \in Logs(RunState, PlainRuns, PlainAnswers) /\ Keeps(Answered(ensured, s, p), s, r)
             /\ Moves(Now, Answered(ensured, s, p), s, r, B) /\ Answered(ensured, s, p).states[s].answered
  <2> DEFINE new == Answered(ensured, s, p)
  <2>0. p \in PlainAnswers
    BY <1>8 DEF B
  <2>1. /\ new \in Logs(RunState, PlainRuns, PlainAnswers) /\ Keeps(new, s, r) /\ Moves(ensured, new, s, r, B)
        /\ new.states[s].trace = ensured.states[s].trace /\ new.states[s].answered
    BY <1>3, <1>5, <2>0, RunStateType, AnsweredKeeps
  <2>2. 0 \notin DOMAIN ensured.traces
    <3>1. DOMAIN ensured.traces = 1..Len(ensured.traces)
      BY <1>5, LogParts
    <3> QED
      BY <3>1
  <2> HIDE DEF new
  <2>3. Moves(Now, new, s, r, B)
    BY <1>3, <1>5, <2>1, <2>2, MoveOn
  <2> QED
    BY <2>1, <2>3 DEF new
<1> HIDE DEF s, left, kept
<1>10. ~ensured.states[s].answered
  BY <1>3, <1>5
<1>11. \E to \in {"answered", "failed"}, new \in Logs(RunState, PlainRuns, PlainAnswers) :
          /\ PlainChains!Goes(r, to) /\ Keeps(new, s, r) /\ Moves(Now, new, s, r, B)
          /\ new.states[s].answered \/ (to = "failed" /\ new.states[s].trace = 0)
          /\ PlainChains!Becomes(new, left, x, s)
  <2>1. CASE PlainChains!ChainEnd(r, x)
    <3>1. PlainChains!Goes(r, "answered") /\ PlainChains!Becomes(PlainChains!LogAnswer(ensured, s, r, "answer"), left, x, s)
      BY <1>2, <1>3, <1>4, <1>10, <2>1 DEF PlainChains!ChainEnd, left
    <3>2. PlainChains!LogAnswer(ensured, s, r, "answer") = Answered(ensured, s, good)
      BY <1>6 DEF good
    <3> QED
      BY <1>8, <1>9, <3>1, <3>2
  <2>2. CASE PlainChains!ChainError(r, x)
    <3>1. PlainChains!Goes(r, "failed")
      BY <2>2 DEF PlainChains!ChainError
    <3>2. CASE Now.states[s].trace # 0
      <4>1. PlainChains!Becomes(PlainChains!LogAnswer(Now, s, r, "failure"), left, x, s)
        BY <1>3, <1>4, <2>2, <3>2 DEF PlainChains!ChainError, PlainChains!HasTrace, PlainChains!TraceOf, left
      <4>2. ensured = Now
        BY <1>5, <3>2
      <4>3. PlainChains!LogAnswer(Now, s, r, "failure") = Answered(ensured, s, bad)
        BY <1>6, <4>2 DEF bad
      <4> QED
        BY <1>8, <1>9, <3>1, <4>1, <4>3
    <3>3. CASE Now.states[s].trace = 0
      <4>1. PlainChains!Becomes(Now, left, x, s)
        BY <1>3, <1>4, <2>2, <3>3 DEF PlainChains!ChainError, PlainChains!HasTrace, PlainChains!TraceOf, left
      <4> QED
        BY <1>3, <1>7, <3>1, <3>3, <4>1
    <3> QED
      BY <3>2, <3>3
  <2> QED
    BY <2>1, <2>2
<1>12. PICK to \in {"answered", "failed"}, new \in Logs(RunState, PlainRuns, PlainAnswers) :
          /\ PlainChains!Goes(r, to) /\ Keeps(new, s, r) /\ Moves(Now, new, s, r, B)
          /\ new.states[s].answered \/ (to = "failed" /\ new.states[s].trace = 0)
          /\ PlainChains!Becomes(new, left, x, s)
  BY <1>11
<1>13. /\ states' = new.states /\ traces' = new.traces /\ registry' = registry
       /\ current' = [current EXCEPT ![x] = s] /\ phase' = [phase EXCEPT ![r] = to]
  <2>1. kept = registry
    BY DEF kept, PlainChains!Activate, PlainChainInv
  <2>2. left = registry
    BY <2>1 DEF left, kept, PlainChains!ReleaseAtEnd, PlainChains!Release, PlainChainInv
  <2> QED
    BY <1>12, <2>2 DEF PlainChains!Becomes, PlainChains!Goes
<1>14. current' = current
  BY <1>13 DEF PlainChainInv, s
<1>15. PlainEffect(r, r, x, to, new, B)
  BY <1>1, <1>2, <1>3, <1>12, <1>13, <1>14 DEF PlainEffect, RunEnds, s
<1> QED
  BY <1>15, PlainCallback

LEMMA PlainChainSame ==
    ASSUME PlainChainInv, UNCHANGED <<phase, states, registry, traces, current>>
    PROVE  PlainChainInv'
<1>1. Now' = Now /\ PlainBegun' = PlainBegun
  BY DEF Now, PlainBegun
<1>2. \A s, q : Keeps(Now, s, q)' <=> Keeps(Now, s, q)
  BY <1>1 DEF Keeps
<1>3. \A x : Unanswered(x)' <=> Unanswered(x)
  BY DEF Unanswered
<1>4. \A x, q : Keeps(Now, current[x], q)' <=> Keeps(Now, current[x], q)
  BY <1>1 DEF Keeps
<1>5. Apart(traces, PlainBegun)'
  BY <1>1 DEF PlainChainInv, Apart
<1>6. \A q \in PlainRoots : phase'[q] = "answered" =>
          \E t \in DOMAIN traces' : traces'[t].by = {q} /\ traces'[t].answers # <<>>
  BY DEF PlainChainInv
<1>7. /\ phase' \in [PlainRuns -> {"waiting", "open"} \cup RunEnds] /\ Now' \in Logs(RunState, PlainRuns, PlainAnswers)
      /\ registry' = [r \in PlainRuns |-> NoState] /\ current' \in [Contexts -> DOMAIN states' \cup {NoState}]
  BY <1>1 DEF PlainChainInv
<1>8. \A r \in PlainRuns : phase'[r] = "open" => phase'[PlainChains!Root(r)] = "open"
  BY DEF PlainChainInv
<1>9. \A q \in PlainRoots, x \in Contexts : phase'[q] = "open" /\ x \in PlainWhere[q] =>
          Unanswered(x)' /\ Keeps(Now, current[x], q)'
  BY <1>3, <1>4 DEF PlainChainInv
<1>10. \A x, z \in Contexts : Unanswered(x)' /\ current'[z] = current'[x] => x = z
  BY <1>3 DEF PlainChainInv
<1>11. \A x \in Contexts : Unanswered(x)' /\ states'[current'[x]].trace # 0 =>
          \E q \in PlainRoots : phase'[q] = "open" /\ x \in PlainWhere[q]
  BY <1>3 DEF PlainChainInv
<1>12. \A q, y \in PlainRoots : phase'[q] = "open" /\ phase'[y] = "open" /\ PlainWhere[q] = PlainWhere[y] => q = y
  BY DEF PlainChainInv
<1> QED
  BY <1>5, <1>6, <1>7, <1>8, <1>9, <1>10, <1>11, <1>12 DEF PlainChainInv, PlainChains!Root

LEMMA PlainChainForkStep ==
    ASSUME PlainChainInv, NEW x \in Contexts, NEW y \in Contexts, PlainChains!Fork(x, y)
    PROVE  PlainChainInv'
<1>1. /\ ~Unanswered(x) /\ UNCHANGED <<phase, states, registry, traces>>
      /\ \A r \in PlainRuns : phase[r] = "open" => y \notin PlainWhere[r]
      /\ current' = [current EXCEPT ![y] = current[x]]
  BY DEF PlainChains!Fork, PlainChains!HoldsUnanswered, PlainChains!Open, Unanswered
<1>2. Now' = Now /\ PlainBegun' = PlainBegun
  BY <1>1 DEF Now, PlainBegun
<1>3. current'[y] = current[x] /\ \A z \in Contexts : z # y => current'[z] = current[z]
  BY <1>1 DEF PlainChainInv
<1>4. ~Unanswered(y)' /\ \A z \in Contexts : z # y => (Unanswered(z)' <=> Unanswered(z))
  BY <1>1, <1>3 DEF Unanswered
<1>5. ASSUME NEW q \in PlainRoots, NEW z \in Contexts, phase'[q] = "open", z \in PlainWhere[q]
      PROVE  Unanswered(z)' /\ Keeps(Now, current[z], q)'
  <2>1. z # y /\ Unanswered(z) /\ Keeps(Now, current[z], q)
    BY <1>1, <1>5 DEF PlainChainInv, PlainRoots
  <2> QED
    BY <1>2, <1>3, <1>4, <2>1
<1>6. ASSUME NEW z \in Contexts, NEW w \in Contexts, Unanswered(z)', current'[w] = current'[z] PROVE z = w
  <2>1. z # y /\ Unanswered(z) /\ current'[z] = current[z]
    BY <1>3, <1>4, <1>6
  <2>2. w # y
    BY <1>1, <1>3, <1>6, <2>1 DEF Unanswered
  <2> QED
    BY <1>3, <1>6, <2>1, <2>2 DEF PlainChainInv
<1>7. ASSUME NEW z \in Contexts, Unanswered(z)', states'[current'[z]].trace # 0
      PROVE  \E q \in PlainRoots : phase'[q] = "open" /\ z \in PlainWhere[q]
  <2>1. z # y /\ Unanswered(z) /\ current'[z] = current[z]
    BY <1>3, <1>4, <1>7
  <2> QED
    BY <1>1, <1>7, <2>1 DEF PlainChainInv
<1>8. Apart(traces, PlainBegun)'
  BY <1>1, <1>2 DEF PlainChainInv, Apart
<1>9. current' \in [Contexts -> DOMAIN states' \cup {NoState}]
  BY <1>1 DEF PlainChainInv
<1>10. \A q \in PlainRoots : phase'[q] = "answered" =>
          \E t \in DOMAIN traces' : traces'[t].by = {q} /\ traces'[t].answers # <<>>
  BY <1>1 DEF PlainChainInv
<1>11. /\ phase' \in [PlainRuns -> {"waiting", "open"} \cup RunEnds] /\ Now' \in Logs(RunState, PlainRuns, PlainAnswers)
       /\ registry' = [r \in PlainRuns |-> NoState]
  BY <1>1, <1>2 DEF PlainChainInv
<1>12. \A r \in PlainRuns : phase'[r] = "open" => phase'[PlainChains!Root(r)] = "open"
  BY <1>1 DEF PlainChainInv
<1>13. \A q, z \in PlainRoots : phase'[q] = "open" /\ phase'[z] = "open" /\ PlainWhere[q] = PlainWhere[z] => q = z
  BY <1>1 DEF PlainChainInv
<1> QED
  BY <1>5, <1>6, <1>7, <1>8, <1>9, <1>10, <1>11, <1>12, <1>13 DEF PlainChainInv, PlainChains!Root

LEMMA PlainChainsInit == PlainChains!Init => PlainChainInv
<1> SUFFICES ASSUME PlainChains!Init PROVE PlainChainInv
  OBVIOUS
<1>1. PlainChains!FreshState \in RunState
  BY DEF PlainChains!FreshState, RunState
<1>2. states \in Seq(RunState)
  BY <1>1 DEF PlainChains!Init
<1>3. traces \in TraceLog(PlainRuns, PlainAnswers) /\ DOMAIN traces = {}
  BY DEF PlainChains!Init, TraceLog
<1>4. Now \in Logs(RunState, PlainRuns, PlainAnswers)
  BY <1>2, <1>3, PairIsLog DEF Now
<1>5. (\A q \in PlainRuns : phase[q] = "waiting") /\ \A x \in Contexts : ~Unanswered(x)
  BY DEF PlainChains!Init, Unanswered
<1> QED
  BY <1>3, <1>4, <1>5 DEF PlainChains!Init, PlainChainInv, Apart, PlainRoots, RunEnds

LEMMA PlainChainsStep == PlainChainInv /\ [PlainChains!Next]_(PlainChains!vars) => PlainChainInv'
<1> SUFFICES ASSUME PlainChainInv, [PlainChains!Next]_(PlainChains!vars) PROVE PlainChainInv'
  OBVIOUS
<1>1. ASSUME NEW r \in PlainRuns, NEW x \in Contexts, PlainChains!ChainStart(r, x) PROVE PlainChainInv'
  BY <1>1, PlainChainStartStep
<1>2. ASSUME NEW r \in PlainRuns, NEW x \in Contexts, PlainChains!ChainEnd(r, x) \/ PlainChains!ChainError(r, x)
      PROVE  PlainChainInv'
  BY <1>2, PlainChainEndStep
<1>3. ASSUME NEW r \in PlainRuns, NEW x \in Contexts,
             \/ PlainChains!RetrieverStart(r, x) \/ PlainChains!RetrieverEnd(r, x)
             \/ PlainChains!ToolStart(r, x) \/ PlainChains!ToolEnd(r, x)
      PROVE  PlainChainInv'
  BY <1>3, PlainNestedStep
<1>4. ASSUME NEW x \in Contexts, NEW y \in Contexts, PlainChains!Fork(x, y) PROVE PlainChainInv'
  BY <1>4, PlainChainForkStep
<1>5. CASE UNCHANGED PlainChains!vars
  BY <1>5, PlainChainSame DEF PlainChains!vars
<1> QED
  BY <1>1, <1>2, <1>3, <1>4, <1>5 DEF PlainChains!Next

LEMMA PlainChainsKeep ==
    PlainChainInv => /\ PlainChains!OneRunPerTrace /\ PlainChains!OneTracePerRun
                     /\ PlainChains!OneAnswer /\ PlainChains!AnswerIsKept
<1> SUFFICES ASSUME PlainChainInv
             PROVE  /\ PlainChains!OneRunPerTrace /\ PlainChains!OneTracePerRun
                    /\ PlainChains!OneAnswer /\ PlainChains!AnswerIsKept
  OBVIOUS
<1>1. PlainChains!OneRunPerTrace
  <2>1. ASSUME NEW t \in DOMAIN traces PROVE PlainChains!Cardinality(traces[t].by) = 1
    <3>1. PICK q : traces[t].by = {q}
      BY <2>1 DEF PlainChainInv, Apart
    <3> QED
      BY <3>1, CountOne
  <2> HIDE DEF PlainChainInv
  <2> QED
    BY <2>1 DEF PlainChains!OneRunPerTrace
<1>2. PlainChains!OneTracePerRun
  BY TraceOfOne DEF PlainChainInv, PlainChains!OneTracePerRun
<1>3. PlainChains!OneAnswer
  BY DEF PlainChainInv, Apart, PlainChains!OneAnswer
<1>4. PlainChains!AnswerIsKept
  <2>1. SUFFICES ASSUME NEW r \in PlainRuns, PlainParent[r] = NoRun, phase[r] = "answered"
                 PROVE  PlainChains!Answers(r) # {}
    BY DEF PlainChains!AnswerIsKept
  <2>2. PICK t \in DOMAIN traces : traces[t].by = {r} /\ traces[t].answers # <<>>
    BY <2>1 DEF PlainChainInv, PlainRoots
  <2>3. 1 \in DOMAIN traces[t].answers
    <3>1. traces[t].answers \in Seq(PlainAnswers)
      <4>1. Now \in Logs(RunState, PlainRuns, PlainAnswers) /\ Now.traces = traces
        BY DEF PlainChainInv, Now
      <4> QED
        BY <4>1, LogParts
    <3> QED
      BY <2>2, <3>1
  <2>4. traces[t].answers[1] \in PlainChains!Answers(r)
    BY <2>2, <2>3 DEF PlainChains!Answers
  <2> QED
    BY <2>4
<1> QED
  BY <1>1, <1>2, <1>3, <1>4

-----------------------------------------------------------------------------
(* Queries: LlamaIndex.                                                    *)

EventState == [trace : Nat, answered : BOOLEAN, retrieved : SUBSET Events]
LEMMA EventStateType == StateType(EventState)
<1>1. \A p \in EventState : p.trace \in Nat /\ p.answered \in BOOLEAN
  BY DEF EventState
<1>2. ASSUME NEW p \in EventState, NEW n \in Nat
      PROVE  LET w == [p EXCEPT !.trace = n] IN w \in EventState /\ w.trace = n /\ w.answered = p.answered
  BY DEF EventState
<1>3. ASSUME NEW p \in EventState
      PROVE  LET w == [p EXCEPT !.answered = TRUE] IN w \in EventState /\ w.trace = p.trace /\ w.answered
  BY DEF EventState
<1> QED
  BY <1>1, <1>2, <1>3 DEF StateType

Tops == {e \in Events : EventParent[e] = Base}
Top(e) == IF EventParent[e] = Base THEN e ELSE EventParent[e]
Asked(q) == EventKind[q] = "query"
TopsBegun == {q \in Tops : phase[q] # "waiting"}

\* The state of a query, or of what is traced by hand in a context of its own.
HomeOf(q) == CHOOSE x \in EventContexts : EventWhere[q] = {x}
StateOf(q) == IF Asked(q) THEN registry[q] ELSE current[HomeOf(q)]
Bound(q) == IF Asked(q) THEN registry[q] # NoState ELSE phase[q] # "waiting"

\* All entries of a query and what is nested in it are of one state, which keeps
\* the query's trace and has retrieved for it alone, until the query is answered.
EventInv ==
    /\ phase \in [Events -> {"waiting", "open", "done", "answered"}]
    /\ Now \in Logs(EventState, Events, Events)
    /\ registry \in [Queries!Ids -> Nat \cup {NoState}]
    /\ current \in [EventContexts -> Nat \cup {NoState}]
    /\ \A e \in Events : phase[e] = "open" => phase[Top(e)] = "open"
    /\ \A e \in Events : phase[e] = "waiting" => registry[e] = NoState
    /\ \A e \in Events : phase[e] = "open" /\ Asked(Top(e)) => registry[e] # NoState
    /\ \A e \in Events : registry[e] # NoState => Asked(Top(e)) /\ registry[Top(e)] = registry[e]
    /\ \A q \in Tops : ~Asked(q) /\ phase[q] = "waiting" => StateOf(q) = NoState
    /\ \A q, y \in Tops : Bound(q) /\ Bound(y) /\ StateOf(q) = StateOf(y) => q = y
    /\ \A q \in Tops : Bound(q) => Keeps(Now, StateOf(q), q) /\ states[StateOf(q)].retrieved \subseteq {q}
    /\ Apart(traces, TopsBegun)
    /\ \A q \in Tops : phase[q] = "answered" =>
          \E t \in DOMAIN traces : traces[t].by = {q} /\ traces[t].answers # <<>>
    /\ \A q \in Tops : Asked(q) /\ phase[q] = "answered" => \A e \in Events : Top(e) = q => registry[e] = NoState

LEMMA EventRoot ==
    ASSUME NEW e \in Events
    PROVE  /\ Top(e) \in Tops /\ Top(e) \in Events /\ e \in Queries!Ids /\ Top(e) \in Queries!Ids
           /\ Top(Top(e)) = Top(e) /\ Base \notin Events
           /\ e \in Tops => Top(e) = e /\ EventKind[e] \in {"query", "manual"}
           /\ e \notin Tops => Top(e) = EventParent[e] /\ Top(e) # e /\ Asked(Top(e)) /\ EventKind[e] \notin {"query", "manual"}
           /\ EventKind[e] = "manual" => e \in Tops /\ ~Asked(e) /\ HomeOf(e) \in EventContexts /\ EventWhere[e] = {HomeOf(e)}
           /\ EventKind[e] = "manual" => \A f \in Events \ {e} : HomeOf(e) \notin EventWhere[f]
<1>1. /\ Top(e) \in Tops /\ Top(e) \in Events /\ e \in Queries!Ids /\ Top(e) \in Queries!Ids
      /\ Top(Top(e)) = Top(e) /\ Base \notin Events
      /\ e \in Tops => Top(e) = e /\ EventKind[e] \in {"query", "manual"}
      /\ e \notin Tops => Top(e) = EventParent[e] /\ Top(e) # e /\ Asked(Top(e)) /\ EventKind[e] \notin {"query", "manual"}
  BY EventsAssumption DEF Top, Tops, Asked, Queries!Ids
<1>2. ASSUME EventKind[e] = "manual"
      PROVE  /\ e \in Tops /\ ~Asked(e) /\ HomeOf(e) \in EventContexts /\ EventWhere[e] = {HomeOf(e)}
             /\ \A f \in Events \ {e} : HomeOf(e) \notin EventWhere[f]
  <2>1. PICK x \in EventContexts : EventWhere[e] = {x} /\ \A f \in Events \ {e} : x \notin EventWhere[f]
    BY <1>2, EventsAssumption
  <2>2. HomeOf(e) = x
    BY <2>1 DEF HomeOf
  <2> QED
    BY <1>2, <2>1, <2>2, EventsAssumption DEF Tops, Asked
<1> QED
  BY <1>1, <1>2

\* The innermost query around an event.
LEMMA QueryOf == \A e \in Events : Queries!Query[e] = Top(e)
<1> DEFINE Q(f) == [e \in Events |-> IF EventKind[e] \in {"query", "manual"} \/ EventParent[e] = Base
                                     THEN e ELSE f[EventParent[e]]]
           tops == [e \in Events |-> Top(e)]
<1>1. tops = Q(tops)
  <2>1. ASSUME NEW e \in Events PROVE tops[e] = Q(tops)[e]
    BY EventRoot, EventsAssumption DEF Top
  <2> QED
    BY <2>1
<1>2. Queries!Query = CHOOSE f : f = Q(f)
  BY DEF Queries!Query
<1>3. Queries!Query = Q(Queries!Query)
  BY <1>1, <1>2
<1>4. ASSUME NEW e \in Events, e \in Tops PROVE Queries!Query[e] = e
  BY <1>3, <1>4, EventRoot
<1>5. ASSUME NEW e \in Events, e \notin Tops PROVE Queries!Query[e] = EventParent[e]
  <2>1. Queries!Query[e] = Queries!Query[EventParent[e]]
    BY <1>3, <1>5, EventRoot DEF Tops
  <2> QED
    BY <1>4, <1>5, <2>1, EventRoot
<1> QED
  BY <1>4, <1>5, EventRoot

\* What a callback of an open query does: it keeps to the state of the query.
EventEffect(e, q, to, new, B, released) ==
    /\ q = Top(e) /\ phase[q] = "open"
    /\ to \in {"open", "done", "answered"} /\ phase' = [phase EXCEPT ![e] = to]
    /\ e = q => to # "open" /\ \A x \in Events : EventParent[x] = e => phase[x] # "open"
    /\ new \in Logs(EventState, Events, Events) /\ Moves(Now, new, StateOf(q), q, B)
    /\ Keeps(new, StateOf(q), q) /\ new.states[StateOf(q)].retrieved \subseteq {q}
    /\ states' = new.states /\ traces' = new.traces
    /\ registry' \in [Queries!Ids -> Nat \cup {NoState}] /\ current' \in [EventContexts -> Nat \cup {NoState}]
    /\ \A y \in Tops : y # q => StateOf(y)' = StateOf(y)
    /\ \A x \in Events : Top(x) # q => registry'[x] = registry[x]
    /\ IF released THEN e = q /\ Asked(q) ELSE StateOf(q)' = StateOf(q)
    /\ \A x \in Events : Top(x) = q =>
          /\ registry'[x] = NoState \/ (~released /\ registry'[x] = StateOf(q) /\ Asked(q))
          /\ ~released /\ phase'[x] = "open" /\ Asked(q) => registry'[x] # NoState
          /\ phase'[x] = "waiting" => registry'[x] = NoState
    /\ e = q /\ to = "answered" => new.states[StateOf(q)].answered /\ (Asked(q) => released)

LEMMA EventCallback ==
    ASSUME EventInv, NEW e \in Events, NEW q, NEW to, NEW new, NEW B, NEW released \in BOOLEAN,
           EventEffect(e, q, to, new, B, released)
    PROVE  EventInv'
<1> USE DEF EventEffect
<1> DEFINE s == StateOf(q)
<1>0. q \in Tops /\ q \in Events /\ Top(q) = q /\ Tops \subseteq Events
  BY EventRoot DEF Tops
<1>1. Bound(q) /\ Keeps(Now, s, q) /\ phase[q] # "waiting"
  <2>1. Bound(q)
    BY <1>0 DEF EventInv, Bound
  <2> QED
    BY <1>0, <2>1 DEF EventInv
<1>2. Now' = new
  <2>1. new = [states |-> new.states, traces |-> new.traces]
    BY LogParts
  <2> QED
    BY <2>1 DEF Now
<1>3. phase' \in [Events -> {"waiting", "open", "done", "answered"}]
  BY DEF EventInv
<1>4. \A y \in Tops : y # q => phase'[y] = phase[y] /\ StateOf(y)' = StateOf(y) /\ (Bound(y)' <=> Bound(y))
  <2>1. ASSUME NEW y \in Tops, y # q PROVE phase'[y] = phase[y] /\ registry'[y] = registry[y] /\ StateOf(y)' = StateOf(y)
    BY <1>0, <2>1, EventRoot DEF EventInv
  <2> QED
    BY <2>1 DEF Bound
<1>5. ASSUME NEW x \in Events, phase'[x] = "open" PROVE phase'[Top(x)] = "open"
  <2>1. CASE Top(x) = q
    <3>1. e # q
      <4>1. SUFFICES ASSUME e = q PROVE FALSE
        OBVIOUS
      <4>2. x # e /\ phase[x] = "open"
        BY <1>5, <4>1 DEF EventInv
      <4>3. EventParent[x] = e
        BY <2>1, <4>1, <4>2 DEF Top
      <4> QED
        BY <4>1, <4>2, <4>3
    <3>2. phase'[q] = phase[q]
      BY <1>0, <3>1 DEF EventInv
    <3> QED
      BY <2>1, <3>2
  <2>2. CASE Top(x) # q
    <3>1. x # e /\ phase[x] = "open"
      BY <1>5, <2>2 DEF EventInv
    <3>2. phase[Top(x)] = "open" /\ Top(x) \in Tops
      BY <3>1, EventRoot DEF EventInv
    <3> QED
      BY <1>4, <2>2, <3>2
  <2> QED
    BY <2>1, <2>2
<1>6. ASSUME NEW x \in Events, Top(x) # q PROVE phase'[x] = phase[x] /\ registry'[x] = registry[x]
  BY <1>6 DEF EventInv
<1>7. ASSUME NEW x \in Events, phase'[x] = "waiting" PROVE registry'[x] = NoState
  BY <1>6, <1>7 DEF EventInv
<1>8. ASSUME NEW x \in Events, phase'[x] = "open", Asked(Top(x)) PROVE registry'[x] # NoState
  <2>1. CASE Top(x) = q
    <3>1. ~released
      <4>1. SUFFICES ASSUME released PROVE FALSE
        OBVIOUS
      <4>2. phase'[q] = "open" /\ e = q
        BY <1>5, <1>8, <2>1, <4>1
      <4> QED
        BY <1>0, <4>2 DEF EventInv
    <3> QED
      BY <1>8, <2>1, <3>1
  <2>2. CASE Top(x) # q
    BY <1>6, <1>8, <2>2 DEF EventInv
  <2> QED
    BY <2>1, <2>2
<1>9. ASSUME NEW x \in Events, registry'[x] # NoState PROVE Asked(Top(x)) /\ registry'[Top(x)] = registry'[x]
  <2>1. CASE Top(x) = q
    <3>1. ~released /\ registry'[x] = s /\ Asked(q)
      BY <1>9, <2>1
    <3>2. registry'[q] = s
      BY <3>1 DEF StateOf
    <3> QED
      BY <2>1, <3>1, <3>2
  <2>2. CASE Top(x) # q
    <3>1. registry'[x] = registry[x] /\ registry'[Top(x)] = registry[Top(x)]
      BY <1>6, <2>2, EventRoot
    <3> QED
      BY <1>9, <3>1 DEF EventInv
  <2> QED
    BY <2>1, <2>2
<1>10. ASSUME NEW y \in Tops, ~Asked(y), phase'[y] = "waiting" PROVE StateOf(y)' = NoState
  <2>1. y # q
    BY <1>0, <1>1, <1>10 DEF EventInv
  <2> QED
    BY <1>4, <1>10, <2>1 DEF EventInv
<1>11. Bound(q)' => StateOf(q)' = s
  <2>1. CASE released
    <3>1. registry'[q] = NoState /\ Asked(q)
      BY <1>0, <2>1
    <3> QED
      BY <3>1 DEF Bound
  <2> QED
    BY <2>1
<1>12. ASSUME NEW y \in Tops, NEW z \in Tops, Bound(y)', Bound(z)', StateOf(y)' = StateOf(z)' PROVE y = z
  <2>1. ASSUME NEW w \in Tops, Bound(w)' PROVE Bound(w) /\ StateOf(w)' = StateOf(w)
    BY <1>1, <1>4, <1>11, <2>1
  <2>2. Bound(y) /\ Bound(z) /\ StateOf(y) = StateOf(z)
    BY <1>12, <2>1
  <2> QED
    BY <2>2 DEF EventInv
<1>13. ASSUME NEW y \in Tops, Bound(y)' PROVE Keeps(Now, StateOf(y), y)' /\ states'[StateOf(y)'].retrieved \subseteq {y}
  <2>1. CASE y = q
    BY <1>2, <1>11, <1>13, <2>1
  <2>2. CASE y # q
    <3>1. Bound(y) /\ StateOf(y)' = StateOf(y)
      BY <1>4, <1>13, <2>2
    <3>2. StateOf(y) # s /\ Keeps(Now, StateOf(y), y) /\ states[StateOf(y)].retrieved \subseteq {y}
      BY <1>0, <1>1, <2>2, <3>1 DEF EventInv
    <3>3. Keeps(new, StateOf(y), y)
      BY <2>2, <3>2, OthersKeep
    <3>4. states'[StateOf(y)] = states[StateOf(y)]
      BY <3>2 DEF Moves, Keeps, Now
    <3> QED
      BY <1>2, <3>1, <3>2, <3>3, <3>4
  <2> QED
    BY <2>1, <2>2
<1>14. Apart(traces, TopsBegun)'
  <2>1. TopsBegun' = TopsBegun
    BY <1>0, <1>1, <1>4 DEF TopsBegun, EventInv
  <2>2. q \in TopsBegun /\ Apart(Now.traces, TopsBegun)
    BY <1>0, <1>1 DEF EventInv, TopsBegun, Now
  <2>3. Apart(new.traces, TopsBegun)
    BY <1>1, <2>2, StayApart
  <2> QED
    BY <2>1, <2>3
<1>15. ASSUME NEW y \in Tops, phase'[y] = "answered"
       PROVE  \E t \in DOMAIN traces' : traces'[t].by = {y} /\ traces'[t].answers # <<>>
  <2>1. CASE y = q
    <3>1. e = q /\ to = "answered"
      BY <1>0, <1>15, <2>1 DEF EventInv
    <3> QED
      BY <2>1, <3>1 DEF Keeps
  <2>2. CASE y # q
    <3>0. phase[y] = "answered"
      BY <1>4, <1>15, <2>2
    <3>1. PICK t \in DOMAIN traces : traces[t].by = {y} /\ traces[t].answers # <<>>
      BY ONLY <3>0, EventInv, y \in Tops DEF EventInv
    <3>2. t \in DOMAIN traces' /\ traces'[t] = traces[t]
      BY <3>1 DEF Moves, Now
    <3> QED
      BY <3>1, <3>2
  <2> QED
    BY <2>1, <2>2
<1>16. ASSUME NEW y \in Tops, Asked(y), phase'[y] = "answered", NEW x \in Events, Top(x) = y PROVE registry'[x] = NoState
  <2>1. CASE y = q
    <3>1. e = q /\ to = "answered"
      BY <1>0, <1>16, <2>1 DEF EventInv
    <3> QED
      BY <1>16, <2>1, <3>1
  <2>2. CASE y # q
    BY <1>4, <1>6, <1>16, <2>2 DEF EventInv
  <2> QED
    BY <2>1, <2>2
<1>17. Now' \in Logs(EventState, Events, Events) /\ registry' \in [Queries!Ids -> Nat \cup {NoState}]
       /\ current' \in [EventContexts -> Nat \cup {NoState}]
  BY <1>2
<1> HIDE DEF EventEffect, s
<1> QED
  BY <1>3, <1>5, <1>7, <1>8, <1>9, <1>10, <1>12, <1>13, <1>14, <1>15, <1>16, <1>17
     DEF EventInv, Queries!Ids, Top, Tops, Asked

\* A query begins with a state of its own.
EventRootBegins(q, s, grown, new) ==
    /\ phase[q] = "waiting" /\ phase' = [phase EXCEPT ![q] = "open"]
    /\ s = Len(states) + 1 /\ grown = [states |-> Append(states, Queries!FreshState), traces |-> traces]
    /\ new \in Logs(EventState, Events, Events) /\ Moves(grown, new, s, q, {}) /\ Keeps(new, s, q)
    /\ Keeps(grown, s, q) /\ new.states[s].retrieved \subseteq {q}
    /\ states' = new.states /\ traces' = new.traces
    /\ registry' \in [Queries!Ids -> Nat \cup {NoState}] /\ current' \in [EventContexts -> Nat \cup {NoState}]
    /\ StateOf(q)' = s /\ \A y \in Tops : y # q => StateOf(y)' = StateOf(y)
    /\ \A x \in Events : x # q \/ ~Asked(q) => registry'[x] = registry[x]

LEMMA EventBegins ==
    ASSUME EventInv, NEW q \in Tops, NEW s, NEW grown, NEW new, EventRootBegins(q, s, grown, new)
    PROVE  EventInv'
<1> USE DEF EventRootBegins
<1>0. Now \in Logs(EventState, Events, Events) /\ Now.states = states /\ Now.traces = traces
  BY DEF EventInv, Now
<1>1. Queries!FreshState \in EventState
  BY DEF Queries!FreshState, EventState
<1>2. /\ s \notin DOMAIN states /\ grown.traces = traces
      /\ DOMAIN grown.states = DOMAIN states \cup {s} /\ \A i \in DOMAIN states : grown.states[i] = states[i]
      /\ \A i, y : Keeps(Now, i, y) => Keeps(grown, i, y)
  BY <1>0, <1>1, StateAdded
<1>3. s \in Nat /\ s # NoState
  BY <1>0, LogParts, StateAssumption
<1>4. Now' = new
  <2>1. new = [states |-> new.states, traces |-> new.traces]
    BY LogParts
  <2> QED
    BY <2>1 DEF Now
<1>5. q \in Events /\ Top(q) = q /\ Tops \subseteq Events
  BY EventRoot DEF Tops
<1>6. /\ phase' \in [Events -> {"waiting", "open", "done", "answered"}] /\ phase'[q] = "open"
      /\ \A x \in Events : x # q => phase'[x] = phase[x] /\ registry'[x] = registry[x]
  BY <1>5 DEF EventInv
<1>7. \A y \in Tops : y # q => phase'[y] = phase[y] /\ StateOf(y)' = StateOf(y) /\ (Bound(y)' <=> Bound(y))
  <2>1. ASSUME NEW y \in Tops, y # q PROVE phase'[y] = phase[y] /\ registry'[y] = registry[y] /\ StateOf(y)' = StateOf(y)
    BY <1>5, <1>6, <2>1
  <2> QED
    BY <2>1 DEF Bound
<1>8. ASSUME NEW x \in Events, phase'[x] = "open" PROVE phase'[Top(x)] = "open"
  <2>1. CASE x = q
    BY <1>5, <1>6, <2>1
  <2>2. CASE x # q
    <3>1. phase[Top(x)] = "open" /\ Top(x) \in Events
      BY <1>6, <1>8, <2>2, EventRoot DEF EventInv
    <3> QED
      BY <1>6, <3>1
  <2> QED
    BY <2>1, <2>2
<1>9. \A x \in Events : x # q /\ Top(x) = q => registry[x] = NoState
  BY <1>5 DEF EventInv
<1>10. ASSUME NEW x \in Events, phase'[x] = "waiting" PROVE registry'[x] = NoState
  BY <1>6, <1>10 DEF EventInv
<1>11. ASSUME NEW x \in Events, phase'[x] = "open", Asked(Top(x)) PROVE registry'[x] # NoState
  <2>1. CASE x = q
    BY <1>3, <1>5, <1>11, <2>1 DEF StateOf
  <2>2. CASE x # q
    BY <1>6, <1>11, <2>2 DEF EventInv
  <2> QED
    BY <2>1, <2>2
<1>12. ASSUME NEW x \in Events, registry'[x] # NoState PROVE Asked(Top(x)) /\ registry'[Top(x)] = registry'[x]
  <2>1. CASE x = q
    <3>1. ~Asked(q) => registry'[q] = NoState
      BY <1>5 DEF EventInv
    <3> QED
      BY <1>5, <1>12, <2>1, <3>1
  <2>2. CASE x # q
    <3>1. registry'[x] = registry[x] /\ Top(x) # q /\ Top(x) \in Events
      BY <1>6, <1>9, <1>12, <2>2, EventRoot
    <3> QED
      BY <1>6, <1>12, <3>1 DEF EventInv
  <2> QED
    BY <2>1, <2>2
<1>13. ASSUME NEW y \in Tops, ~Asked(y), phase'[y] = "waiting" PROVE StateOf(y)' = NoState
  BY <1>6, <1>7, <1>13 DEF EventInv
<1>14. ASSUME NEW y \in Tops, y # q, Bound(y)'
       PROVE  /\ Bound(y) /\ StateOf(y)' = StateOf(y) /\ StateOf(y) # s /\ StateOf(y) \in DOMAIN states
              /\ Keeps(Now, StateOf(y), y) /\ states[StateOf(y)].retrieved \subseteq {y}
  <2>1. Bound(y) /\ StateOf(y)' = StateOf(y)
    BY <1>7, <1>14
  <2>2. Keeps(Now, StateOf(y), y) /\ states[StateOf(y)].retrieved \subseteq {y}
    BY <2>1 DEF EventInv
  <2>3. StateOf(y) \in DOMAIN states
    BY <1>0, <2>2 DEF Keeps
  <2> QED
    BY <1>2, <2>1, <2>2, <2>3
<1>15. ASSUME NEW y \in Tops, NEW z \in Tops, Bound(y)', Bound(z)', StateOf(y)' = StateOf(z)' PROVE y = z
  <2>1. CASE y = q \/ z = q
    BY <1>14, <1>15, <2>1
  <2>2. CASE y # q /\ z # q
    BY <1>14, <1>15, <2>2 DEF EventInv
  <2> QED
    BY <2>1, <2>2
<1>16. ASSUME NEW y \in Tops, Bound(y)' PROVE Keeps(Now, StateOf(y), y)' /\ states'[StateOf(y)'].retrieved \subseteq {y}
  <2>1. CASE y = q
    BY <1>4, <2>1
  <2>2. CASE y # q
    <3>1. /\ StateOf(y)' = StateOf(y) /\ StateOf(y) # s /\ StateOf(y) \in DOMAIN states
          /\ Keeps(grown, StateOf(y), y) /\ states[StateOf(y)].retrieved \subseteq {y}
      BY <1>2, <1>14, <1>16, <2>2
    <3>2. Keeps(new, StateOf(y), y)
      BY <2>2, <3>1, OthersKeep
    <3>3. states'[StateOf(y)] = states[StateOf(y)]
      BY <1>2, <3>1 DEF Moves
    <3> QED
      BY <1>4, <3>1, <3>2, <3>3
  <2> QED
    BY <2>1, <2>2
<1>17. Apart(traces, TopsBegun)'
  <2>1. TopsBegun' = TopsBegun \cup {q}
    BY <1>5, <1>6 DEF TopsBegun, Tops
  <2>2. Apart(grown.traces, TopsBegun')
    BY <1>2, <2>1 DEF EventInv, Apart
  <2>3. q \in TopsBegun' /\ Moves(grown, new, s, q, {}) /\ Keeps(grown, s, q) /\ Keeps(new, s, q)
    BY <2>1
  <2> HIDE DEF EventRootBegins
  <2>4. Apart(new.traces, TopsBegun')
    BY <2>2, <2>3, StayApart
  <2>5. traces' = new.traces
    BY DEF EventRootBegins
  <2> QED
    BY <2>4, <2>5
<1>18. ASSUME NEW t \in DOMAIN traces PROVE t \in DOMAIN traces' /\ traces'[t] = traces[t]
  <2>0. PICK y \in TopsBegun : traces[t].by = {y}
    BY <1>18 DEF EventInv, Apart
  <2>1. traces[t].by # {q}
    BY <2>0 DEF TopsBegun
  <2> QED
    BY <1>2, <2>1 DEF Moves
<1>19. ASSUME NEW y \in Tops, phase'[y] = "answered"
       PROVE  \E t \in DOMAIN traces' : traces'[t].by = {y} /\ traces'[t].answers # <<>>
  <2>1. PICK t \in DOMAIN traces : traces[t].by = {y} /\ traces[t].answers # <<>>
    BY <1>6, <1>7, <1>19 DEF EventInv
  <2> QED
    BY <1>18, <2>1
<1>20. ASSUME NEW y \in Tops, Asked(y), phase'[y] = "answered", NEW x \in Events, Top(x) = y PROVE registry'[x] = NoState
  <2>1. y # q /\ phase[y] = "answered" /\ x # q
    BY <1>5, <1>6, <1>7, <1>20
  <2> QED
    BY <1>6, <1>20, <2>1 DEF EventInv
<1>21. Now' \in Logs(EventState, Events, Events) /\ registry' \in [Queries!Ids -> Nat \cup {NoState}]
       /\ current' \in [EventContexts -> Nat \cup {NoState}]
  BY <1>4
<1> HIDE DEF EventRootBegins
<1> QED
  BY <1>6, <1>8, <1>10, <1>11, <1>12, <1>13, <1>15, <1>16, <1>17, <1>19, <1>20, <1>21
     DEF EventInv, Queries!Ids, Top, Tops, Asked

\* What is retrieved for a query is noted in its state alone.
Noted(pair, s, q) == [pair EXCEPT !.states[s].retrieved = {q}]
LEMMA RetrievedNoted ==
    ASSUME NEW pair \in Logs(EventState, Events, Events), NEW s, NEW q \in Events, Keeps(pair, s, q),
           NEW new, new = Noted(pair, s, q)
    PROVE  /\ new \in Logs(EventState, Events, Events) /\ Keeps(new, s, q) /\ \A B : Moves(pair, new, s, q, B)
           /\ new.states[s].retrieved = {q} /\ new.states[s].trace = pair.states[s].trace
<1> DEFINE w == [pair.states[s] EXCEPT !.retrieved = {q}]
           noted == [pair.states EXCEPT ![s] = w]
<1>1. /\ pair.states \in Seq(EventState) /\ s \in DOMAIN pair.states /\ pair.states[s] \in EventState
      /\ pair.traces \in TraceLog(Events, Events)
  BY LogParts DEF Keeps
<1>2. /\ w \in EventState /\ w.retrieved = {q}
      /\ w.trace = pair.states[s].trace /\ w.answered = pair.states[s].answered
  BY <1>1 DEF EventState
<1>3. new = [states |-> noted, traces |-> pair.traces]
  <2>1. pair = [states |-> pair.states, traces |-> pair.traces]
    BY LogParts
  <2>2. new = [pair EXCEPT !.states = noted]
    BY DEF Noted
  <2> HIDE DEF noted
  <2> QED
    BY <2>1, <2>2
<1> HIDE DEF w
<1>4. /\ noted \in Seq(EventState) /\ DOMAIN noted = DOMAIN pair.states /\ noted[s] = w
      /\ \A i \in DOMAIN pair.states \ {s} : noted[i] = pair.states[i]
  BY <1>1, <1>2, Replaced
<1> HIDE DEF noted
<1>5. new \in Logs(EventState, Events, Events) /\ new.states = noted /\ new.traces = pair.traces
  BY <1>1, <1>3, <1>4, PairIsLog
<1>6. Keeps(new, s, q)
  BY <1>1, <1>2, <1>4, <1>5 DEF Keeps
<1>7. \A B : Moves(pair, new, s, q, B)
  BY <1>4, <1>5 DEF Moves
<1> QED
  BY <1>2, <1>4, <1>5, <1>6, <1>7

LEMMA RetrievedStays ==
    ASSUME NEW pair \in Logs(EventState, Events, Events), NEW s, NEW q, Keeps(pair, s, q)
    PROVE  /\ Ensured(pair, s, q).states[s].retrieved = pair.states[s].retrieved
           /\ \A p : Answered(pair, s, p).states[s].retrieved = pair.states[s].retrieved
<1>1. /\ pair.states \in Seq(EventState) /\ s \in DOMAIN pair.states /\ pair.states[s] \in EventState
      /\ pair = [states |-> pair.states, traces |-> pair.traces]
  BY LogParts DEF Keeps
<1>2. Ensured(pair, s, q).states[s].retrieved = pair.states[s].retrieved
  <2>1. CASE pair.states[s].trace # 0
    BY <2>1 DEF Ensured
  <2>2. CASE pair.states[s].trace = 0
    <3>1. Ensured(pair, s, q).states = [pair.states EXCEPT ![s].trace = Len(pair.traces) + 1]
      BY <2>2 DEF Ensured
    <3>2. Ensured(pair, s, q).states[s] = [pair.states[s] EXCEPT !.trace = Len(pair.traces) + 1]
      BY <1>1, <3>1
    <3> QED
      BY <1>1, <3>2 DEF EventState
  <2> QED
    BY <2>1, <2>2
<1>3. ASSUME NEW p PROVE Answered(pair, s, p).states[s].retrieved = pair.states[s].retrieved
  <2>1. Answered(pair, s, p).states = [pair.states EXCEPT ![s].answered = TRUE]
    <3> DEFINE given == [pair.traces EXCEPT ![pair.states[s].trace].answers = Append(@, p)]
               marked == [pair.states EXCEPT ![s].answered = TRUE]
    <3>1. Answered(pair, s, p) = [[pair EXCEPT !.traces = given] EXCEPT !.states = marked]
      BY <1>1 DEF Answered
    <3> HIDE DEF given, marked
    <3>2. Answered(pair, s, p).states = marked
      BY <1>1, <3>1
    <3> QED
      BY <3>2 DEF marked
  <2>2. Answered(pair, s, p).states[s] = [pair.states[s] EXCEPT !.answered = TRUE]
    BY <1>1, <2>1
  <2> QED
    BY <1>1, <2>2 DEF EventState
<1> QED
  BY <1>2, <1>3

\* The handler's steps, for an event of the query q.
LEMMA EventWrites ==
    ASSUME NEW e \in Events, NEW q, q = Top(e), NEW pair \in Logs(EventState, Events, Events), NEW s, Keeps(pair, s, q)
    PROVE  /\ Queries!EnsureTrace(pair, s, e) = Ensured(pair, s, q)
           /\ pair.states[s].trace # 0 => Queries!Write(pair, s, {q}) = pair
<1>1. Queries!Query[e] = q /\ q \in Events
  BY QueryOf, EventRoot
<1>2. Queries!EnsureTrace(pair, s, e) = Ensured(pair, s, q)
  BY <1>1 DEF Queries!EnsureTrace, Ensured
<1>3. ASSUME pair.states[s].trace # 0 PROVE Queries!Write(pair, s, {q}) = pair
  <2>1. Wrote(pair, s, q) = pair
    BY <1>1, <1>3, OwnerWritten
  <2> QED
    BY <2>1 DEF Queries!Write, Wrote
<1> QED
  BY <1>2, <1>3

LEMMA EventRetrieved ==
    ASSUME NEW e \in Events, NEW q, q = Top(e), NEW pair \in Logs(EventState, Events, Events), NEW s, Keeps(pair, s, q),
           NEW new, new = Queries!LogRetrieved(pair, s, e)
    PROVE  /\ new \in Logs(EventState, Events, Events) /\ Keeps(new, s, q) /\ \A B : Moves(pair, new, s, q, B)
           /\ new.states[s].retrieved \subseteq {q}
<1> DEFINE noted == Noted(pair, s, q)
           ensured == Ensured(noted, s, q)
<1>1. Queries!Query[e] = q /\ q \in Events
  BY QueryOf, EventRoot
<1>2. /\ noted \in Logs(EventState, Events, Events) /\ Keeps(noted, s, q) /\ \A B : Moves(pair, noted, s, q, B)
      /\ noted.states[s].retrieved = {q} /\ noted.states[s].trace = pair.states[s].trace
  BY <1>1, RetrievedNoted
<1>3. new = Queries!Write(Queries!EnsureTrace(noted, s, e), s, {q})
  BY <1>1 DEF Queries!LogRetrieved, Noted
<1> HIDE DEF noted
<1>4. /\ ensured \in Logs(EventState, Events, Events) /\ Keeps(ensured, s, q) /\ \A B : Moves(noted, ensured, s, q, B)
      /\ ensured.states[s].trace # 0 /\ (noted.states[s].trace # 0 => ensured = noted)
  BY <1>1, <1>2, EventStateType, EnsuredKeeps
<1>5. ensured.states[s].retrieved = {q}
  BY <1>2, RetrievedStays
<1>6. Queries!EnsureTrace(noted, s, e) = ensured
  BY <1>2, EventWrites
<1> HIDE DEF ensured
<1>7. new = ensured
  BY <1>3, <1>4, <1>6, EventWrites
<1>8. ASSUME NEW B PROVE Moves(pair, ensured, s, q, B)
  <2>1. 0 \notin DOMAIN noted.traces
    <3>1. DOMAIN noted.traces = 1..Len(noted.traces)
      BY <1>2, LogParts
    <3> QED
      BY <3>1
  <2> QED
    BY <1>2, <1>4, <2>1, MoveOn
<1> QED
  BY <1>4, <1>5, <1>7, <1>8

Response(e, q, pair, s, text, new) ==
    /\ e \in Events /\ q = Top(e) /\ pair \in Logs(EventState, Events, Events) /\ Keeps(pair, s, q)
    /\ pair.states[s].retrieved \subseteq {q} /\ text \in BOOLEAN
    /\ new = Queries!LogResponse(pair, s, e, text)

LEMMA EventResponded ==
    ASSUME NEW e, NEW q, NEW pair, NEW s, NEW text, NEW new, Response(e, q, pair, s, text, new)
    PROVE  /\ new \in Logs(EventState, Events, Events) /\ Keeps(new, s, q) /\ Moves(pair, new, s, q, {e})
           /\ new.states[s].retrieved \subseteq {q} /\ (text => new.states[s].answered)
<1> USE DEF Response
<1> DEFINE ensured == Ensured(pair, s, q)
           answer == Answered(ensured, s, e)
<1>1. Queries!Query[e] = q /\ q \in Events
  BY QueryOf, EventRoot
<1>2. /\ ensured \in Logs(EventState, Events, Events) /\ Keeps(ensured, s, q) /\ Moves(pair, ensured, s, q, {e})
      /\ ensured.states[s].trace # 0 /\ (pair.states[s].trace # 0 => ensured = pair)
  BY <1>1, EventStateType, EnsuredKeeps
<1>3. ensured.states[s].retrieved \subseteq {q}
  BY RetrievedStays
<1>4. pair.states[s].retrieved \cup {q} = {q}
  OBVIOUS
<1>5. Queries!EnsureTrace(pair, s, e) = ensured
  <2>1. e \in Events /\ q = Top(e) /\ pair \in Logs(EventState, Events, Events) /\ Keeps(pair, s, q)
    BY DEF Response
  <2> HIDE DEF Response
  <2> QED
    BY <2>1, EventWrites
<1> HIDE DEF ensured
<1>6. Queries!Write(ensured, s, {q}) = ensured
  BY <1>2, EventWrites
<1>7. new = IF text /\ ~ensured.states[s].answered THEN answer ELSE ensured
  BY <1>1, <1>4, <1>5, <1>6 DEF Queries!LogResponse, Answered
<1>8. CASE text /\ ~ensured.states[s].answered
  <2>0. new = answer
    BY <1>7, <1>8
  <2> HIDE DEF answer
  <2>1. /\ answer \in Logs(EventState, Events, Events) /\ Keeps(answer, s, q) /\ Moves(ensured, answer, s, q, {e})
        /\ answer.states[s].trace = ensured.states[s].trace /\ answer.states[s].answered
    BY <1>1, <1>2, <1>8, EventStateType, AnsweredKeeps DEF answer
  <2>2. answer.states[s].retrieved = ensured.states[s].retrieved
    BY <1>2, RetrievedStays DEF answer
  <2>3. 0 \notin DOMAIN ensured.traces
    <3>1. DOMAIN ensured.traces = 1..Len(ensured.traces)
      BY <1>2, LogParts
    <3> QED
      BY <3>1
  <2>4. Moves(pair, answer, s, q, {e})
    BY <1>2, <2>1, <2>3, MoveOn
  <2> QED
    BY <1>3, <2>0, <2>1, <2>2, <2>4
<1>9. CASE ~(text /\ ~ensured.states[s].answered)
  <2>1. new = ensured /\ (text => ensured.states[s].answered)
    BY <1>7, <1>9
  <2> QED
    BY <1>2, <1>3, <2>1
<1> QED
  BY <1>8, <1>9

\* What the handler finds in a callback of an open query.
LEMMA EventWorks ==
    ASSUME EventInv, NEW e \in Events, NEW q, q = Top(e), phase[q] = "open", Asked(q), NEW s, s = registry[q]
    PROVE  /\ q \in Tops /\ q \in Events /\ s \in Nat /\ s # NoState /\ s = StateOf(q)
           /\ Keeps(Now, s, q) /\ Now.states[s].retrieved \subseteq {q} /\ Now \in Logs(EventState, Events, Events)
           /\ Queries!Log(s) = Now
           /\ phase[e] = "waiting" /\ e # q => \A x : Queries!StateFor(e, {EventParent[e]}, x, FALSE) = s
<1>1. q \in Tops /\ q \in Events /\ Top(q) = q
  BY EventRoot
<1>2. s # NoState /\ s \in Nat /\ s = StateOf(q) /\ Bound(q)
  BY <1>1, EventRoot DEF EventInv, StateOf, Bound
<1>3. Keeps(Now, s, q) /\ Now.states[s].retrieved \subseteq {q} /\ Now \in Logs(EventState, Events, Events)
  BY <1>1, <1>2 DEF EventInv, Now
<1>4. Queries!Log(s) = Now
  <2>1. s \in DOMAIN Now.states /\ Now.states = states
    BY <1>3 DEF Keeps, Now
  <2>2. DOMAIN Now.states = 1..Len(Now.states) /\ Len(Now.states) \in Nat
    BY <1>3, LogParts
  <2>3. ~(s > Len(states))
    BY <2>1, <2>2
  <2> QED
    BY <2>3 DEF Queries!Log, Now
<1>5. ASSUME phase[e] = "waiting", e # q, NEW x PROVE Queries!StateFor(e, {EventParent[e]}, x, FALSE) = s
  <2>1. registry[e] = NoState /\ EventParent[e] = q
    BY <1>5, EventRoot DEF EventInv, Top
  <2>2. {i \in {e} : registry[i] # NoState} = {} /\ {i \in {EventParent[e]} : registry[i] # NoState} = {q}
    BY <1>2, <2>1
  <2>3. (CHOOSE i \in {q} : TRUE) = q
    OBVIOUS
  <2> QED
    BY <2>2, <2>3 DEF Queries!StateFor
<1> QED
  BY <1>1, <1>2, <1>3, <1>4, <1>5

LEMMA EventFound ==
    ASSUME EventInv, NEW e \in Events, NEW q, q = Top(e), phase[q] = "open", Asked(q), NEW s, s = registry[q],
           phase[e] = "open", NEW x
    PROVE  Queries!StateFor(e, {}, x, FALSE) = s
<1>1. registry[e] # NoState /\ registry[e] = s
  BY DEF EventInv
<1> QED
  BY <1>1 DEF Queries!StateFor

\* The entries after a callback, kept or released.
LEMMA EventEntries ==
    ASSUME EventInv, NEW e \in Events, NEW q, q = Top(e), phase[q] = "open", Asked(q), NEW s, s = registry[q],
           NEW P, P = {} \/ P = {q}, NEW entries, entries = Queries!Activate(e, P, s)
    PROVE  /\ entries \in [Queries!Ids -> Nat \cup {NoState}] /\ entries[q] = s /\ entries[e] = s
           /\ \A y \in Events : y # e /\ y # q => entries[y] = registry[y]
           /\ \A y \in Events : Top(y) # q => entries[y] = registry[y] /\ registry[y] # s
           /\ \A y \in Events : Top(y) = q => entries[y] = NoState \/ entries[y] = s
<1>1. q \in Tops /\ q \in Events /\ Top(q) = q /\ s # NoState /\ s \in Nat /\ s = StateOf(q) /\ Bound(q)
  <2>1. q \in Tops /\ q \in Events /\ Top(q) = q
    BY EventRoot
  <2>2. s # NoState /\ s \in Nat
    BY EventWorks
  <2> QED
    BY <2>1, <2>2 DEF StateOf, Bound
<1>2. entries = [y \in Queries!Ids |-> IF y = e \/ y \in P THEN s ELSE registry[y]]
  BY DEF Queries!Activate
<1>3. entries \in [Queries!Ids -> Nat \cup {NoState}]
  BY <1>1, <1>2 DEF EventInv
<1>4. Events \subseteq Queries!Ids
  BY EventRoot
<1>5. entries[q] = s /\ entries[e] = s
  BY <1>1, <1>2, <1>4
<1>6. \A y \in Events : y # e /\ y # q => entries[y] = registry[y]
  BY <1>2, <1>4
<1>7. ASSUME NEW y \in Events, Top(y) # q PROVE entries[y] = registry[y] /\ registry[y] # s
  <2>1. y # e /\ y # q
    BY <1>1, <1>7
  <2>2. registry[y] # s
    <3>1. SUFFICES ASSUME registry[y] = s PROVE FALSE
      OBVIOUS
    <3>2. Asked(Top(y)) /\ registry[Top(y)] = s /\ Top(y) \in Tops
      BY <1>1, <3>1, EventRoot DEF EventInv
    <3>3. Bound(Top(y)) /\ StateOf(Top(y)) = s
      BY <1>1, <3>2 DEF Bound, StateOf
    <3> QED
      BY <1>1, <1>7, <3>2, <3>3 DEF EventInv
  <2> QED
    BY <1>6, <2>1, <2>2
<1>8. ASSUME NEW y \in Events, Top(y) = q PROVE entries[y] = NoState \/ entries[y] = s
  BY <1>2, <1>4, <1>8 DEF EventInv
<1> QED
  BY <1>3, <1>5, <1>6, <1>7, <1>8

LEMMA EventReleased ==
    ASSUME EventInv, NEW e \in Events, NEW q, q = Top(e), phase[q] = "open", Asked(q), NEW s, s = registry[q],
           NEW left, left = Queries!Release(Queries!Activate(e, {}, s), s)
    PROVE  /\ left \in [Queries!Ids -> Nat \cup {NoState}]
           /\ \A y \in Events : Top(y) # q => left[y] = registry[y]
           /\ \A y \in Events : Top(y) = q => left[y] = NoState
<1> DEFINE entries == Queries!Activate(e, {}, s)
<1>1. /\ entries \in [Queries!Ids -> Nat \cup {NoState}]
      /\ \A y \in Events : Top(y) # q => entries[y] = registry[y] /\ registry[y] # s
      /\ \A y \in Events : Top(y) = q => entries[y] = NoState \/ entries[y] = s
  BY EventEntries
<1>2. Events \subseteq Queries!Ids
  BY EventRoot
<1> HIDE DEF entries
<1>3. left = [y \in Queries!Ids |-> IF entries[y] = s THEN NoState ELSE entries[y]]
  BY DEF Queries!Release, entries
<1> QED
  BY <1>1, <1>2, <1>3

\* A callback of an open query, or the start of what is nested in it.
EventCall(e, q, s, to, x, new, B) ==
    /\ q = Top(e) /\ phase[q] = "open" /\ Asked(q) /\ s = registry[q] /\ x \in EventContexts /\ x \in EventWhere[e]
    /\ to \in {"open", "done", "answered"} /\ Queries!Goes(e, to)
    /\ e = q => to # "open" /\ \A y \in Events : EventParent[y] = e => phase[y] # "open"
    /\ new \in Logs(EventState, Events, Events) /\ Moves(Now, new, s, q, B)
    /\ Keeps(new, s, q) /\ new.states[s].retrieved \subseteq {q}
    /\ \/ /\ \E P \in {{}, {q}} : Queries!Becomes(new, Queries!Activate(e, P, s), x, s)
          /\ ~(e = q /\ to = "answered")
       \/ Queries!Becomes(new, Queries!Release(Queries!Activate(e, {}, s), s), x, s) /\ e = q
    /\ e = q /\ to = "answered" => new.states[s].answered

LEMMA EventGoesOn ==
    ASSUME EventInv, NEW e \in Events, NEW q, NEW s, NEW to, NEW x, NEW new, NEW B, EventCall(e, q, s, to, x, new, B)
    PROVE  EventInv'
<1>1. /\ q = Top(e) /\ phase[q] = "open" /\ Asked(q) /\ s = registry[q] /\ x \in EventContexts /\ x \in EventWhere[e]
      /\ to \in {"open", "done", "answered"} /\ phase' = [phase EXCEPT ![e] = to]
      /\ states' = new.states /\ traces' = new.traces /\ current' = [current EXCEPT ![x] = s]
  BY DEF EventCall, Queries!Becomes, Queries!Goes
<1>2. /\ q \in Tops /\ q \in Events /\ Top(q) = q /\ s \in Nat /\ s = StateOf(q)
  BY <1>1, EventWorks, EventRoot
<1>3. current' \in [EventContexts -> Nat \cup {NoState}]
  BY <1>1, <1>2 DEF EventInv
<1>4. phase'[e] = to /\ \A y \in Events : y # e => phase'[y] = phase[y]
  BY <1>1 DEF EventInv
<1>5. ASSUME NEW y \in Tops, ~Asked(y) PROVE current'[HomeOf(y)] = current[HomeOf(y)]
  <2>1. y \in Events /\ y # e /\ EventKind[y] = "manual"
    BY <1>1, <1>2, <1>5, EventRoot DEF Tops, Asked
  <2>2. HomeOf(y) \in EventContexts /\ HomeOf(y) # x
    BY <1>1, <2>1, EventRoot
  <2> QED
    BY <1>1, <2>2 DEF EventInv
<1>6. CASE /\ ~(e = q /\ to = "answered")
           /\ \E P \in {{}, {q}} : Queries!Becomes(new, Queries!Activate(e, P, s), x, s)
  <2>1. PICK P \in {{}, {q}} : Queries!Becomes(new, Queries!Activate(e, P, s), x, s)
    BY <1>6
  <2>2. registry' = Queries!Activate(e, P, s)
    BY <2>1 DEF Queries!Becomes
  <2>3. /\ registry' \in [Queries!Ids -> Nat \cup {NoState}] /\ registry'[q] = s /\ registry'[e] = s
        /\ \A y \in Events : y # e /\ y # q => registry'[y] = registry[y]
        /\ \A y \in Events : Top(y) # q => registry'[y] = registry[y]
        /\ \A y \in Events : Top(y) = q => registry'[y] = NoState \/ registry'[y] = s
    BY <1>1, <2>1, <2>2, EventEntries
  <2>4. \A y \in Tops : y # q => StateOf(y)' = StateOf(y)
    BY <1>5, <2>3, EventRoot DEF StateOf, Tops
  <2>5. StateOf(q)' = s
    BY <1>1, <2>3 DEF StateOf
  <2>6. ASSUME NEW y \in Events, Top(y) = q
        PROVE  /\ phase'[y] = "open" => registry'[y] # NoState
               /\ phase'[y] = "waiting" => registry'[y] = NoState
    <3>1. CASE y = e \/ y = q
      <4>1. registry'[y] = s /\ s # NoState
        BY <1>2, <2>3, <3>1, StateAssumption
      <4>2. phase'[y] # "waiting"
        BY <1>1, <1>2, <1>4, <3>1
      <4> QED
        BY <4>1, <4>2
    <3>2. CASE y # e /\ y # q
      BY <1>1, <1>4, <2>3, <2>6, <3>2 DEF EventInv
    <3> QED
      BY <3>1, <3>2
  <2>7. EventEffect(e, q, to, new, B, FALSE)
    BY <1>1, <1>2, <1>3, <1>6, <2>3, <2>4, <2>5, <2>6 DEF EventEffect, EventCall
  <2> QED
    BY <2>7, EventCallback
<1>7. CASE Queries!Becomes(new, Queries!Release(Queries!Activate(e, {}, s), s), x, s) /\ e = q
  <2>1. registry' = Queries!Release(Queries!Activate(e, {}, s), s)
    BY <1>7 DEF Queries!Becomes
  <2>2. /\ registry' \in [Queries!Ids -> Nat \cup {NoState}]
        /\ \A y \in Events : Top(y) # q => registry'[y] = registry[y]
        /\ \A y \in Events : Top(y) = q => registry'[y] = NoState
    BY <1>1, <2>1, EventReleased
  <2>3. \A y \in Tops : y # q => StateOf(y)' = StateOf(y)
    BY <1>5, <2>2, EventRoot DEF StateOf, Tops
  <2>4. EventEffect(e, q, to, new, B, TRUE)
    BY <1>1, <1>2, <1>3, <1>7, <2>2, <2>3 DEF EventEffect, EventCall
  <2> QED
    BY <2>4, EventCallback
<1> QED
  BY <1>6, <1>7 DEF EventCall

\* The handler's state of its own for what begins.
LEMMA EventNewState ==
    ASSUME EventInv, NEW q \in Tops, phase[q] = "waiting", NEW s, s = Len(states) + 1,
           NEW grown, grown = [states |-> Append(states, Queries!FreshState), traces |-> traces]
    PROVE  /\ grown \in Logs(EventState, Events, Events) /\ Keeps(grown, s, q) /\ Moves(grown, grown, s, q, {})
           /\ grown.states[s].retrieved \subseteq {q} /\ Queries!Log(s) = grown /\ s \in Nat
           /\ LET new == Ensured(grown, s, q)
              IN /\ new \in Logs(EventState, Events, Events) /\ Keeps(new, s, q) /\ Moves(grown, new, s, q, {})
                 /\ new.states[s].retrieved \subseteq {q} /\ Queries!EnsureTrace(grown, s, q) = new
<1>1. Now \in Logs(EventState, Events, Events) /\ Now.states = states /\ Now.traces = traces
  BY DEF EventInv, Now
<1>2. /\ Queries!FreshState \in EventState /\ Queries!FreshState.trace = 0
      /\ ~Queries!FreshState.answered /\ Queries!FreshState.retrieved = {}
  BY DEF Queries!FreshState, EventState
<1>3. /\ grown \in Logs(EventState, Events, Events) /\ grown.traces = traces
      /\ s \in DOMAIN grown.states /\ grown.states[s] = Queries!FreshState
  BY <1>1, <1>2, StateAdded
<1>4. Len(states) \in Nat
  BY <1>1, LogParts
<1>5. Queries!Log(s) = grown
  <2>1. s > Len(states)
    BY <1>4
  <2> QED
    BY <2>1 DEF Queries!Log
<1>6. Keeps(grown, s, q)
  <2>1. ASSUME NEW u \in DOMAIN traces PROVE traces[u].by # {q}
    <3>1. PICK y \in TopsBegun : traces[u].by = {y}
      BY <2>1 DEF EventInv, Apart
    <3> QED
      BY <3>1 DEF TopsBegun
  <2> QED
    BY <1>2, <1>3, <2>1 DEF Keeps
<1>7. Moves(grown, grown, s, q, {})
  BY NoMove
<1>8. q \in Events /\ q = Top(q)
  BY EventRoot DEF Tops
<1> DEFINE new == Ensured(grown, s, q)
<1>9. new \in Logs(EventState, Events, Events) /\ Keeps(new, s, q) /\ Moves(grown, new, s, q, {})
  BY <1>3, <1>6, <1>8, EventStateType, EnsuredKeeps
<1>10. new.states[s].retrieved = grown.states[s].retrieved
  BY <1>3, <1>6, RetrievedStays
<1>11. Queries!EnsureTrace(grown, s, q) = new
  BY <1>3, <1>6, <1>8, EventWrites
<1> HIDE DEF new
<1>12. grown.states[s].retrieved \subseteq {q} /\ new.states[s].retrieved \subseteq {q}
  BY <1>2, <1>3, <1>10
<1>13. s \in Nat
  BY <1>4
<1> QED
  BY <1>3, <1>5, <1>6, <1>7, <1>9, <1>11, <1>12, <1>13 DEF new

LEMMA EventStartStep ==
    ASSUME EventInv, NEW e \in Events, NEW x \in EventContexts, Queries!EventStart(e, x)
    PROVE  EventInv'
<1>1. /\ EventKind[e] # "manual" /\ phase[e] = "waiting" /\ x \in EventWhere[e] /\ Queries!Goes(e, "open")
      /\ EventParent[e] # Base => phase[EventParent[e]] = "open"
  BY DEF Queries!EventStart, Queries!MayStart, Queries!Open
<1>2. CASE e \in Tops
  <2> DEFINE s == Len(states) + 1
             grown == [states |-> Append(states, Queries!FreshState), traces |-> traces]
  <2>1. registry[e] = NoState /\ EventParent[e] = Base /\ Top(e) = e /\ EventKind[e] = "query" /\ Asked(e)
    BY <1>1, <1>2, EventRoot DEF EventInv, Tops, Asked
  <2>2. Queries!StateFor(e, {EventParent[e]}, x, TRUE) = s
    BY <2>1 DEF Queries!StateFor
  <2>3. /\ grown \in Logs(EventState, Events, Events) /\ Keeps(grown, s, e) /\ Moves(grown, grown, s, e, {})
        /\ grown.states[s].retrieved \subseteq {e} /\ Queries!Log(s) = grown /\ s \in Nat
    BY <1>1, <1>2, EventNewState
  <2>4. LET new == Ensured(grown, s, e)
        IN /\ new \in Logs(EventState, Events, Events) /\ Keeps(new, s, e) /\ Moves(grown, new, s, e, {})
           /\ new.states[s].retrieved \subseteq {e} /\ Queries!EnsureTrace(grown, s, e) = new
    BY <1>1, <1>2, EventNewState
  <2> HIDE DEF s, grown
  <2>5. PICK new \in Logs(EventState, Events, Events) :
           /\ Moves(grown, new, s, e, {}) /\ Keeps(new, s, e) /\ new.states[s].retrieved \subseteq {e}
           /\ Queries!Becomes(new, Queries!Activate(e, {EventParent[e]}, s), x, s)
    <3>1. \/ Queries!Becomes(Ensured(grown, s, e), Queries!Activate(e, {EventParent[e]}, s), x, s)
          \/ Queries!Becomes(grown, Queries!Activate(e, {EventParent[e]}, s), x, s)
      BY <2>1, <2>2, <2>3, <2>4 DEF Queries!EventStart
    <3> QED
      BY <2>3, <2>4, <3>1
  <2>6. /\ states' = new.states /\ traces' = new.traces /\ current' = [current EXCEPT ![x] = s]
        /\ registry' = [i \in Queries!Ids |-> IF i = e \/ i = Base THEN s ELSE registry[i]]
    BY <2>1, <2>5 DEF Queries!Becomes, Queries!Activate
  <2>7. registry' \in [Queries!Ids -> Nat \cup {NoState}] /\ current' \in [EventContexts -> Nat \cup {NoState}]
    BY <2>3, <2>6 DEF EventInv
  <2>8. \A y \in Events : /\ y \in Queries!Ids
                          /\ y # e => registry'[y] = registry[y]
                          /\ y = e => registry'[y] = s
    BY <2>6, EventRoot
  <2>9. StateOf(e)' = s
    BY <2>1, <2>8 DEF StateOf
  <2>10. ASSUME NEW y \in Tops, y # e PROVE StateOf(y)' = StateOf(y)
    <3>1. y \in Events
      BY DEF Tops
    <3>2. CASE Asked(y)
      BY <2>8, <2>10, <3>1, <3>2 DEF StateOf
    <3>3. CASE ~Asked(y)
      <4>1. EventKind[y] = "manual"
        BY <3>1, <3>3, EventRoot DEF Asked
      <4>2. HomeOf(y) \in EventContexts /\ HomeOf(y) # x
        BY <1>1, <2>10, <3>1, <4>1, EventRoot
      <4>3. current'[HomeOf(y)] = current[HomeOf(y)]
        BY <2>6, <4>2 DEF EventInv
      <4> QED
        BY <3>3, <4>3 DEF StateOf
    <3> QED
      BY <3>2, <3>3
  <2>11. EventRootBegins(e, s, grown, new)
    BY <1>1, <2>1, <2>3, <2>5, <2>6, <2>7, <2>8, <2>9, <2>10 DEF EventRootBegins, Queries!Goes, s, grown
  <2> QED
    BY <1>2, <2>11, EventBegins
<1>3. CASE e \notin Tops
  <2> DEFINE q == Top(e)
             s == registry[q]
  <2>1. q = EventParent[e] /\ e # q /\ phase[q] = "open" /\ Asked(q) /\ EventKind[e] # "query"
    BY <1>1, <1>3, EventRoot DEF Tops
  <2>0. q = Top(e) /\ s = registry[q]
    OBVIOUS
  <2> HIDE DEF q, s
  <2>2. /\ Keeps(Now, s, q) /\ Now.states[s].retrieved \subseteq {q} /\ Now \in Logs(EventState, Events, Events)
        /\ Queries!Log(s) = Now /\ Queries!StateFor(e, {EventParent[e]}, x, FALSE) = s
    BY <1>1, <2>0, <2>1, EventWorks
  <2>3. Moves(Now, Now, s, q, {})
    BY NoMove
  <2>4. Queries!Becomes(Now, Queries!Activate(e, {q}, s), x, s)
    BY <2>1, <2>2 DEF Queries!EventStart
  <2>5. EventCall(e, q, s, "open", x, Now, {})
    BY <1>1, <2>1, <2>2, <2>3, <2>4 DEF EventCall, q, s
  <2> QED
    BY <2>5, EventGoesOn
<1> QED
  BY <1>2, <1>3

LEMMA RetrieveEndStep ==
    ASSUME EventInv, NEW e \in Events, NEW x \in EventContexts, Queries!RetrieveEnd(e, x)
    PROVE  EventInv'
<1> DEFINE q == Top(e)
           s == registry[q]
           new == Queries!LogRetrieved(Now, s, e)
<1>1. EventKind[e] = "retrieve" /\ phase[e] = "open" /\ x \in EventWhere[e] /\ Queries!Goes(e, "done")
  BY DEF Queries!RetrieveEnd, Queries!MayEnd, Queries!Open
<1>2. e # q /\ Asked(q) /\ phase[q] = "open"
  BY <1>1, EventRoot DEF EventInv
<1>0. q = Top(e) /\ s = registry[q]
  OBVIOUS
<1> HIDE DEF q, s
<1>3. /\ Keeps(Now, s, q) /\ Now \in Logs(EventState, Events, Events)
      /\ Queries!Log(s) = Now /\ Queries!StateFor(e, {}, x, FALSE) = s
  <2>1. Keeps(Now, s, q) /\ Now \in Logs(EventState, Events, Events) /\ Queries!Log(s) = Now
    BY <1>0, <1>1, <1>2, EventWorks
  <2>2. Queries!StateFor(e, {}, x, FALSE) = s
    BY <1>0, <1>1, <1>2, EventFound
  <2> QED
    BY <2>1, <2>2
<1>4. /\ new \in Logs(EventState, Events, Events) /\ Keeps(new, s, q) /\ Moves(Now, new, s, q, {})
      /\ new.states[s].retrieved \subseteq {q}
  BY <1>0, <1>3, EventRetrieved
<1>5. Queries!Becomes(new, Queries!Activate(e, {}, s), x, s)
  BY <1>3 DEF Queries!RetrieveEnd
<1> HIDE DEF new
<1>6. EventCall(e, q, s, "done", x, new, {})
  BY <1>1, <1>2, <1>4, <1>5 DEF EventCall, q, s
<1> QED
  BY <1>6, EventGoesOn

LEMMA ResponseEndStep ==
    ASSUME EventInv, NEW e \in Events, NEW x \in EventContexts, Queries!ResponseEnd(e, x)
    PROVE  EventInv'
<1> DEFINE q == Top(e)
           s == registry[q]
<1>1. /\ EventKind[e] \in {"query", "synthesize"} /\ phase[e] = "open" /\ x \in EventWhere[e]
      /\ \A y \in Events : EventParent[y] = e => phase[y] # "open"
  BY DEF Queries!ResponseEnd, Queries!MayEnd, Queries!Open
<1>2. Asked(q) /\ phase[q] = "open" /\ (EventKind[e] = "query" <=> e = q)
  BY <1>1, EventRoot DEF EventInv, Asked
<1>0. q = Top(e) /\ s = registry[q]
  OBVIOUS
<1> HIDE DEF q, s
<1>3. /\ Keeps(Now, s, q) /\ Now.states[s].retrieved \subseteq {q} /\ Now \in Logs(EventState, Events, Events)
      /\ Queries!Log(s) = Now /\ Queries!StateFor(e, {}, x, FALSE) = s
  <2>1. /\ Keeps(Now, s, q) /\ Now.states[s].retrieved \subseteq {q} /\ Now \in Logs(EventState, Events, Events)
        /\ Queries!Log(s) = Now
    BY <1>0, <1>1, <1>2, EventWorks
  <2>2. Queries!StateFor(e, {}, x, FALSE) = s
    BY <1>0, <1>1, <1>2, EventFound
  <2> QED
    BY <2>1, <2>2
<1>4. PICK text \in BOOLEAN :
         /\ Queries!Goes(e, IF text THEN "answered" ELSE "done")
         /\ Queries!Becomes(Queries!LogResponse(Now, s, e, text),
                            IF EventKind[e] = "query" /\ Queries!LogResponse(Now, s, e, text).states[s].answered
                            THEN Queries!Release(Queries!Activate(e, {}, s), s) ELSE Queries!Activate(e, {}, s), x, s)
  BY <1>3 DEF Queries!ResponseEnd
<1> DEFINE new == Queries!LogResponse(Now, s, e, text)
           to == IF text THEN "answered" ELSE "done"
<1>5. /\ new \in Logs(EventState, Events, Events) /\ Keeps(new, s, q) /\ Moves(Now, new, s, q, {e})
      /\ new.states[s].retrieved \subseteq {q} /\ (text => new.states[s].answered)
  <2>1. Response(e, q, Now, s, text, new)
    BY <1>0, <1>3 DEF Response
  <2> HIDE DEF new
  <2> QED
    BY <2>1, EventResponded
<1>6. to \in {"open", "done", "answered"} /\ to # "open" /\ (to = "answered" => text) /\ Queries!Goes(e, to)
  BY <1>4
<1> HIDE DEF to
<1>7. CASE e = q /\ new.states[s].answered
  <2>1. Queries!Becomes(new, Queries!Release(Queries!Activate(e, {}, s), s), x, s)
    BY <1>2, <1>4, <1>7
  <2> HIDE DEF new
  <2>2. EventCall(e, q, s, to, x, new, {e})
    BY <1>1, <1>2, <1>5, <1>6, <1>7, <2>1 DEF EventCall, q, s
  <2> QED
    BY <2>2, EventGoesOn
<1>8. CASE ~(e = q /\ new.states[s].answered)
  <2>1. Queries!Becomes(new, Queries!Activate(e, {}, s), x, s)
    BY <1>2, <1>4, <1>8
  <2> HIDE DEF new
  <2>2. EventCall(e, q, s, to, x, new, {e})
    BY <1>1, <1>2, <1>5, <1>6, <1>8, <2>1 DEF EventCall, q, s
  <2> QED
    BY <2>2, EventGoesOn
<1> QED
  BY <1>7, <1>8

\* What is traced by hand.
LEMMA ByHand ==
    ASSUME EventInv, NEW e \in Events, NEW x \in EventContexts, EventKind[e] = "manual", x \in EventWhere[e], NEW s,
           registry' = registry, current' = [current EXCEPT ![x] = s]
    PROVE  /\ e \in Tops /\ Top(e) = e /\ ~Asked(e) /\ StateOf(e) = current[x] /\ StateOf(e)' = s
           /\ \A y \in Tops : y # e => StateOf(y)' = StateOf(y)
<1>1. e \in Tops /\ Top(e) = e /\ ~Asked(e) /\ x = HomeOf(e)
  BY EventRoot
<1>2. current'[x] = s /\ \A z \in EventContexts : z # x => current'[z] = current[z]
  BY DEF EventInv
<1>3. ASSUME NEW y \in Tops, y # e PROVE StateOf(y)' = StateOf(y)
  <2>1. CASE Asked(y)
    BY <2>1 DEF StateOf
  <2>2. CASE ~Asked(y)
    <3>1. y \in Events /\ EventKind[y] = "manual"
      BY <2>2, EventRoot DEF Tops, Asked
    <3>2. HomeOf(y) \in EventContexts /\ HomeOf(y) # x
      BY <1>3, <3>1, EventRoot
    <3> QED
      BY <1>2, <2>2, <3>2 DEF StateOf
  <2> QED
    BY <2>1, <2>2
<1> QED
  BY <1>1, <1>2, <1>3 DEF StateOf

LEMMA TraceQueryStep ==
    ASSUME EventInv, NEW e \in Events, NEW x \in EventContexts, Queries!TraceQuery(e, x)
    PROVE  EventInv'
<1> DEFINE s == Len(states) + 1
           grown == [states |-> Append(states, Queries!FreshState), traces |-> traces]
           new == Ensured(grown, s, e)
<1>1. EventKind[e] = "manual" /\ phase[e] = "waiting" /\ x \in EventWhere[e] /\ Queries!Goes(e, "open")
  BY DEF Queries!TraceQuery, Queries!MayStart
<1>2. e \in Tops /\ ~Asked(e) /\ x = HomeOf(e)
  BY <1>1, EventRoot
<1>3. current[x] = NoState
  BY <1>1, <1>2 DEF EventInv, StateOf
<1>4. /\ grown \in Logs(EventState, Events, Events) /\ Keeps(grown, s, e)
      /\ Queries!Log(s) = grown /\ s \in Nat
  BY <1>1, <1>2, EventNewState
<1>5. /\ new \in Logs(EventState, Events, Events) /\ Keeps(new, s, e) /\ Moves(grown, new, s, e, {})
      /\ new.states[s].retrieved \subseteq {e} /\ Queries!EnsureTrace(grown, s, e) = new
  BY <1>1, <1>2, EventNewState
<1> HIDE DEF new, grown
<1>6. Queries!Becomes(new, registry, x, s)
  BY <1>3, <1>4, <1>5 DEF Queries!TraceQuery
<1> HIDE DEF s
<1>7. states' = new.states /\ traces' = new.traces /\ registry' = registry /\ current' = [current EXCEPT ![x] = s]
  BY <1>6 DEF Queries!Becomes
<1>8. StateOf(e)' = s /\ \A y \in Tops : y # e => StateOf(y)' = StateOf(y)
  BY <1>1, <1>7, ByHand
<1>9. registry' \in [Queries!Ids -> Nat \cup {NoState}] /\ current' \in [EventContexts -> Nat \cup {NoState}]
  BY <1>4, <1>7 DEF EventInv
<1>10. EventRootBegins(e, s, grown, new)
  BY <1>1, <1>4, <1>5, <1>7, <1>8, <1>9 DEF EventRootBegins, Queries!Goes, s, grown
<1> QED
  BY <1>2, <1>10, EventBegins

LEMMA TraceResponseStep ==
    ASSUME EventInv, NEW e \in Events, NEW x \in EventContexts, Queries!TraceResponse(e, x)
    PROVE  EventInv'
<1> DEFINE s == current[x]
<1>1. /\ EventKind[e] = "manual" /\ phase[e] = "open" /\ x \in EventWhere[e]
      /\ \A y \in Events : EventParent[y] = e => phase[y] # "open"
  BY DEF Queries!TraceResponse, Queries!MayEnd, Queries!Open
<1>2. e \in Tops /\ Top(e) = e /\ ~Asked(e) /\ x = HomeOf(e) /\ Bound(e) /\ StateOf(e) = s
  BY <1>1, EventRoot DEF Bound, StateOf
<1>3. Keeps(Now, s, e) /\ Now.states[s].retrieved \subseteq {e} /\ Now \in Logs(EventState, Events, Events)
  BY <1>2 DEF EventInv, Now
<1>4. Queries!Log(s) = Now /\ s \in Nat
  <2>1. s \in DOMAIN Now.states /\ Now.states = states
    BY <1>3 DEF Keeps, Now
  <2>2. DOMAIN Now.states = 1..Len(Now.states) /\ Len(Now.states) \in Nat
    BY <1>3, LogParts
  <2> HIDE DEF s
  <2>3. ~(s > Len(states)) /\ s \in Nat
    BY <2>1, <2>2
  <2> QED
    BY <2>3 DEF Queries!Log, Now
<1>5. PICK text \in BOOLEAN :
         /\ Queries!Goes(e, IF text THEN "answered" ELSE "done")
         /\ Queries!Becomes(Queries!LogResponse(Now, s, e, text), registry, x, s)
  BY <1>4 DEF Queries!TraceResponse
<1> DEFINE new == Queries!LogResponse(Now, s, e, text)
           to == IF text THEN "answered" ELSE "done"
<1>0. s = current[x]
  OBVIOUS
<1> HIDE DEF s
<1>6. /\ new \in Logs(EventState, Events, Events) /\ Keeps(new, s, e) /\ Moves(Now, new, s, e, {e})
      /\ new.states[s].retrieved \subseteq {e} /\ (text => new.states[s].answered)
  <2>1. Response(e, e, Now, s, text, new)
    BY <1>2, <1>3 DEF Response
  <2> HIDE DEF new
  <2> QED
    BY <2>1, EventResponded
<1>7. to \in {"open", "done", "answered"} /\ to # "open" /\ (to = "answered" => text) /\ phase' = [phase EXCEPT ![e] = to]
  BY <1>5 DEF Queries!Goes
<1>8. states' = new.states /\ traces' = new.traces /\ registry' = registry /\ current' = [current EXCEPT ![x] = s]
  BY <1>5 DEF Queries!Becomes
<1> HIDE DEF new, to
<1>9. StateOf(e)' = s /\ \A y \in Tops : y # e => StateOf(y)' = StateOf(y)
  BY <1>1, <1>8, ByHand
<1>10. registry' \in [Queries!Ids -> Nat \cup {NoState}] /\ current' \in [EventContexts -> Nat \cup {NoState}]
  BY <1>4, <1>8 DEF EventInv
<1>11. ASSUME NEW y \in Events, Top(y) = e PROVE registry'[y] = NoState
  BY <1>2, <1>8, <1>11 DEF EventInv
<1>12. EventEffect(e, e, to, new, {e}, FALSE)
  BY <1>1, <1>2, <1>6, <1>7, <1>8, <1>9, <1>10, <1>11 DEF EventEffect
<1> QED
  BY <1>12, EventCallback

LEMMA EventSame ==
    ASSUME EventInv, UNCHANGED <<phase, states, registry, current, traces>>
    PROVE  EventInv'
<1>1. Now' = Now /\ TopsBegun' = TopsBegun
  BY DEF Now, TopsBegun
<1>2. \A q : (StateOf(q)' = StateOf(q)) /\ (Bound(q)' <=> Bound(q))
  BY DEF StateOf, Bound
<1>3. \A q : Keeps(Now, StateOf(q), q)' <=> Keeps(Now, StateOf(q), q)
  BY <1>1, <1>2 DEF Keeps
<1>4. Apart(traces, TopsBegun)'
  BY <1>1 DEF EventInv, Apart
<1>5. \A q \in Tops : Bound(q)' => Keeps(Now, StateOf(q), q)' /\ states'[StateOf(q)'].retrieved \subseteq {q}
  BY <1>2, <1>3 DEF EventInv
<1>6. \A q, y \in Tops : Bound(q)' /\ Bound(y)' /\ StateOf(q)' = StateOf(y)' => q = y
  BY <1>2 DEF EventInv
<1>7. \A q \in Tops : ~Asked(q) /\ phase'[q] = "waiting" => StateOf(q)' = NoState
  BY <1>2 DEF EventInv
<1>8. /\ phase' \in [Events -> {"waiting", "open", "done", "answered"}] /\ Now' \in Logs(EventState, Events, Events)
      /\ registry' \in [Queries!Ids -> Nat \cup {NoState}] /\ current' \in [EventContexts -> Nat \cup {NoState}]
  BY <1>1 DEF EventInv
<1>9. /\ \A e \in Events : phase'[e] = "open" => phase'[Top(e)] = "open"
      /\ \A e \in Events : phase'[e] = "waiting" => registry'[e] = NoState
      /\ \A e \in Events : phase'[e] = "open" /\ Asked(Top(e)) => registry'[e] # NoState
      /\ \A e \in Events : registry'[e] # NoState => Asked(Top(e)) /\ registry'[Top(e)] = registry'[e]
  BY DEF EventInv
<1>10. /\ \A q \in Tops : phase'[q] = "answered" =>
             \E t \in DOMAIN traces' : traces'[t].by = {q} /\ traces'[t].answers # <<>>
       /\ \A q \in Tops : Asked(q) /\ phase'[q] = "answered" => \A e \in Events : Top(e) = q => registry'[e] = NoState
  BY DEF EventInv
<1> QED
  BY <1>4, <1>5, <1>6, <1>7, <1>8, <1>9, <1>10 DEF EventInv, Queries!Ids, Top, Tops, Asked

LEMMA QueriesInit == Queries!Init => EventInv
<1> SUFFICES ASSUME Queries!Init PROVE EventInv
  OBVIOUS
<1>1. Queries!FreshState \in EventState
  BY DEF Queries!FreshState, EventState
<1>2. states \in Seq(EventState)
  BY <1>1 DEF Queries!Init
<1>3. traces \in TraceLog(Events, Events) /\ DOMAIN traces = {}
  BY DEF Queries!Init, TraceLog
<1>4. Now \in Logs(EventState, Events, Events)
  BY <1>2, <1>3, PairIsLog DEF Now
<1>5. ASSUME NEW e \in Events PROVE phase[e] = "waiting" /\ registry[e] = NoState
  BY EventRoot DEF Queries!Init
<1>6. ASSUME NEW q \in Tops PROVE ~Bound(q) /\ (~Asked(q) => StateOf(q) = NoState)
  <2>1. q \in Events
    BY DEF Tops
  <2>2. ~Asked(q) => HomeOf(q) \in EventContexts
    BY <2>1, EventRoot DEF Asked
  <2> QED
    BY <1>5, <2>1, <2>2 DEF Bound, StateOf, Queries!Init
<1>7. Apart(traces, TopsBegun)
  BY <1>3 DEF Apart
<1>8. /\ phase \in [Events -> {"waiting", "open", "done", "answered"}]
      /\ registry \in [Queries!Ids -> Nat \cup {NoState}] /\ current \in [EventContexts -> Nat \cup {NoState}]
  BY DEF Queries!Init
<1> QED
  BY <1>4, <1>5, <1>6, <1>7, <1>8 DEF EventInv, Tops

LEMMA QueriesStep == EventInv /\ [Queries!Next]_(Queries!vars) => EventInv'
<1> SUFFICES ASSUME EventInv, [Queries!Next]_(Queries!vars) PROVE EventInv'
  OBVIOUS
<1>1. ASSUME NEW e \in Events, NEW x \in EventContexts, Queries!EventStart(e, x) PROVE EventInv'
  BY <1>1, EventStartStep
<1>2. ASSUME NEW e \in Events, NEW x \in EventContexts, Queries!RetrieveEnd(e, x) PROVE EventInv'
  BY <1>2, RetrieveEndStep
<1>3. ASSUME NEW e \in Events, NEW x \in EventContexts, Queries!ResponseEnd(e, x) PROVE EventInv'
  BY <1>3, ResponseEndStep
<1>4. ASSUME NEW e \in Events, NEW x \in EventContexts, Queries!TraceQuery(e, x) PROVE EventInv'
  BY <1>4, TraceQueryStep
<1>5. ASSUME NEW e \in Events, NEW x \in EventContexts, Queries!TraceResponse(e, x) PROVE EventInv'
  BY <1>5, TraceResponseStep
<1>6. CASE UNCHANGED Queries!vars
  BY <1>6, EventSame DEF Queries!vars
<1> QED
  BY <1>1, <1>2, <1>3, <1>4, <1>5, <1>6 DEF Queries!Next

LEMMA QueriesKeep ==
    EventInv => /\ Queries!OneQueryPerTrace /\ Queries!OneTracePerQuery
                /\ Queries!AnsweredOnce /\ Queries!EntriesReleased
<1> SUFFICES ASSUME EventInv
             PROVE  /\ Queries!OneQueryPerTrace /\ Queries!OneTracePerQuery
                    /\ Queries!AnsweredOnce /\ Queries!EntriesReleased
  OBVIOUS
<1>1. Queries!OneQueryPerTrace
  <2>1. ASSUME NEW t \in DOMAIN traces PROVE Queries!Cardinality(traces[t].by) = 1
    <3>1. PICK q : traces[t].by = {q}
      BY <2>1 DEF EventInv, Apart
    <3> QED
      BY <3>1, CountOne
  <2> HIDE DEF EventInv
  <2> QED
    BY <2>1 DEF Queries!OneQueryPerTrace
<1>2. Queries!OneTracePerQuery
  BY TraceOfOne DEF EventInv, Queries!OneTracePerQuery
<1>3. Queries!AnsweredOnce
  <2>1. SUFFICES ASSUME NEW e \in Events, EventKind[e] \in {"query", "manual"}, phase[e] = "answered"
                 PROVE  /\ DOMAIN Queries!AnswersOf(e) # {}
                        /\ \A t \in DOMAIN Queries!AnswersOf(e) : Queries!AnswersOf(e)[t] = 1
    BY DEF Queries!AnsweredOnce
  <2>2. e \in Tops
    BY <2>1, EventRoot
  <2>3. PICK t \in DOMAIN traces : traces[t].by = {e} /\ traces[t].answers # <<>>
    BY <2>1, <2>2 DEF EventInv
  <2>4. ASSUME NEW u \in DOMAIN traces, e \in traces[u].by PROVE u = t
    BY <2>3, <2>4, TraceOfOne DEF EventInv
  <2>5. Len(traces[t].answers) = 1
    <3>1. traces[t].answers \in Seq(Events)
      <4>1. Now \in Logs(EventState, Events, Events) /\ Now.traces = traces
        BY DEF EventInv, Now
      <4> QED
        BY <4>1, LogParts
    <3>2. Len(traces[t].answers) <= 1
      BY DEF EventInv, Apart
    <3>3. Len(traces[t].answers) \in Nat /\ Len(traces[t].answers) # 0
      BY <2>3, <3>1
    <3> DEFINE n == Len(traces[t].answers)
    <3>4. n \in Nat /\ n <= 1 /\ n # 0
      BY <3>2, <3>3
    <3> HIDE DEF n
    <3>5. n = 1
      BY <3>4
    <3> QED
      BY <3>5 DEF n
  <2>6. DOMAIN Queries!AnswersOf(e) = {u \in DOMAIN traces : e \in traces[u].by}
    BY DEF Queries!AnswersOf
  <2>7. DOMAIN Queries!AnswersOf(e) = {t}
    BY <2>3, <2>4, <2>6
  <2>8. Queries!AnswersOf(e)[t] = 1
    BY <2>3, <2>5 DEF Queries!AnswersOf
  <2> QED
    BY <2>7, <2>8
<1>4. Queries!EntriesReleased
  <2>1. SUFFICES ASSUME NEW e \in Events, Queries!Query[e] # e, phase[Queries!Query[e]] = "answered"
                 PROVE  registry[e] = NoState
    BY DEF Queries!EntriesReleased
  <2>2. Top(e) \in Tops /\ Asked(Top(e)) /\ phase[Top(e)] = "answered"
    BY <2>1, QueryOf, EventRoot
  <2> QED
    BY <2>2 DEF EventInv
<1> QED
  BY <1>1, <1>2, <1>3, <1>4

-----------------------------------------------------------------------------
(* All handlers.                                                           *)

\* The invariant of the handler chosen at the start.
HandlerInv ==
    /\ handler = "chains" => ChainInv
    /\ handler = "plain chains" => PlainChainInv
    /\ handler = "queries" => EventInv
    /\ handler = "workflows" => WorkflowInv
    /\ handler = "plain workflows" => PlainWorkflowInv

\* Every handler is constructed with it; the middleware's scenario has none.
THEOREM HandlersInit == IntegrationsInit => HandlerInv
<1> SUFFICES ASSUME IntegrationsInit PROVE HandlerInv
  OBVIOUS
<1>1. CallbacksInit \/ handler = "none"
  BY DEF IntegrationsInit, CallbacksUnused
<1>2. CASE handler = "none"
  BY <1>2 DEF HandlerInv
<1>3. CASE handler = "chains" /\ Chains!Init
  BY <1>3, ChainsInit DEF HandlerInv
<1>4. CASE handler = "plain chains" /\ PlainChains!Init
  BY <1>4, PlainChainsInit DEF HandlerInv
<1>5. CASE handler = "queries" /\ Queries!Init
  BY <1>5, QueriesInit DEF HandlerInv
<1>6. CASE handler = "workflows" /\ Workflows!Init
  BY <1>6, WorkflowsInit DEF HandlerInv
<1>7. CASE handler = "plain workflows" /\ PlainWorkflows!Init
  BY <1>7, PlainWorkflowsInit DEF HandlerInv
<1> QED
  BY <1>1, <1>2, <1>3, <1>4, <1>5, <1>6, <1>7 DEF CallbacksInit

\* A callback keeps it, and the middleware does not touch what it is about.
THEOREM HandlersStep ==
    HandlerInv /\ [MiddlewareStep \/ CallbackStep]_<<scenario, loggerVars, callbackVars>> => HandlerInv'
<1> SUFFICES ASSUME HandlerInv, [MiddlewareStep \/ CallbackStep]_<<scenario, loggerVars, callbackVars>>
             PROVE  HandlerInv'
  OBVIOUS
<1>1. handler' = handler
  BY DEF MiddlewareStep, CallbackStep, callbackVars
<1>2. UNCHANGED <<shared, own>> \/ CallbacksNext
  BY DEF MiddlewareStep, CallbackStep, callbackVars
<1>3. handler = "chains" => [Chains!Next]_(Chains!vars)
  BY <1>2 DEF CallbacksNext, Chains!vars, shared, own
<1>4. handler = "plain chains" => [PlainChains!Next]_(PlainChains!vars)
  BY <1>2 DEF CallbacksNext, PlainChains!vars, shared, own
<1>5. handler = "queries" => [Queries!Next]_(Queries!vars)
  BY <1>2 DEF CallbacksNext, Queries!vars, shared, own
<1>6. handler = "workflows" => [Workflows!Next]_(Workflows!vars)
  BY <1>2 DEF CallbacksNext, Workflows!vars, shared, own
<1>7. handler = "plain workflows" => [PlainWorkflows!Next]_(PlainWorkflows!vars)
  BY <1>2 DEF CallbacksNext, PlainWorkflows!vars, shared, own
<1>8. handler = "chains" => ChainInv'
  BY <1>3, ChainsStep DEF HandlerInv
<1>9. handler = "plain chains" => PlainChainInv'
  BY <1>4, PlainChainsStep DEF HandlerInv
<1>10. handler = "queries" => EventInv'
  BY <1>5, QueriesStep DEF HandlerInv
<1>11. handler = "workflows" => WorkflowInv'
  BY <1>6, WorkflowsStep DEF HandlerInv
<1>12. handler = "plain workflows" => PlainWorkflowInv'
  BY <1>7, PlainWorkflowsStep DEF HandlerInv
<1> QED
  BY <1>1, <1>8, <1>9, <1>10, <1>11, <1>12 DEF HandlerInv

\* It holds in every state of every scenario.
THEOREM HandlersInvariance == IntegrationsSpec => []HandlerInv
BY HandlersInit, HandlersStep, PTL DEF IntegrationsSpec

\* No run's query, documents, answer or events land in the trace of another one, and
\* none's are scattered over several, with any of the five handlers.
THEOREM RunsAreKeptApart == IntegrationsSpec => []RunsKeepApart
<1>1. HandlerInv => RunsKeepApart
  BY ChainsKeep, PlainChainsKeep, QueriesKeep, WorkflowsKeep, PlainWorkflowsKeep DEF HandlerInv, RunsKeepApart
<1> QED
  BY <1>1, HandlersInvariance, PTL

\* A run that came to an answer has exactly that one in its trace, and the registry
\* keeps no entry of a run that has come to its end.
THEOREM AnswersAreKept == IntegrationsSpec => []AnswerIsKept
<1>1. HandlerInv => AnswerIsKept
  BY ChainsKeep, PlainChainsKeep, QueriesKeep, WorkflowsKeep, PlainWorkflowsKeep DEF HandlerInv, AnswerIsKept
<1> QED
  BY <1>1, HandlersInvariance, PTL
=============================================================================
