--------------------------- MODULE TraceStoreProofs ---------------------------
(***************************************************************************)
(* Theorems about the local trace store, for every number of clients and   *)
(* traces, every retention and every chunk list and citation set.          *)
(***************************************************************************)
EXTENDS TraceStore, TLAPS, FiniteSetTheorems

-----------------------------------------------------------------------------
(* What the row functions of TraceRows return, for every set of ids,       *)
(* texts, claims and every scoring table.                                  *)

\* Every score has a verdict: the thresholds of _verdict leave no gap.
LEMMA VerdictType ==
    ASSUME NEW score \in Nat
    PROVE  Verdict(score) \in Verdicts
BY DEF Verdict, Verdicts

\* A logged id has an index in its list, and the item there carries the id.
LEMMA IndexOfType ==
    ASSUME NEW batch \in Seq(ChunkItem), NEW id \in IdsOf(batch)
    PROVE  /\ IndexOf(batch, id) \in DOMAIN batch
           /\ batch[IndexOf(batch, id)] \in ChunkItem
           /\ IndexOf(batch, id) \in Nat \ {0}
<1>1. PICK i \in DOMAIN batch : batch[i].id = id
  BY DEF IdsOf
<1>2. IndexOf(batch, id) \in DOMAIN batch
  BY <1>1 DEF IndexOf
<1> QED
  BY <1>2

\* The rows that upsert_chunks writes are chunk rows.
LEMMA ChunkRowsType ==
    ASSUME NEW batch \in Seq(ChunkItem), NEW id \in IdsOf(batch),
           NEW count \in Nat, NEW selected \in BOOLEAN
    PROVE  /\ Inserted(batch, id, count, selected) \in ChunkRow
           /\ \A row \in ChunkRow, was \in BOOLEAN :
                Updated(row, batch[IndexOf(batch, id)].content, selected, was) \in ChunkRow
<1>1. /\ IndexOf(batch, id) \in Nat \ {0}
      /\ batch[IndexOf(batch, id)].content \in Contents
  BY IndexOfType DEF ChunkItem
<1>2. Inserted(batch, id, count, selected) \in ChunkRow
  BY <1>1 DEF Inserted, ChunkRow
<1>3. ASSUME NEW row \in ChunkRow, NEW was \in BOOLEAN
      PROVE  Updated(row, batch[IndexOf(batch, id)].content, selected, was) \in ChunkRow
  BY <1>1, <1>3 DEF Updated, ChunkRow
<1> QED
  BY <1>2, <1>3

\* Marking rows keeps the table a table, with the same ids in it.
LEMMA MarkedType ==
    ASSUME NEW rows \in ChunkTable, NEW ids
    PROVE  /\ Marked(rows, ids) \in ChunkTable
           /\ \A id \in ChunkIds : Marked(rows, ids)[id] = None <=> rows[id] = None
<1>1. ASSUME NEW id \in ChunkIds, rows[id] # None
      PROVE  [rows[id] EXCEPT !.selected = TRUE] \in ChunkRow
  BY <1>1 DEF ChunkTable, ChunkRow
<1>2. None \notin ChunkRow
  BY NoneAssumption
<1> QED
  BY <1>1, <1>2 DEF Marked, ChunkTable

\* save_citations writes checks, and none of them carries a verdict.
LEMMA PendingChecksType ==
    ASSUME NEW citations \in SUBSET Citation
    PROVE  /\ PendingChecks(citations) \in SUBSET CheckRow
           /\ \A k \in PendingChecks(citations) : k.status = "pending"
BY DEF PendingChecks, Citation, CheckRow

\* Every claim has a score against every text.
LEMMA SupportType ==
    ASSUME NEW claim \in Claims, NEW text \in Contents
    PROVE  Support[claim][text] \in Nat
<1>1. Support[claim] \in [Contents -> 0..1000]
  BY SupportAssumption
<1>2. Support[claim][text] \in 0..1000
  BY <1>1
<1>3. \A n \in 0..1000 : n \in Nat
  OBVIOUS
<1> QED
  BY <1>2, <1>3

\* An evaluated check always carries a verdict.
LEMMA EvaluatedType ==
    ASSUME NEW rows \in ChunkTable, NEW cs \in SUBSET CheckRow
    PROVE  /\ Evaluated(rows, cs) \in SUBSET CheckRow
           /\ \A k \in Evaluated(rows, cs) : k.status \in Verdicts
<1>1. ASSUME NEW k \in CheckRow
      PROVE  Judged(rows, k) \in CheckRow /\ Judged(rows, k).status \in Verdicts
  <2> DEFINE score == IF rows[k.source] = None THEN 0
                      ELSE Support[k.claim][rows[k.source].content]
  <2>1. k.claim \in Claims /\ k.source \in ChunkIds
    BY DEF CheckRow
  <2>2. rows[k.source] # None => rows[k.source].content \in Contents
    BY <2>1 DEF ChunkTable, ChunkRow
  <2>3. score \in Nat
    <3>1. CASE rows[k.source] = None
      BY <3>1
    <3>2. CASE rows[k.source] # None
      BY <2>1, <2>2, <3>2, SupportType
    <3> QED
      BY <3>1, <3>2
  <2>4. Verdict(score) \in Verdicts
    <3> HIDE DEF score
    <3> QED
      BY <2>3, VerdictType
  <2> QED
    BY <2>1, <2>4 DEF Judged, CheckRow
<1> QED
  BY <1>1 DEF Evaluated

\* The evaluation of any snapshot is a report.
LEMMA EvaluationOfType ==
    ASSUME NEW rows \in ChunkTable, NEW cs \in SUBSET CheckRow
    PROVE  /\ EvaluationOf(rows, cs) \in Report
           /\ EvaluationOf(rows, cs) # None
<1>1. FailureType(rows, Evaluated(rows, cs)) \in FailureTypes
  BY DEF FailureType, FailureTypes
<1>2. EvaluationOf(rows, cs) \in Report
  BY <1>1, EvaluatedType DEF EvaluationOf, Report
<1> QED
  BY <1>2, NoneAssumption

\* save_evaluation turns no check into something else than a check, and leaves
\* the table as it was when it computed no verdict.
LEMMA WithVerdictsType ==
    ASSUME NEW cs \in SUBSET CheckRow, NEW evaluated \in SUBSET CheckRow
    PROVE  /\ WithVerdicts(cs, evaluated) \in SUBSET CheckRow
           /\ evaluated = {} => WithVerdicts(cs, evaluated) = cs
<1>1. ASSUME NEW k \in cs,
             \E e \in evaluated : e.claim = k.claim /\ e.source = k.source
      PROVE  (CHOOSE e \in evaluated : e.claim = k.claim /\ e.source = k.source) \in CheckRow
  BY <1>1
<1> QED
  BY <1>1 DEF WithVerdicts

-----------------------------------------------------------------------------
(* Types.                                                                  *)

\* A call with arguments that a client may pass is a call record.
LEMMA CallType ==
    ASSUME NEW name \in CallNames, NEW t \in Traces \cup {None}
    PROVE  /\ Call(name, t) \in CallRecord
           /\ Call(name, t).name = name /\ Call(name, t).trace = t
           /\ \A b \in Batches, s \in BOOLEAN :
                /\ [Call(name, t) EXCEPT !.batch = b] \in CallRecord
                /\ [Call(name, t) EXCEPT !.batch = b].trace = t
                /\ [Call(name, t) EXCEPT !.batch = b, !.selected = s] \in CallRecord
                /\ [Call(name, t) EXCEPT !.batch = b, !.selected = s].trace = t
           /\ \A a \in Answers : /\ [Call(name, t) EXCEPT !.answer = a] \in CallRecord
                                 /\ [Call(name, t) EXCEPT !.answer = a].trace = t
BY DEF Call, NoOp, CallRecord

\* The arguments of a call are the ones it was made with.
LEMMA CallFields ==
    ASSUME NEW name, NEW t
    PROVE  /\ Call(name, t).name = name /\ Call(name, t).trace = t
           /\ \A b : /\ [Call(name, t) EXCEPT !.batch = b].name = name
                     /\ [Call(name, t) EXCEPT !.batch = b].trace = t
                     /\ [Call(name, t) EXCEPT !.batch = b, !.selected = TRUE].name = name
                     /\ [Call(name, t) EXCEPT !.batch = b, !.selected = TRUE].trace = t
           /\ \A a : /\ [Call(name, t) EXCEPT !.answer = a].name = name
                     /\ [Call(name, t) EXCEPT !.answer = a].trace = t
                     /\ [Call(name, t) EXCEPT !.answer = a].answer = a
BY DEF Call, NoOp

\* A client that has read nothing is in range.
LEMMA BlankType == Blank \in Reading /\ NoOp \in CallRecord
<1>1. NoChunks \in ChunkTable
  BY DEF NoChunks, ChunkTable
<1>2. NoOp \in CallRecord
  BY DEF NoOp, CallRecord, CallNames
<1>3. Blank \in Reading
  BY <1>1 DEF Blank, Reading
<1> QED
  BY <1>2, <1>3

\* SELECT COUNT(*) of a chunk table is a number.
LEMMA CountType ==
    ASSUME NEW rows PROVE Cardinality(LoggedIds(rows)) \in Nat
<1>1. IsFiniteSet(LoggedIds(rows))
  BY ChunkIdsAssumption, FS_Subset DEF LoggedIds
<1> QED
  BY <1>1, FS_CardinalityType

\* The chunk rows a transaction writes are chunk rows, and none is dropped.
LEMMA ChunkAfterType ==
    ASSUME TypeOK, NEW c \in Clients, op[c].trace \in Traces
    PROVE  /\ [id \in ChunkIds |-> ChunkAfter(c, id)] \in ChunkTable
           /\ \A id \in ChunkIds : chunks[op[c].trace][id] # None => ChunkAfter(c, id) # None
<1> DEFINE t == op[c].trace  batch == op[c].batch
<1>1. /\ chunks[t] \in ChunkTable /\ op[c] \in CallRecord /\ seen[c] \in Reading
  BY DEF TypeOK
<1>2. batch \in Seq(ChunkItem)
  <2>1. batch \in Batches \/ batch = <<>>
    BY <1>1 DEF CallRecord
  <2>2. <<>> \in Seq(ChunkItem)
    OBVIOUS
  <2> QED
    BY <2>1, <2>2, BatchesAssumption
<1>3. ASSUME NEW id \in ChunkIds
      PROVE  /\ ChunkAfter(c, id) \in ChunkRow \cup {None}
             /\ chunks[t][id] # None => ChunkAfter(c, id) # None
  <2>1. chunks[t][id] \in ChunkRow \cup {None}
    BY <1>1 DEF ChunkTable
  <2>2. CASE id \notin IdsOf(batch)
    BY <2>1, <2>2 DEF ChunkAfter
  <2>3. CASE id \in IdsOf(batch)
    <3>1. /\ op[c].selected \in BOOLEAN /\ seen[c].selected \in BOOLEAN
          /\ seen[c].count \in Nat
      BY <1>1 DEF CallRecord, Reading
    <3>2. chunks[t][id] # None => chunks[t][id].selected \in BOOLEAN
      BY <2>1 DEF ChunkRow
    <3>3. Inserted(batch, id, seen[c].count, op[c].selected) \in ChunkRow
      BY <1>2, <2>3, <3>1, ChunkRowsType
    <3>4. chunks[t][id] # None =>
            \A was \in BOOLEAN : Updated(chunks[t][id], batch[IndexOf(batch, id)].content,
                                         op[c].selected, was) \in ChunkRow
      BY <1>2, <2>1, <2>3, <3>1, ChunkRowsType
    <3> QED
      BY <2>1, <2>3, <3>1, <3>2, <3>3, <3>4, NoneAssumption DEF ChunkAfter
  <2> QED
    BY <2>2, <2>3
<1> QED
  BY <1>3 DEF ChunkTable

\* _init_db leaves every column in its range.
THEOREM TypeInit == Init => TypeOK
<1> SUFFICES ASSUME Init PROVE TypeOK
  OBVIOUS
<1>1. NoChunks \in ChunkTable
  BY DEF NoChunks, ChunkTable
<1> QED
  BY <1>1, BlankType DEF Init, TypeOK, Statuses, Steps

\* A call that ends leaves its client in range.
LEMMA FinishType ==
    ASSUME TypeOK, NEW c \in Clients, NEW how \in Steps, Finish(c, how)
    PROVE  /\ pc' \in [Clients -> Steps] /\ op' \in [Clients -> CallRecord]
           /\ seen' \in [Clients -> Reading]
<1>1. Call(op[c].name, op[c].trace) \in CallRecord
  <2>1. op[c] \in CallRecord
    BY DEF TypeOK
  <2>2. op[c].name \in CallNames /\ op[c].trace \in Traces \cup {None}
    BY <2>1 DEF CallRecord
  <2> QED
    BY <2>2, CallType
<1> QED
  BY <1>1, BlankType DEF Finish, Goto, Become, TypeOK

\* _set_status writes a status.
LEMMA SetStatusType ==
    ASSUME TypeOK, NEW t \in Traces, NEW s \in Statuses, SetStatus(t, s)
    PROVE  status' \in [Traces -> Statuses \cup {"none"}]
BY DEF SetStatus, InTable, TypeOK

\* Every action keeps every variable in its range.
LEMMA TypeStep ==
    ASSUME TypeOK, \A c \in Clients : NamesOldTrace(c), [Next]_vars
    PROVE  TypeOK'
<1> USE DEF Goto, Become
<1>1. ASSUME NEW c \in Clients, NEW name \in {"open", "start"}, SelectExpired(c, name)
      PROVE  TypeOK'
  <2>1. Call(name, None) \in CallRecord
    BY CallType DEF CallNames
  <2>2. [Blank EXCEPT !.expired = {t \in Traces : Expired(t)}] \in Reading
    BY BlankType DEF Reading
  <2> QED
    BY <1>1, <2>1, <2>2 DEF SelectExpired, TypeOK, Steps, store, tables
<1>2. ASSUME NEW c \in Clients, DeleteExpired(c) PROVE TypeOK'
  <2>1. NoChunks \in ChunkTable
    BY DEF NoChunks, ChunkTable
  <2> QED
    BY <1>2, <2>1, BlankType DEF DeleteExpired, TypeOK, Steps
<1>3. ASSUME NEW c \in Clients, NEW t \in Traces, InsertTrace(c, t) PROVE TypeOK'
  <2>1. Call("start", t) \in CallRecord
    BY CallType DEF CallNames
  <2> QED
    BY <1>3, <2>1 DEF InsertTrace, TypeOK, Steps, Statuses
<1>4. ASSUME NEW c \in Clients, ReadBack(c) PROVE TypeOK'
  <2>1. /\ pc' \in [Clients -> Steps] /\ op' \in [Clients -> CallRecord]
        /\ seen' \in [Clients -> Reading]
    BY <1>4, FinishType DEF ReadBack, Steps
  <2>2. session' \in [Traces -> Clients \cup {None}]
    BY <1>4 DEF ReadBack, TypeOK
  <2> QED
    BY <1>4, <2>1, <2>2 DEF ReadBack, TypeOK, tables
<1>5. ASSUME NEW c \in Clients, NEW t \in Traces, NEW batch \in Batches,
             LogRetrieval(c, t, batch) \/ LogContext(c, t, batch)
      PROVE  TypeOK'
  <2>1. /\ [Call("retrieval", t) EXCEPT !.batch = batch] \in CallRecord
        /\ [Call("context", t) EXCEPT !.batch = batch, !.selected = TRUE] \in CallRecord
    BY CallType DEF CallNames
  <2>2. [Blank EXCEPT !.count = Cardinality(LoggedIds(chunks[t]))] \in Reading
    BY CountType, BlankType DEF Reading
  <2>3. op' \in [Clients -> CallRecord]
    <3>1. \A call \in CallRecord : [op EXCEPT ![c] = call] \in [Clients -> CallRecord]
      BY DEF TypeOK
    <3> QED
      BY <1>5, <2>1, <3>1 DEF LogRetrieval, LogContext
  <2>4. seen' \in [Clients -> Reading]
    BY <1>5, <2>2 DEF LogRetrieval, LogContext, CountRows, TypeOK
  <2>5. pc' \in [Clients -> Steps]
    BY <1>5 DEF LogRetrieval, LogContext, AfterCount, TypeOK, Steps
  <2> QED
    BY <1>5, <2>3, <2>4, <2>5 DEF LogRetrieval, LogContext, TypeOK, store, tables
<1>6. ASSUME NEW c \in Clients, NEW t \in Traces, NEW ids, NEW batch \in Batches,
             MarkContext(c, t, ids, batch)
      PROVE  TypeOK'
  <2>1. [Call("context", t) EXCEPT !.batch = batch, !.selected = TRUE] \in CallRecord
    BY CallType DEF CallNames
  <2>2. chunks' \in [Traces -> ChunkTable]
    BY <1>6, MarkedType DEF MarkContext, TypeOK
  <2>3. status' \in [Traces -> Statuses \cup {"none"}]
    BY <1>6, SetStatusType DEF MarkContext, Statuses
  <2> QED
    BY <1>6, <2>1, <2>2, <2>3 DEF MarkContext, TypeOK, Steps
<1>7. ASSUME NEW c \in Clients, CountChunks(c) PROVE TypeOK'
  <2>1. [Blank EXCEPT !.count = Cardinality(LoggedIds(chunks[op[c].trace]))] \in Reading
    BY CountType, BlankType DEF Reading
  <2> QED
    BY <1>7, <2>1 DEF CountChunks, CountRows, AfterCount, TypeOK, Steps, store, tables
<1>8. ASSUME NEW c \in Clients, LookupChunk(c) PROVE TypeOK'
  <2> DEFINE t == op[c].trace  row == chunks[t][op[c].batch[1].id]
  <2>1. t \in Traces
    BY <1>8 DEF LookupChunk, NamesOldTrace, WorkSteps
  <2>2. purges[t] \in Nat
    BY <2>1 DEF TypeOK
  <2>3. ASSUME NEW hit \in BOOLEAN, NEW selected \in BOOLEAN, NEW purge \in Nat
        PROVE  [seen[c] EXCEPT !.hit = hit, !.selected = selected, !.purge = purge]
                  \in Reading
    BY DEF TypeOK, Reading
  <2>4. seen' \in [Clients -> Reading]
    BY <1>8, <2>2, <2>3 DEF LookupChunk, TypeOK
  <2> QED
    BY <1>8, <2>4 DEF LookupChunk, TypeOK, Steps, store, tables
<1>9. ASSUME NEW c \in Clients, WriteChunks(c) PROVE TypeOK'
  <2>1. op[c].trace \in Traces
    BY <1>9 DEF WriteChunks, NamesOldTrace, WorkSteps
  <2>2. /\ pc' \in [Clients -> Steps] /\ op' \in [Clients -> CallRecord]
        /\ seen' \in [Clients -> Reading]
    BY <1>9, FinishType DEF WriteChunks, Steps
  <2>3. chunks' \in [Traces -> ChunkTable]
    BY <1>9, <2>1, ChunkAfterType DEF WriteChunks, TypeOK
  <2>4. status' \in [Traces -> Statuses \cup {"none"}]
    BY <1>9, <2>1, SetStatusType DEF WriteChunks, Statuses, TypeOK
  <2> QED
    BY <1>9, <2>2, <2>3, <2>4 DEF WriteChunks, TypeOK
<1>10. ASSUME NEW c \in Clients, NEW t \in Traces, NEW a \in Answers, LogAnswer(c, t, a)
       PROVE  TypeOK'
  <2>1. [Call("answer", t) EXCEPT !.answer = a] \in CallRecord
    BY CallType DEF CallNames
  <2>2. [Blank EXCEPT !.hit = answers[t] # None] \in Reading
    BY BlankType DEF Reading
  <2> QED
    BY <1>10, <2>1, <2>2 DEF LogAnswer, TypeOK, Steps, store, tables
<1>11. ASSUME NEW c \in Clients, WriteAnswer(c) PROVE TypeOK'
  <2>1. op[c].trace \in Traces
    BY <1>11 DEF WriteAnswer, NamesOldTrace, WorkSteps
  <2>2. /\ pc' \in [Clients -> Steps] /\ op' \in [Clients -> CallRecord]
        /\ seen' \in [Clients -> Reading]
    BY <1>11, FinishType DEF WriteAnswer, Steps
  <2>3. op[c].answer \in Answers \cup {None}
    BY DEF TypeOK, CallRecord
  <2>4. answers' \in [Traces -> Answers \cup {None}]
    BY <1>11, <2>3 DEF WriteAnswer, AnswerAfter, TypeOK
  <2>5. status' \in [Traces -> Statuses \cup {"none"}]
    BY <1>11, <2>1, SetStatusType DEF WriteAnswer, Statuses, TypeOK
  <2> QED
    BY <1>11, <2>2, <2>4, <2>5 DEF WriteAnswer, TypeOK
<1>12. ASSUME NEW c \in Clients, NEW t \in Traces, NEW citations \in CitationSets,
              LogCitations(c, t, citations)
       PROVE  TypeOK'
  <2>1. Call("citations", t) \in CallRecord
    BY CallType DEF CallNames
  <2>2. PendingChecks(citations) \in SUBSET CheckRow
    BY PendingChecksType, CitationSetsAssumption
  <2>3. status' \in [Traces -> Statuses \cup {"none"}]
    BY <1>12, SetStatusType DEF LogCitations, Statuses
  <2> QED
    BY <1>12, <2>1, <2>2, <2>3 DEF LogCitations, TypeOK, Steps
<1>13. ASSUME NEW c \in Clients, NEW t \in Traces, LogAgentEvent(c, t) PROVE TypeOK'
  <2>1. Call("agent_event", t) \in CallRecord
    BY CallType DEF CallNames
  <2>2. status' \in [Traces -> Statuses \cup {"none"}]
    BY <1>13, SetStatusType DEF LogAgentEvent, Statuses
  <2>3. events' \in [Traces -> Nat]
    <3>1. events[t] + 1 \in Nat
      BY DEF TypeOK
    <3> QED
      BY <1>13, <3>1 DEF LogAgentEvent, TypeOK
  <2> QED
    BY <1>13, <2>1, <2>2, <2>3 DEF LogAgentEvent, TypeOK, Steps
<1>14. ASSUME NEW c \in Clients, NEW t \in Traces, Evaluate(c, t) \/ Fetch(c, t)
       PROVE  TypeOK'
  <2>1. Call("evaluate", t) \in CallRecord /\ Call("fetch", t) \in CallRecord
    BY CallType DEF CallNames
  <2>2. seen' \in [Clients -> Reading]
    <3>1. purges[t] \in Nat
      BY DEF TypeOK
    <3>2. \A x \in Nat : [seen EXCEPT ![c].purge = x] \in [Clients -> Reading]
      BY DEF TypeOK, Reading
    <3> QED
      BY <1>14, <3>1, <3>2 DEF Evaluate, Fetch, TypeOK
  <2>3. pc' \in [Clients -> Steps] /\ op' \in [Clients -> CallRecord]
    BY <1>14, <2>1 DEF Evaluate, Fetch, TypeOK, Steps
  <2> QED
    BY <1>14, <2>2, <2>3 DEF Evaluate, Fetch, TypeOK, store, tables
<1>15. ASSUME NEW c \in Clients,
              ReadChunks(c) \/ ReadChecks(c) \/ ReadReport(c) \/ LookupReport(c)
       PROVE  TypeOK'
  <2>1. op[c].trace \in Traces
    BY <1>15
    DEF ReadChunks, ReadChecks, ReadReport, LookupReport, NamesOldTrace, WorkSteps
  <2>2. seen' \in [Clients -> Reading]
    <3>1. /\ chunks[op[c].trace] \in ChunkTable
          /\ checks[op[c].trace] \in SUBSET CheckRow
          /\ reports[op[c].trace] \in Report \cup {None}
      BY <2>1 DEF TypeOK
    <3>2. /\ \A x \in ChunkTable : [seen EXCEPT ![c].chunks = x] \in [Clients -> Reading]
          /\ \A x \in SUBSET CheckRow : [seen EXCEPT ![c].checks = x] \in [Clients -> Reading]
          /\ \A x \in Report \cup {None} :
                [seen EXCEPT ![c].report = x] \in [Clients -> Reading]
          /\ \A x \in BOOLEAN : [seen EXCEPT ![c].hit = x] \in [Clients -> Reading]
      <4>1. seen \in [Clients -> Reading]
        BY DEF TypeOK
      <4>2. \A x \in ChunkTable : [seen EXCEPT ![c].chunks = x] \in [Clients -> Reading]
        BY <4>1 DEF Reading
      <4>3. \A x \in SUBSET CheckRow : [seen EXCEPT ![c].checks = x] \in [Clients -> Reading]
        BY <4>1 DEF Reading
      <4>4. \A x \in Report \cup {None} :
                [seen EXCEPT ![c].report = x] \in [Clients -> Reading]
        BY <4>1 DEF Reading
      <4>5. \A x \in BOOLEAN : [seen EXCEPT ![c].hit = x] \in [Clients -> Reading]
        BY <4>1 DEF Reading
      <4> QED
        BY <4>2, <4>3, <4>4, <4>5
    <3>3. CASE ReadChunks(c)
      BY <3>1, <3>2, <3>3 DEF ReadChunks
    <3>4. CASE ReadChecks(c)
      BY <3>1, <3>2, <3>4 DEF ReadChecks
    <3>5. CASE ReadReport(c)
      BY <3>1, <3>2, <3>5 DEF ReadReport
    <3>6. CASE LookupReport(c)
      BY <3>2, <3>6 DEF LookupReport
    <3> QED
      BY <1>15, <3>3, <3>4, <3>5, <3>6
  <2> QED
    BY <1>15, <2>2
    DEF ReadChunks, ReadChecks, ReadReport, LookupReport, AfterChecks, TypeOK, Steps,
        store, tables
<1>16. ASSUME NEW c \in Clients, SaveEvaluation(c) PROVE TypeOK'
  <2>1. op[c].trace \in Traces
    BY <1>16 DEF SaveEvaluation, NamesOldTrace, WorkSteps
  <2>2. /\ pc' \in [Clients -> Steps] /\ op' \in [Clients -> CallRecord]
        /\ seen' \in [Clients -> Reading]
    BY <1>16, FinishType DEF SaveEvaluation, Steps
  <2>3. Computed(c) \in Report /\ Computed(c).checks \in SUBSET CheckRow
    <3>1. seen[c].chunks \in ChunkTable /\ seen[c].checks \in SUBSET CheckRow
      BY DEF TypeOK, Reading
    <3>2. Computed(c) \in Report
      BY <3>1, EvaluationOfType DEF Computed
    <3> QED
      BY <3>2 DEF Report
  <2>4. checks' \in [Traces -> SUBSET CheckRow]
    BY <1>16, <2>1, <2>3, WithVerdictsType DEF SaveEvaluation, TypeOK
  <2>5. reports' \in [Traces -> Report \cup {None}]
    BY <1>16, <2>3 DEF SaveEvaluation, TypeOK
  <2>6. status' \in [Traces -> Statuses \cup {"none"}]
    BY <1>16, <2>1, SetStatusType DEF SaveEvaluation, Statuses, TypeOK
  <2> QED
    BY <1>16, <2>2, <2>4, <2>5, <2>6 DEF SaveEvaluation, TypeOK
<1>17. ASSUME NEW c \in Clients, Return(c) \/ Abandon(c) PROVE TypeOK'
  BY <1>17, BlankType DEF Return, Abandon, TypeOK, Steps, store, tables
<1>18. CASE Tick
  BY <1>18 DEF Tick, TypeOK, store, tables
<1>19. CASE UNCHANGED vars
  BY <1>19 DEF vars, store, tables, TypeOK
<1> QED
  BY <1>1, <1>2, <1>3, <1>4, <1>5, <1>6, <1>7, <1>8, <1>9, <1>10, <1>11, <1>12, <1>13,
     <1>14, <1>15, <1>16, <1>17, <1>18, <1>19
  DEF Next, Begin, Continue
-----------------------------------------------------------------------------
(* The inductive invariant.                                                *)

\* An empty database satisfies the invariant.
THEOREM IndInit == Init => IndInv
<1> SUFFICES ASSUME Init PROVE IndInv
  OBVIOUS
<1>1. TypeOK
  BY TypeInit
<1>2. OldTraces /\ StatusHasWitness /\ StoredVerdictHasReport
  BY DEF Init, OldTraces, InTable, StatusHasWitness, StoredVerdictHasReport
<1>3. ASSUME NEW c \in Clients PROVE ClientInv(c)
  <2>1. pc[c] = "idle" /\ op[c].name = "none"
    BY DEF Init, NoOp
  <2> QED
    BY <2>1 DEF ClientInv, NamesOldTrace, FoundRowRemains, FetchInOrder, AnswerInHand,
                ChosenIsExpired, FetchShowsReport, AnswerIsStored, WorkSteps
<1> QED
  BY <1>1, <1>2, <1>3 DEF IndInv

\* _set_status never changes which traces are in the table.
LEMMA SetStatusFrame ==
    ASSUME TypeOK, NEW t \in Traces, NEW s \in Statuses, SetStatus(t, s)
    PROVE  /\ \A u \in Traces : InTable(u)' <=> InTable(u)
           /\ \A u \in Traces \ {t} : status'[u] = status[u]
           /\ status'[t] \in {s, "none"}
BY DEF SetStatus, InTable, TypeOK, Statuses

\* What any step may do to the tables while a client is between two
\* statements: rows it may rely on go only with a purge, ids are not reused.
Evolves ==
    /\ clock' >= clock
    /\ \A t \in Traces :
        /\ created[t] # Never => created'[t] = created[t] /\ (InTable(t)' => InTable(t))
        /\ purges'[t] >= purges[t]
        /\ purges'[t] = purges[t] \/ InTable(t)' =>
              /\ answers[t] # None => answers'[t] # None
              /\ reports[t] # None => reports'[t] # None

\* A client between two statements is not disturbed by the steps of others.
LEMMA OtherClients ==
    ASSUME IndInv, Evolves, TypeOK', NEW d \in Clients,
           pc'[d] = pc[d], op'[d] = op[d], seen'[d] = seen[d]
    PROVE  ClientInv(d)'
<1> DEFINE t == op[d].trace
<1>1. /\ ClientInv(d) /\ TypeOK /\ OldTraces
      /\ seen[d].purge \in Nat
  BY DEF IndInv, TypeOK, Reading
<1>2. NamesOldTrace(d)'
  BY <1>1 DEF ClientInv, NamesOldTrace, Evolves
<1>3. pc[d] \in WorkSteps \/ op[d].name = "answer" =>
        /\ t \in Traces /\ created[t] # Never
        /\ purges[t] \in Nat /\ purges'[t] \in Nat /\ purges'[t] >= purges[t]
        /\ InTable(t)' => InTable(t)
        /\ purges'[t] = purges[t] \/ InTable(t)' =>
              /\ answers[t] # None => answers'[t] # None
              /\ reports[t] # None => reports'[t] # None
  BY <1>1 DEF ClientInv, NamesOldTrace, Evolves, TypeOK
<1>4. FoundRowRemains(d)'
  <2>1. pc[d] \in {"write_answer", "save"} => pc[d] \in WorkSteps
    BY DEF WorkSteps
  <2> QED
    BY <1>1, <1>3, <2>1 DEF ClientInv, FoundRowRemains
<1>5. FetchInOrder(d)' /\ FetchShowsReport(d)'
  <2>1. pc[d] \in {"read_report", "fetched"} => pc[d] \in WorkSteps
    BY DEF WorkSteps
  <2>2. FetchInOrder(d)'
    BY <1>1, <1>3, <2>1 DEF ClientInv, FetchInOrder
  <2>3. FetchShowsReport(d)'
    <3>1. pc[d] = "fetched" => seen[d].purge <= purges[t]
      BY <1>1, <2>1 DEF ClientInv, FetchInOrder
    <3> QED
      BY <1>1, <1>3, <2>1, <3>1 DEF ClientInv, FetchShowsReport
  <2> QED
    BY <2>2, <2>3
<1>6. ChosenIsExpired(d)'
  <2> SUFFICES ASSUME pc[d] = "delete_expired", NEW u \in seen[d].expired
               PROVE  OlderThanTTL(u)'
    BY DEF ChosenIsExpired
  <2>1. u \in Traces
    BY <1>1 DEF TypeOK, Reading
  <2>2. OlderThanTTL(u)
    BY <1>1 DEF ClientInv, ChosenIsExpired
  <2>3. created[u] \in Nat /\ created[u] # Never
    BY <2>2, BoundsAssumption DEF OlderThanTTL
  <2>4. /\ clock \in Nat /\ clock' \in Nat /\ clock' >= clock
        /\ created'[u] = created[u]
    BY <1>1, <2>1, <2>3 DEF TypeOK, Evolves
  <2> QED
    BY <2>2, <2>3, <2>4 DEF OlderThanTTL
<1>7. AnswerIsStored(d)' /\ AnswerInHand(d)'
  BY <1>1, <1>3 DEF ClientInv, AnswerIsStored, AnswerInHand, Evolves
<1> QED
  BY <1>2, <1>4, <1>5, <1>6, <1>7 DEF ClientInv

\* A client whose call has ended, and was not about an answer, relies on nothing.
LEMMA Settled ==
    ASSUME NEW c \in Clients, pc'[c] \in {"idle", "returned", "key_error", "integrity_error"},
           op'[c].name # "answer"
    PROVE  ClientInv(c)'
BY DEF ClientInv, NamesOldTrace, FoundRowRemains, FetchInOrder, AnswerInHand, ChosenIsExpired,
       FetchShowsReport, AnswerIsStored, WorkSteps

\* A step of one client, put together.
LEMMA ActorStep ==
    ASSUME IndInv, TypeOK', NEW c \in Clients, Evolves, OldTraces', StatusHasWitness',
           StoredVerdictHasReport', ClientInv(c)',
           \A d \in Clients \ {c} : pc'[d] = pc[d] /\ op'[d] = op[d] /\ seen'[d] = seen[d]
    PROVE  IndInv'
<1>1. ASSUME NEW d \in Clients PROVE ClientInv(d)'
  <2>1. CASE d = c
    BY <2>1
  <2>2. CASE d # c
    BY <2>2, OtherClients
  <2> QED
    BY <2>1, <2>2
<1> QED
  BY <1>1 DEF IndInv

\* A step that reads and writes nothing but the client's own memory.
LEMMA ReadOnlyStep ==
    ASSUME IndInv, TypeOK', NEW c \in Clients, UNCHANGED <<clock, store>>, ClientInv(c)',
           \A d \in Clients \ {c} : pc'[d] = pc[d] /\ op'[d] = op[d] /\ seen'[d] = seen[d]
    PROVE  IndInv'
<1>1. Evolves
  BY DEF Evolves, store, tables, InTable, IndInv, TypeOK
<1>2. OldTraces' /\ StatusHasWitness' /\ StoredVerdictHasReport'
  BY DEF IndInv, OldTraces, StatusHasWitness, StoredVerdictHasReport, store, tables, InTable
<1> QED
  BY <1>1, <1>2, ActorStep

\* The comparison of cleanup_expired chooses only traces past their retention.
LEMMA ExpiredIsOlder ==
    ASSUME TypeOK, OldTraces, NEW t \in Traces, Expired(t)
    PROVE  OlderThanTTL(t)
<1>1. /\ Retention \in Nat /\ clock \in Nat /\ created[t] \in Nat
  BY RetentionAssumption DEF Expired, TypeOK, OldTraces
<1> QED
  BY <1>1 DEF Expired, OlderThanTTL

\* An UPDATE of the status and of one trace's rows, none of which is an answer
\* or a report, disturbs no one who relies on those.
LEMMA RowsOnlyGrow ==
    ASSUME IndInv, TypeOK', NEW t \in Traces, NEW s \in Statuses, SetStatus(t, s),
           clock' = clock, created' = created, purges' = purges,
           answers[t] # None => answers'[t] # None,
           reports[t] # None => reports'[t] # None,
           \A u \in Traces \ {t} : answers'[u] = answers[u] /\ reports'[u] = reports[u]
    PROVE  Evolves
<1>1. \A u \in Traces : InTable(u)' <=> InTable(u)
  BY SetStatusFrame DEF IndInv
<1> QED
  BY <1>1 DEF Evolves, IndInv, TypeOK

-----------------------------------------------------------------------------
(* One step per statement, in the order of the module.                     *)

\* cleanup_expired: what it deletes was past its retention when it was chosen, and
\* all dependent rows go with the row of the trace.
LEMMA CleanupStep ==
    ASSUME IndInv, TypeOK', NEW c \in Clients,
           (\E name \in {"open", "start"} : SelectExpired(c, name)) \/ DeleteExpired(c)
    PROVE  IndInv'
<1> USE DEF Goto, Become
<1>1. TypeOK /\ OldTraces /\ ClientInv(c)
  BY DEF IndInv
<1>2. ASSUME NEW name \in {"open", "start"}, SelectExpired(c, name) PROVE IndInv'
  <2>1. /\ pc'[c] = "delete_expired" /\ op'[c] = Call(name, None)
        /\ seen'[c].expired = {t \in Traces : Expired(t)}
    BY <1>1, <1>2 DEF SelectExpired, TypeOK, Blank
  <2>2. op'[c].name = name
    BY <2>1, CallFields
  <2>3. created' = created /\ clock' = clock
    BY <1>2 DEF SelectExpired, store, tables
  <2>4. ChosenIsExpired(c)'
    BY <1>1, <2>1, <2>3, ExpiredIsOlder DEF ChosenIsExpired, OlderThanTTL
  <2>5. ClientInv(c)'
    BY <2>1, <2>2, <2>4 DEF ClientInv, NamesOldTrace, FoundRowRemains, FetchInOrder,
       AnswerInHand, FetchShowsReport, AnswerIsStored, WorkSteps
  <2> QED
    BY <1>1, <1>2, <2>5, ReadOnlyStep DEF SelectExpired, TypeOK
<1>3. CASE DeleteExpired(c)
  <2>1. \A t \in Traces : created'[t] = created[t] /\ (InTable(t)' => InTable(t))
    BY <1>1, <1>3 DEF DeleteExpired, InTable, TypeOK
  <2>2. \A t \in Traces :
          \/ /\ Deletes(c, t) /\ purges'[t] = purges[t] + 1 /\ ~InTable(t)'
             /\ status'[t] = "none" /\ checks'[t] = {}
          \/ /\ purges'[t] = purges[t] /\ status'[t] = status[t] /\ events'[t] = events[t]
             /\ answers'[t] = answers[t] /\ reports'[t] = reports[t] /\ checks'[t] = checks[t]
    BY <1>3 DEF DeleteExpired, InTable
  <2>3. Evolves
    <3>1. clock' >= clock
      BY <1>1, <1>3 DEF DeleteExpired, TypeOK
    <3>2. ASSUME NEW t \in Traces
          PROVE  /\ purges'[t] >= purges[t]
                 /\ purges'[t] = purges[t] \/ InTable(t)' =>
                      /\ answers[t] # None => answers'[t] # None
                      /\ reports[t] # None => reports'[t] # None
      <4>1. purges[t] \in Nat
        BY <1>1 DEF TypeOK
      <4> QED
        BY <2>2, <4>1
    <3> QED
      BY <2>1, <3>1, <3>2 DEF Evolves
  <2>4. OldTraces'
    BY <1>1, <1>3, <2>1 DEF OldTraces, DeleteExpired
  <2>5. StatusHasWitness'
    BY <2>2 DEF IndInv, StatusHasWitness
  <2>6. StoredVerdictHasReport'
    BY <2>2 DEF IndInv, StoredVerdictHasReport
  <2>7. /\ pc'[c] \in {"insert", "returned"} /\ op'[c].name # "answer"
    BY <1>1, <1>3 DEF DeleteExpired, TypeOK, ClientInv, AnswerInHand
  <2>8. ClientInv(c)'
    BY <2>7 DEF ClientInv, NamesOldTrace, FoundRowRemains, FetchInOrder, AnswerInHand,
       ChosenIsExpired, FetchShowsReport, AnswerIsStored, WorkSteps
  <2> QED
    BY <1>1, <1>3, <2>3, <2>4, <2>5, <2>6, <2>8, ActorStep DEF DeleteExpired, TypeOK
<1> QED
  BY <1>2, <1>3

\* create_trace: an id that was never in the table, so no other call names it.
LEMMA StartStep ==
    ASSUME IndInv, TypeOK', NEW c \in Clients,
           (\E t \in Traces : InsertTrace(c, t)) \/ ReadBack(c)
    PROVE  IndInv'
<1> USE DEF Goto, Become
<1>1. TypeOK /\ OldTraces /\ ClientInv(c) /\ StatusHasWitness /\ StoredVerdictHasReport
  BY DEF IndInv
<1>2. ASSUME NEW t \in Traces, InsertTrace(c, t) PROVE IndInv'
  <2>1. /\ created[t] = Never /\ created'[t] # Never /\ status'[t] = "started"
        /\ \A u \in Traces \ {t} : created'[u] = created[u] /\ status'[u] = status[u]
    BY <1>1, <1>2, BoundsAssumption DEF InsertTrace, TypeOK
  <2>2. /\ answers' = answers /\ reports' = reports /\ checks' = checks /\ events' = events
        /\ purges' = purges /\ session' = session /\ clock' = clock /\ seen' = seen
    BY <1>2 DEF InsertTrace
  <2>3. Evolves
    BY <1>1, <2>1, <2>2 DEF Evolves, InTable, TypeOK
  <2>4. OldTraces'
    BY <1>1, <2>1, <2>2 DEF OldTraces, InTable
  <2>5. StatusHasWitness' /\ StoredVerdictHasReport'
    BY <1>1, <2>1, <2>2 DEF StatusHasWitness, StoredVerdictHasReport
  <2>6. pc'[c] = "read_back" /\ op'[c].name = "start" /\ op'[c].trace = t
    BY <1>1, <1>2, CallFields DEF InsertTrace, TypeOK
  <2>7. ClientInv(c)'
    BY <2>1, <2>6 DEF ClientInv, NamesOldTrace, FoundRowRemains, FetchInOrder, AnswerInHand,
       ChosenIsExpired, FetchShowsReport, AnswerIsStored, WorkSteps
  <2> QED
    BY <1>1, <1>2, <2>3, <2>4, <2>5, <2>7, ActorStep DEF InsertTrace, TypeOK
<1>3. CASE ReadBack(c)
  <2>1. /\ op[c].trace \in Traces /\ created[op[c].trace] # Never /\ op[c].name # "answer"
    BY <1>1, <1>3 DEF ReadBack, ClientInv, NamesOldTrace, AnswerInHand, WorkSteps
  <2>2. UNCHANGED <<clock, tables, purges>>
    BY <1>3 DEF ReadBack
  <2>3. Evolves
    BY <1>1, <2>2 DEF Evolves, tables, InTable, TypeOK
  <2>4. OldTraces'
    BY <1>1, <1>3, <2>1, <2>2 DEF ReadBack, OldTraces, tables, InTable, TypeOK
  <2>5. StatusHasWitness' /\ StoredVerdictHasReport'
    BY <1>1, <2>2 DEF StatusHasWitness, StoredVerdictHasReport, tables
  <2>6. pc'[c] \in {"returned", "key_error"} /\ op'[c].name # "answer"
    BY <1>1, <1>3, <2>1, CallFields DEF ReadBack, Finish, TypeOK
  <2>7. ClientInv(c)'
    BY <2>6, Settled
  <2>8. \A d \in Clients \ {c} : pc'[d] = pc[d] /\ op'[d] = op[d] /\ seen'[d] = seen[d]
    BY <1>1, <1>3 DEF ReadBack, Finish, TypeOK
  <2> QED
    BY <2>3, <2>4, <2>5, <2>7, <2>8, ActorStep
<1> QED
  BY <1>2, <1>3

\* A client in the middle of logging chunks.
LEMMA Logging ==
    ASSUME NEW c \in Clients, pc'[c] \in {"count", "lookup_chunk", "write_chunks"},
           op'[c].trace \in Traces, created'[op'[c].trace] # Never, op'[c].name # "answer",
           op'[c].name = "fetch" => seen'[c].purge <= purges'[op'[c].trace]
    PROVE  ClientInv(c)'
BY DEF ClientInv, NamesOldTrace, FoundRowRemains, FetchInOrder, AnswerInHand, ChosenIsExpired,
       FetchShowsReport, AnswerIsStored, WorkSteps

\* The first statement of a retrieval or context call.
LEMMA LogChunksStep ==
    ASSUME IndInv, TypeOK', NEW c \in Clients, NEW t \in Traces, NEW batch \in Batches,
           \/ LogRetrieval(c, t, batch)
           \/ LogContext(c, t, batch)
           \/ \E ids \in SUBSET ChunkIds : MarkContext(c, t, ids, batch)
    PROVE  IndInv'
<1> USE DEF Goto, Become
<1>1. TypeOK /\ OldTraces /\ StatusHasWitness /\ StoredVerdictHasReport
  BY DEF IndInv
<1>2. ASSUME LogRetrieval(c, t, batch) \/ LogContext(c, t, batch) PROVE IndInv'
  <2>1. /\ created[t] # Never /\ created' = created /\ UNCHANGED <<clock, store>>
    BY <1>1, <1>2 DEF LogRetrieval, LogContext, MayLog, OldTraces, store, tables
  <2>2. op'[c].name \in {"retrieval", "context"} /\ op'[c].trace = t
    <3>1. CASE LogRetrieval(c, t, batch)
      BY <1>1, <3>1, CallFields DEF LogRetrieval, TypeOK
    <3>2. CASE LogContext(c, t, batch)
      BY <1>1, <3>2, CallFields DEF LogContext, TypeOK
    <3> QED
      BY <1>2, <3>1, <3>2
  <2>3. pc'[c] \in {"lookup_chunk", "write_chunks"}
    BY <1>1, <1>2 DEF LogRetrieval, LogContext, AfterCount, TypeOK
  <2>4. ClientInv(c)'
    BY <2>1, <2>2, <2>3, Logging
  <2>5. \A d \in Clients \ {c} : pc'[d] = pc[d] /\ op'[d] = op[d] /\ seen'[d] = seen[d]
    BY <1>1, <1>2 DEF LogRetrieval, LogContext, CountRows, TypeOK
  <2> QED
    BY <2>1, <2>4, <2>5, ReadOnlyStep
<1>3. ASSUME NEW ids \in SUBSET ChunkIds, MarkContext(c, t, ids, batch) PROVE IndInv'
  <2>1. /\ created[t] # Never /\ SetStatus(t, "context_logged")
        /\ UNCHANGED <<clock, created, session, answers, checks, reports, events, purges>>
    BY <1>1, <1>3 DEF MarkContext, MayLog, OldTraces
  <2>2. Evolves
    BY <2>1, RowsOnlyGrow DEF Statuses
  <2>3. OldTraces' /\ StatusHasWitness' /\ StoredVerdictHasReport'
    <3>1. /\ \A u \in Traces : InTable(u)' <=> InTable(u)
          /\ \A u \in Traces \ {t} : status'[u] = status[u]
          /\ status'[t] \in {"context_logged", "none"}
      BY <1>1, <2>1, SetStatusFrame DEF Statuses
    <3> QED
      BY <1>1, <2>1, <3>1 DEF OldTraces, StatusHasWitness, StoredVerdictHasReport
  <2>4. /\ pc'[c] = "count" /\ op'[c].name = "context" /\ op'[c].trace = t
    BY <1>1, <1>3, CallFields DEF MarkContext, TypeOK
  <2>5. ClientInv(c)'
    BY <2>1, <2>4, Logging
  <2>6. \A d \in Clients \ {c} : pc'[d] = pc[d] /\ op'[d] = op[d] /\ seen'[d] = seen[d]
    BY <1>1, <1>3 DEF MarkContext, TypeOK
  <2> QED
    BY <2>2, <2>3, <2>5, <2>6, ActorStep
<1> QED
  BY <1>2, <1>3

\* The statements of upsert_chunks; its status speaks of no other row.
LEMMA WriteChunksStep ==
    ASSUME IndInv, TypeOK', NEW c \in Clients,
           CountChunks(c) \/ LookupChunk(c) \/ WriteChunks(c)
    PROVE  IndInv'
<1> USE DEF Goto, Become
<1> DEFINE t == op[c].trace
<1>1. TypeOK /\ OldTraces /\ StatusHasWitness /\ StoredVerdictHasReport /\ ClientInv(c)
  BY DEF IndInv
<1>2. /\ t \in Traces /\ created[t] # Never /\ op[c].name # "answer"
      /\ purges[t] \in Nat
  <2>1. pc[c] \in {"count", "lookup_chunk", "write_chunks"}
    BY DEF CountChunks, LookupChunk, WriteChunks
  <2>2. t \in Traces /\ created[t] # Never /\ op[c].name # "answer"
    BY <1>1, <2>1 DEF ClientInv, NamesOldTrace, AnswerInHand, WorkSteps
  <2> QED
    BY <1>1, <2>2 DEF TypeOK
<1>3. CASE CountChunks(c)
  <2>1. /\ UNCHANGED <<clock, store>> /\ op' = op /\ created' = created /\ purges' = purges
        /\ seen'[c].purge = 0 /\ pc'[c] \in {"lookup_chunk", "write_chunks"}
    BY <1>1, <1>3 DEF CountChunks, CountRows, AfterCount, Blank, TypeOK, store, tables
  <2>2. ClientInv(c)'
    BY <1>2, <2>1, Logging
  <2>3. \A d \in Clients \ {c} : pc'[d] = pc[d] /\ op'[d] = op[d] /\ seen'[d] = seen[d]
    BY <1>1, <1>3 DEF CountChunks, CountRows, TypeOK
  <2> QED
    BY <2>1, <2>2, <2>3, ReadOnlyStep
<1>4. CASE LookupChunk(c)
  <2>1. /\ UNCHANGED <<clock, store>> /\ op' = op /\ created' = created /\ purges' = purges
        /\ pc'[c] = "write_chunks"
    BY <1>1, <1>4 DEF LookupChunk, TypeOK, store, tables
  <2>2. seen'[c].purge = purges[t]
    BY <1>1, <1>4 DEF LookupChunk, TypeOK, Reading
  <2>3. ClientInv(c)'
    BY <1>2, <2>1, <2>2, Logging
  <2>4. \A d \in Clients \ {c} : pc'[d] = pc[d] /\ op'[d] = op[d] /\ seen'[d] = seen[d]
    BY <1>1, <1>4 DEF LookupChunk, TypeOK
  <2> QED
    BY <2>1, <2>3, <2>4, ReadOnlyStep
<1>5. CASE WriteChunks(c)
  <2>1. /\ pc'[c] \in {"returned", "integrity_error"} /\ op'[c].name # "answer"
        /\ \A d \in Clients \ {c} : pc'[d] = pc[d] /\ op'[d] = op[d] /\ seen'[d] = seen[d]
    BY <1>1, <1>2, <1>5, CallFields DEF WriteChunks, Finish, TypeOK
  <2>2. ClientInv(c)'
    BY <2>1, Settled
  <2>3. UNCHANGED <<clock, created, session, answers, checks, reports, events, purges>>
    BY <1>5 DEF WriteChunks
  <2>4. CASE status' = status
    <3>1. Evolves
      BY <1>1, <2>3, <2>4 DEF Evolves, InTable, TypeOK
    <3>2. OldTraces' /\ StatusHasWitness' /\ StoredVerdictHasReport'
      BY <1>1, <2>3, <2>4 DEF OldTraces, InTable, StatusHasWitness, StoredVerdictHasReport
    <3> QED
      BY <2>1, <2>2, <3>1, <3>2, ActorStep
  <2>5. ASSUME NEW s \in {"context_logged", "retrieval_logged"}, SetStatus(t, s)
        PROVE  IndInv'
    <3>1. Evolves
      BY <1>2, <2>3, <2>5, RowsOnlyGrow DEF Statuses
    <3>2. /\ \A u \in Traces : InTable(u)' <=> InTable(u)
          /\ \A u \in Traces \ {t} : status'[u] = status[u]
          /\ status'[t] \in {s, "none"}
      BY <1>1, <1>2, <2>5, SetStatusFrame DEF Statuses
    <3>3. OldTraces' /\ StatusHasWitness' /\ StoredVerdictHasReport'
      BY <1>1, <2>3, <2>5, <3>2 DEF OldTraces, StatusHasWitness, StoredVerdictHasReport
    <3> QED
      BY <2>1, <2>2, <3>1, <3>3, ActorStep
  <2> QED
    BY <1>5, <2>4, <2>5 DEF WriteChunks
<1> QED
  BY <1>3, <1>4, <1>5

\* save_answer: the branch chosen by the earlier SELECT either finds its row still
\* there, or the trace is gone with it and the status is not set.
LEMMA AnswerStep ==
    ASSUME IndInv, TypeOK', NEW c \in Clients,
           (\E t \in Traces, a \in Answers : LogAnswer(c, t, a)) \/ WriteAnswer(c)
    PROVE  IndInv'
<1> USE DEF Goto, Become
<1>1. TypeOK /\ OldTraces /\ StatusHasWitness /\ StoredVerdictHasReport /\ ClientInv(c)
  BY DEF IndInv
<1>2. ASSUME NEW t \in Traces, NEW a \in Answers, LogAnswer(c, t, a) PROVE IndInv'
  <2>1. /\ created[t] # Never /\ created' = created /\ answers' = answers /\ a # None
        /\ UNCHANGED <<clock, store>>
    BY <1>1, <1>2, NoneAssumption DEF LogAnswer, MayLog, OldTraces, store, tables
  <2>2. /\ op'[c].name = "answer" /\ op'[c].trace = t /\ op'[c].answer = a
        /\ pc'[c] = "write_answer"
    BY <1>1, <1>2, CallFields DEF LogAnswer, TypeOK
  <2>3. seen'[c].hit => answers[t] # None
    BY <1>1, <1>2 DEF LogAnswer, TypeOK, Blank
  <2>4. FoundRowRemains(c)'
    BY <2>1, <2>2, <2>3 DEF FoundRowRemains
  <2>5. ClientInv(c)'
    BY <2>1, <2>2, <2>4 DEF ClientInv, NamesOldTrace, FetchInOrder, AnswerInHand,
       ChosenIsExpired, FetchShowsReport, AnswerIsStored
  <2>6. \A d \in Clients \ {c} : pc'[d] = pc[d] /\ op'[d] = op[d] /\ seen'[d] = seen[d]
    BY <1>1, <1>2 DEF LogAnswer, TypeOK
  <2> QED
    BY <2>1, <2>5, <2>6, ReadOnlyStep
<1>3. CASE WriteAnswer(c)
  <2> DEFINE t == op[c].trace
  <2>1. /\ t \in Traces /\ created[t] # Never
        /\ op[c].name = "answer" /\ op[c].answer # None
        /\ seen[c].hit /\ (InTable(t) \/ purges[t] = 0) => answers[t] # None
    BY <1>1, <1>3
    DEF WriteAnswer, ClientInv, NamesOldTrace, FoundRowRemains, AnswerInHand, WorkSteps
  <2>2. /\ UNCHANGED <<clock, created, session, checks, reports, events, purges>>
        /\ op'[c].trace = t
        /\ \A d \in Clients \ {c} : pc'[d] = pc[d] /\ op'[d] = op[d] /\ seen'[d] = seen[d]
    BY <1>1, <1>3, CallFields DEF WriteAnswer, Finish, TypeOK
  <2>3. CASE pc'[c] = "integrity_error"
    <3>1. status' = status /\ answers' = answers
      BY <1>1, <1>3, <2>3 DEF WriteAnswer, Finish, TypeOK
    <3>2. Evolves
      BY <1>1, <2>2, <3>1 DEF Evolves, InTable, TypeOK
    <3>3. OldTraces' /\ StatusHasWitness' /\ StoredVerdictHasReport'
      BY <1>1, <2>2, <3>1 DEF OldTraces, InTable, StatusHasWitness, StoredVerdictHasReport
    <3>4. ClientInv(c)'
      BY <2>1, <2>2, <2>3 DEF ClientInv, NamesOldTrace, FoundRowRemains, FetchInOrder,
         AnswerInHand, ChosenIsExpired, FetchShowsReport, AnswerIsStored, WorkSteps
    <3> QED
      BY <2>2, <3>2, <3>3, <3>4, ActorStep
  <2>4. CASE pc'[c] = "returned"
    <3>1. /\ SetStatus(t, "answer_logged")
          /\ answers' = [answers EXCEPT ![t] = AnswerAfter(c, @)]
      BY <1>1, <1>3, <2>4 DEF WriteAnswer, Finish, TypeOK
    <3>2. /\ \A u \in Traces \ {t} : answers'[u] = answers[u]
          /\ answers[t] # None => answers'[t] # None
          /\ InTable(t) \/ purges[t] = 0 => answers'[t] # None
      BY <1>1, <2>1, <3>1 DEF AnswerAfter, TypeOK
    <3>3. /\ \A u \in Traces : InTable(u)' <=> InTable(u)
          /\ \A u \in Traces \ {t} : status'[u] = status[u]
          /\ status'[t] \in {"answer_logged", "none"}
      BY <1>1, <2>1, <3>1, SetStatusFrame DEF Statuses
    <3>4. Evolves
      BY <2>1, <2>2, <3>1, <3>2, RowsOnlyGrow DEF Statuses
    <3>5. OldTraces' /\ StoredVerdictHasReport'
      BY <1>1, <2>2, <3>3 DEF OldTraces, StoredVerdictHasReport
    <3>6. StatusHasWitness'
      <4>1. status'[t] = "answer_logged" => answers'[t] # None
        <5>1. \A u \in Traces : InTable(u)' <=> status'[u] # "none"
          BY DEF InTable
        <5> QED
          BY <2>1, <3>2, <3>3, <5>1
      <4> QED
        BY <1>1, <2>2, <3>2, <3>3, <4>1 DEF StatusHasWitness
    <3>7. ClientInv(c)'
      <4>1. op'[c].name = "answer"
        BY <1>1, <1>3, <2>1, CallFields DEF WriteAnswer, Finish, TypeOK
      <4> QED
        BY <2>1, <2>2, <2>4, <3>2, <4>1
        DEF ClientInv, NamesOldTrace, FoundRowRemains, FetchInOrder,
            AnswerInHand, ChosenIsExpired, FetchShowsReport, AnswerIsStored, WorkSteps
    <3> QED
      BY <2>2, <3>4, <3>5, <3>6, <3>7, ActorStep
  <2> QED
    BY <1>1, <1>3, <2>3, <2>4 DEF WriteAnswer, Finish, TypeOK
<1> QED
  BY <1>2, <1>3

\* save_citations leaves only pending checks; add_agent_event adds an event.
LEMMA CitationsAndEventsStep ==
    ASSUME IndInv, TypeOK', NEW c \in Clients, NEW t \in Traces,
           \/ \E citations \in CitationSets : LogCitations(c, t, citations)
           \/ LogAgentEvent(c, t)
    PROVE  IndInv'
<1> USE DEF Goto, Become
<1>1. TypeOK /\ OldTraces /\ StatusHasWitness /\ StoredVerdictHasReport
  BY DEF IndInv
<1>2. /\ pc'[c] = "returned" /\ op'[c].name # "answer"
      /\ \A d \in Clients \ {c} : pc'[d] = pc[d] /\ op'[d] = op[d] /\ seen'[d] = seen[d]
  BY <1>1, CallFields DEF LogCitations, LogAgentEvent, TypeOK
<1>3. ClientInv(c)'
  BY <1>2, Settled
<1>4. ASSUME NEW citations \in CitationSets, LogCitations(c, t, citations) PROVE IndInv'
  <2>1. /\ SetStatus(t, "citations_logged")
        /\ UNCHANGED <<clock, created, session, answers, reports, events, purges>>
    BY <1>4 DEF LogCitations
  <2>2. /\ \A k \in checks'[t] : k.status = "pending"
        /\ \A u \in Traces \ {t} : checks'[u] = checks[u]
    BY <1>1, <1>4, PendingChecksType, CitationSetsAssumption DEF LogCitations, TypeOK
  <2>3. /\ \A u \in Traces : InTable(u)' <=> InTable(u)
        /\ \A u \in Traces \ {t} : status'[u] = status[u]
        /\ status'[t] \in {"citations_logged", "none"}
    BY <1>1, <2>1, SetStatusFrame DEF Statuses
  <2>4. Evolves
    BY <2>1, RowsOnlyGrow DEF Statuses
  <2>5. OldTraces' /\ StatusHasWitness'
    BY <1>1, <2>1, <2>3 DEF OldTraces, StatusHasWitness
  <2>6. StoredVerdictHasReport'
    BY <1>1, <2>1, <2>2 DEF StoredVerdictHasReport
  <2> QED
    BY <1>2, <1>3, <2>4, <2>5, <2>6, ActorStep
<1>5. CASE LogAgentEvent(c, t)
  <2>1. /\ SetStatus(t, "agent_event_logged")
        /\ UNCHANGED <<clock, created, session, answers, checks, reports, purges>>
    BY <1>5 DEF LogAgentEvent
  <2>2. events'[t] > 0 /\ \A u \in Traces \ {t} : events'[u] = events[u]
    <3>1. events[t] \in Nat
      BY <1>1 DEF TypeOK
    <3> QED
      BY <1>1, <1>5, <3>1 DEF LogAgentEvent, TypeOK
  <2>3. /\ \A u \in Traces : InTable(u)' <=> InTable(u)
        /\ \A u \in Traces \ {t} : status'[u] = status[u]
        /\ status'[t] \in {"agent_event_logged", "none"}
    BY <1>1, <2>1, SetStatusFrame DEF Statuses
  <2>4. Evolves
    BY <2>1, RowsOnlyGrow DEF Statuses
  <2>5. OldTraces' /\ StoredVerdictHasReport'
    BY <1>1, <2>1, <2>3 DEF OldTraces, StoredVerdictHasReport
  <2>6. StatusHasWitness'
    BY <1>1, <2>1, <2>2, <2>3 DEF StatusHasWitness
  <2> QED
    BY <1>2, <1>3, <2>4, <2>5, <2>6, ActorStep
<1> QED
  BY <1>4, <1>5

\* The reads of get_trace, and the SELECT of the report before save_evaluation.
LEMMA ReadStep ==
    ASSUME IndInv, TypeOK', NEW c \in Clients,
           \/ \E t \in Traces : Evaluate(c, t) \/ Fetch(c, t)
           \/ ReadChunks(c) \/ ReadChecks(c) \/ ReadReport(c) \/ LookupReport(c)
    PROVE  IndInv'
<1> USE DEF Goto, Become
<1>1. TypeOK /\ OldTraces /\ StatusHasWitness /\ StoredVerdictHasReport /\ ClientInv(c)
  BY DEF IndInv
<1>2. UNCHANGED <<clock, store>>
  BY DEF Evaluate, Fetch, ReadChunks, ReadChecks, ReadReport, LookupReport
<1>3. /\ status' = status /\ created' = created /\ session' = session
      /\ reports' = reports /\ checks' = checks /\ purges' = purges
  BY <1>2 DEF store, tables
<1>4. \A d \in Clients \ {c} : pc'[d] = pc[d] /\ op'[d] = op[d] /\ seen'[d] = seen[d]
  BY <1>1 DEF Evaluate, Fetch, ReadChunks, ReadChecks, ReadReport, LookupReport, TypeOK
<1>5. ASSUME NEW t \in Traces, Evaluate(c, t) PROVE ClientInv(c)'
  <2>1. /\ op'[c].name = "evaluate" /\ op'[c].trace = t /\ created[t] # Never
        /\ pc'[c] \in {"read_chunks", "key_error"}
    BY <1>1, <1>5, CallFields DEF Evaluate, MayLog, OldTraces, TypeOK
  <2> QED
    BY <1>3, <2>1 DEF ClientInv, NamesOldTrace, FoundRowRemains, FetchInOrder, AnswerInHand,
       ChosenIsExpired, FetchShowsReport, AnswerIsStored
<1>6. ASSUME NEW t \in Traces, Fetch(c, t) PROVE ClientInv(c)'
  <2>1. /\ op'[c].name = "fetch" /\ op'[c].trace = t /\ created[t] # Never
        /\ pc'[c] \in {"read_checks", "key_error"}
    BY <1>1, <1>6, CallFields DEF Fetch, TypeOK
  <2>2. seen'[c].purge = purges[t] /\ purges[t] \in Nat
    BY <1>1, <1>6 DEF Fetch, TypeOK, Reading
  <2> QED
    BY <1>3, <2>1, <2>2 DEF ClientInv, NamesOldTrace, FoundRowRemains, FetchInOrder,
       AnswerInHand, ChosenIsExpired, FetchShowsReport, AnswerIsStored
<1>7. ASSUME ReadChunks(c) \/ ReadChecks(c) \/ ReadReport(c) \/ LookupReport(c)
      PROVE  ClientInv(c)'
  <2> DEFINE t == op[c].trace
  <2>1. pc[c] \in {"read_chunks", "read_checks", "read_report", "lookup_report"}
    BY <1>7 DEF ReadChunks, ReadChecks, ReadReport, LookupReport
  <2>2. /\ pc[c] \in WorkSteps /\ op' = op /\ op[c].name # "answer"
        /\ t \in Traces /\ created[t] # Never
        /\ op[c].name = "fetch" => seen[c].purge <= purges[t]
    BY <1>1, <1>7, <2>1 DEF ClientInv, NamesOldTrace, AnswerInHand, FetchInOrder, WorkSteps,
       ReadChunks, ReadChecks, ReadReport, LookupReport
  <2>3. NamesOldTrace(c)'
    BY <1>3, <2>2 DEF NamesOldTrace
  <2>4. CASE ReadChunks(c)
    <3>1. pc'[c] = "read_checks" /\ seen'[c].purge = seen[c].purge
      BY <1>1, <2>4 DEF ReadChunks, TypeOK, Reading
    <3> QED
      BY <1>3, <2>2, <2>3, <3>1 DEF ClientInv, FoundRowRemains, FetchInOrder, AnswerInHand,
         ChosenIsExpired, FetchShowsReport, AnswerIsStored
  <2>5. CASE ReadChecks(c)
    <3>1. /\ pc'[c] = AfterChecks(c) /\ seen'[c].purge = seen[c].purge
          /\ seen'[c].checks = checks[t]
      BY <1>1, <2>5 DEF ReadChecks, TypeOK, Reading
    <3>2. /\ pc'[c] \in {"read_report", "lookup_report", "save"}
          /\ pc'[c] = "read_report" => op[c].name = "fetch"
          /\ pc'[c] = "save" => checks[t] # {}
      BY <3>1 DEF AfterChecks
    <3>3. (\E k \in seen'[c].checks : k.status # "pending") => reports[t] # None
      BY <1>1, <2>2, <3>1 DEF StoredVerdictHasReport
    <3>4. FoundRowRemains(c)'
      BY <2>2, <3>1, <3>2 DEF FoundRowRemains
    <3>5. FetchInOrder(c)'
      BY <1>3, <2>2, <3>1, <3>2, <3>3 DEF FetchInOrder
    <3> QED
      BY <2>2, <2>3, <3>2, <3>4, <3>5 DEF ClientInv, AnswerInHand, ChosenIsExpired,
         FetchShowsReport, AnswerIsStored
  <2>6. CASE ReadReport(c)
    <3>1. /\ pc'[c] = "fetched" /\ seen'[c].purge = seen[c].purge
          /\ seen'[c].checks = seen[c].checks /\ seen'[c].report = reports[t]
          /\ pc[c] = "read_report"
      BY <1>1, <2>6 DEF ReadReport, TypeOK, Reading
    <3>2. FetchShowsReport(c)'
      BY <1>1, <1>3, <2>2, <3>1 DEF ClientInv, FetchInOrder, FetchShowsReport
    <3>3. FetchInOrder(c)'
      BY <1>1, <1>3, <2>2, <3>1 DEF ClientInv, FetchInOrder
    <3> QED
      BY <2>2, <2>3, <3>1, <3>2, <3>3 DEF ClientInv, FoundRowRemains, AnswerInHand,
         ChosenIsExpired, AnswerIsStored
  <2>7. CASE LookupReport(c)
    <3>1. /\ pc'[c] = "save" /\ seen'[c].hit = (reports[t] # None)
          /\ seen'[c].purge = seen[c].purge
      BY <1>1, <2>7 DEF LookupReport, TypeOK, Reading
    <3>2. FoundRowRemains(c)'
      BY <1>3, <2>2, <3>1 DEF FoundRowRemains
    <3>3. FetchInOrder(c)'
      BY <1>3, <2>2, <3>1 DEF FetchInOrder
    <3> QED
      BY <2>2, <2>3, <3>1, <3>2, <3>3 DEF ClientInv, AnswerInHand, ChosenIsExpired,
         FetchShowsReport, AnswerIsStored
  <2> QED
    BY <1>7, <2>4, <2>5, <2>6, <2>7
<1> QED
  BY <1>2, <1>4, <1>5, <1>6, <1>7, ReadOnlyStep

\* save_evaluation: when its UPDATE of the report finds no row it had no check to
\* update either, and the trace is gone.
LEMMA SaveStep ==
    ASSUME IndInv, TypeOK', NEW c \in Clients, SaveEvaluation(c)
    PROVE  IndInv'
<1> USE DEF Goto, Become
<1> DEFINE t == op[c].trace
<1>1. TypeOK /\ OldTraces /\ StatusHasWitness /\ StoredVerdictHasReport /\ ClientInv(c)
  BY DEF IndInv
<1>2. /\ pc[c] = "save" /\ t \in Traces /\ created[t] # Never /\ op[c].name # "answer"
      /\ seen[c].checks = {} /\ seen[c].hit /\ InTable(t) => reports[t] # None
  BY <1>1 DEF SaveEvaluation, ClientInv, NamesOldTrace, AnswerInHand, FoundRowRemains, WorkSteps
<1>3. /\ UNCHANGED <<clock, created, session, chunks, answers, events, purges>>
      /\ pc'[c] \in {"returned", "integrity_error"} /\ op'[c].name # "answer"
      /\ \A d \in Clients \ {c} : pc'[d] = pc[d] /\ op'[d] = op[d] /\ seen'[d] = seen[d]
  BY <1>1, <1>2, CallFields DEF SaveEvaluation, Finish, TypeOK
<1>4. ClientInv(c)'
  BY <1>3, Settled
<1>5. CASE UNCHANGED <<status, checks, reports>>
  <2>1. Evolves
    BY <1>1, <1>3, <1>5 DEF Evolves, InTable, TypeOK
  <2>2. OldTraces' /\ StatusHasWitness' /\ StoredVerdictHasReport'
    BY <1>1, <1>3, <1>5 DEF OldTraces, InTable, StatusHasWitness, StoredVerdictHasReport
  <2> QED
    BY <1>3, <1>4, <2>1, <2>2, ActorStep
<1>6. ASSUME SetStatus(t, "evaluated"),
             checks' = [checks EXCEPT ![t] = WithVerdicts(@, Computed(c).checks)],
             reports' = [reports EXCEPT ![t] =
                           IF FoundReport(c) /\ @ = None THEN None ELSE Computed(c)]
      PROVE  IndInv'
  <2>1. /\ seen[c].chunks \in ChunkTable /\ seen[c].checks \in SUBSET CheckRow
        /\ checks[t] \in SUBSET CheckRow
    BY <1>1, <1>2 DEF TypeOK, Reading
  <2>2. /\ Computed(c) # None /\ Computed(c).checks \in SUBSET CheckRow
        /\ seen[c].checks = {} => Computed(c).checks = {}
    <3>1. Computed(c) # None /\ Computed(c) \in Report
      BY <2>1, EvaluationOfType DEF Computed
    <3>2. seen[c].checks = {} => Computed(c).checks = {}
      BY DEF Computed, EvaluationOf, Evaluated
    <3> QED
      BY <3>1, <3>2 DEF Report
  <2>3. /\ \A u \in Traces \ {t} : reports'[u] = reports[u] /\ checks'[u] = checks[u]
        /\ checks'[t] = WithVerdicts(checks[t], Computed(c).checks)
        /\ reports'[t] = IF FoundReport(c) /\ reports[t] = None THEN None ELSE Computed(c)
    BY <1>1, <1>2, <1>6 DEF TypeOK
  <2>4. reports[t] # None => reports'[t] # None
    BY <2>2, <2>3
  <2>5. /\ \A u \in Traces : InTable(u)' <=> InTable(u)
        /\ \A u \in Traces \ {t} : status'[u] = status[u]
        /\ status'[t] \in {"evaluated", "none"}
    BY <1>1, <1>2, <1>6, SetStatusFrame DEF Statuses
  <2>6. Evolves
    BY <1>2, <1>3, <1>6, <2>3, <2>4, RowsOnlyGrow DEF Statuses
  <2>7. OldTraces'
    BY <1>1, <1>3, <2>5 DEF OldTraces
  <2>8. StatusHasWitness'
    <3>1. status'[t] = "evaluated" => reports'[t] # None
      <4>1. \A u \in Traces : InTable(u)' <=> status'[u] # "none"
        BY DEF InTable
      <4>2. status'[t] = "evaluated" => ~(FoundReport(c) /\ reports[t] = None)
        BY <1>2, <2>5, <4>1 DEF FoundReport
      <4> QED
        BY <2>2, <2>3, <4>2
    <3> QED
      BY <1>1, <1>3, <2>3, <2>5, <3>1 DEF StatusHasWitness
  <2>9. StoredVerdictHasReport'
    <3>1. CASE FoundReport(c) /\ reports[t] = None
      <4>1. seen[c].checks = {}
        BY <3>1 DEF FoundReport
      <4>2. checks'[t] = checks[t] /\ reports'[t] = reports[t]
        BY <2>1, <2>2, <2>3, <3>1, <4>1, WithVerdictsType
      <4> QED
        BY <1>1, <2>3, <4>2 DEF StoredVerdictHasReport
    <3>2. CASE ~(FoundReport(c) /\ reports[t] = None)
      <4>1. reports'[t] # None
        BY <2>2, <2>3, <3>2
      <4> QED
        BY <1>1, <2>3, <4>1 DEF StoredVerdictHasReport
    <3> QED
      BY <3>1, <3>2
  <2> QED
    BY <1>3, <1>4, <2>6, <2>7, <2>8, <2>9, ActorStep
<1> QED
  BY <1>5, <1>6 DEF SaveEvaluation

\* The invariant is inductive.
THEOREM IndStep == IndInv /\ [Next]_vars => IndInv'
<1> SUFFICES ASSUME IndInv, [Next]_vars PROVE IndInv'
  OBVIOUS
<1> USE DEF Goto, Become
<1>1. TypeOK'
  BY TypeStep DEF IndInv, ClientInv
<1>2. ASSUME NEW c \in Clients, Begin(c) \/ Continue(c) PROVE IndInv'
  <2>1. CASE Return(c)
    <3>1. /\ pc'[c] = "idle" /\ op'[c].name # "answer"
          /\ \A d \in Clients \ {c} : pc'[d] = pc[d] /\ op'[d] = op[d] /\ seen'[d] = seen[d]
      BY <2>1 DEF Return, IndInv, TypeOK, NoOp
    <3>2. ClientInv(c)'
      BY <3>1, Settled
    <3> QED
      BY <1>1, <2>1, <3>1, <3>2, ReadOnlyStep DEF Return
  <2> QED
    BY <1>1, <1>2, <2>1, CleanupStep, StartStep, LogChunksStep, WriteChunksStep, AnswerStep,
       CitationsAndEventsStep, ReadStep, SaveStep
    DEF Begin, Continue
<1>3. ASSUME NEW c \in Clients, Abandon(c) PROVE IndInv'
  <2>1. /\ pc'[c] = "idle" /\ op'[c].name # "answer"
        /\ \A d \in Clients \ {c} : pc'[d] = pc[d] /\ op'[d] = op[d] /\ seen'[d] = seen[d]
    BY <1>3 DEF Abandon, IndInv, TypeOK, NoOp
  <2>2. ClientInv(c)'
    BY <2>1, Settled
  <2> QED
    BY <1>1, <1>3, <2>1, <2>2, ReadOnlyStep DEF Abandon
<1>4. CASE Tick \/ UNCHANGED vars
  <2>1. UNCHANGED <<store, pc, op, seen>> /\ clock' >= clock
    BY <1>4 DEF Tick, vars, IndInv, TypeOK
  <2>2. Evolves
    BY <2>1 DEF Evolves, store, tables, InTable, IndInv, TypeOK
  <2>3. \A c \in Clients : ClientInv(c)'
    BY <1>1, <2>1, <2>2, OtherClients
  <2>4. OldTraces' /\ StatusHasWitness' /\ StoredVerdictHasReport'
    BY <2>1 DEF IndInv, OldTraces, StatusHasWitness, StoredVerdictHasReport, store, tables, InTable
  <2> QED
    BY <1>1, <2>3, <2>4 DEF IndInv
<1> QED
  BY <1>2, <1>3, <1>4 DEF Next

-----------------------------------------------------------------------------
(* What holds in every state.                                              *)

\* The inductive invariant holds in every state.
LEMMA Invariance == Spec => []IndInv
<1>1. Init => IndInv
  BY IndInit
<1>2. IndInv /\ [Next]_vars => IndInv'
  BY IndStep
<1> QED
  BY <1>1, <1>2, PTL DEF Spec

\* Every table column, program counter and value a call has read is in its range.
THEOREM TypeCorrect == Spec => []TypeOK
<1>1. IndInv => TypeOK
  BY DEF IndInv
<1> QED
  BY <1>1, Invariance, PTL

\* A status never speaks of an answer, a report or an event that is not there,
\* however many clients share a session and whatever cleanups and crashes occur.
THEOREM StatusIsWitnessed == Spec => []StatusHasWitness
<1>1. IndInv => StatusHasWitness
  BY DEF IndInv
<1> QED
  BY <1>1, Invariance, PTL

\* A stored verdict is always explained by a stored report, orphaned rows included,
\* and get_trace never shows one without the other, unless a cleanup came in between.
THEOREM VerdictIsExplained == Spec => []VerdictHasReport
<1>1. IndInv => VerdictHasReport
  BY DEF IndInv, ClientInv, VerdictHasReport
<1> QED
  BY <1>1, Invariance, PTL

\* No answer whose call returned is lost but to a cleanup.
THEOREM AnswerIsKept == Spec => []AcceptedAnswerIsStored
<1>1. IndInv => AcceptedAnswerIsStored
  BY DEF IndInv, ClientInv, AcceptedAnswerIsStored
<1> QED
  BY <1>1, Invariance, PTL

-----------------------------------------------------------------------------
(* What no step does.                                                      *)

\* Rows that are left alone are kept.
LEMMA SameRows ==
    ASSUME TypeOK, NEW t \in Traces, InTable(t)', chunks'[t] = chunks[t],
           answers'[t] = answers[t], reports'[t] = reports[t], events'[t] = events[t]
    PROVE  Kept(t)
<1>1. events[t] \in Nat
  BY DEF TypeOK
<1> QED
  BY <1>1 DEF Kept, InTable, LoggedIds

\* The transaction of upsert_chunks drops no row.
LEMMA ChunksAreKept ==
    ASSUME IndInv, NEW c \in Clients, WriteChunks(c), NEW t \in Traces, NEW id \in ChunkIds,
           chunks[t][id] # None
    PROVE  chunks'[t][id] # None
<1> DEFINE u == op[c].trace  row == chunks[u][id]
<1>1. TypeOK /\ u \in Traces
  BY DEF IndInv, ClientInv, NamesOldTrace, WriteChunks, WorkSteps
<1>2. CASE t # u \/ chunks' = chunks
  BY <1>1, <1>2 DEF WriteChunks, TypeOK
<1>3. CASE t = u /\ chunks' = [chunks EXCEPT ![u] = [i \in ChunkIds |-> ChunkAfter(c, i)]]
  <2>1. chunks'[t][id] = ChunkAfter(c, id)
    BY <1>1, <1>3 DEF TypeOK
  <2> QED
    BY <1>1, <1>3, <2>1, ChunkAfterType
<1> QED
  BY <1>2, <1>3 DEF WriteChunks

\* No step but a cleanup's takes a row out of any table.
LEMMA RowsAreKept ==
    ASSUME IndInv, IndInv', [Next]_vars, NEW t \in Traces, InTable(t),
           \A c \in Clients : ~DeleteExpired(c)
    PROVE  Kept(t)
<1>1. /\ TypeOK /\ TypeOK' /\ OldTraces /\ created[t] # Never
      /\ \A c \in Clients : ClientInv(c)
  BY DEF IndInv, OldTraces
<1>2. CASE UNCHANGED <<chunks, answers, reports, events>> /\ InTable(t)'
  BY <1>1, <1>2, SameRows
<1>3. ASSUME NEW s \in Statuses, NEW u \in Traces, SetStatus(u, s) PROVE InTable(t)'
  BY <1>1, <1>3, SetStatusFrame
<1>4. ASSUME NEW c \in Clients, NEW u \in Traces, InsertTrace(c, u) PROVE Kept(t)
  <2>1. UNCHANGED <<chunks, answers, reports, events>> /\ InTable(t)'
    BY <1>1, <1>4 DEF InsertTrace, InTable, TypeOK
  <2> QED
    BY <1>2, <2>1
<1>5. ASSUME NEW c \in Clients, NEW u \in Traces, NEW batch, NEW ids, MarkContext(c, u, ids, batch)
      PROVE  Kept(t)
  <2>1. InTable(t)' /\ UNCHANGED <<answers, reports, events>>
    BY <1>3, <1>5 DEF MarkContext, Statuses
  <2>2. \A id \in ChunkIds : chunks'[t][id] = None <=> chunks[t][id] = None
    BY <1>1, <1>5, MarkedType DEF MarkContext, TypeOK
  <2>3. events[t] \in Nat
    BY <1>1 DEF TypeOK
  <2> QED
    BY <2>1, <2>2, <2>3 DEF Kept, InTable, LoggedIds
<1>6. ASSUME NEW c \in Clients, WriteChunks(c) PROVE Kept(t)
  <2>1. op[c].trace \in Traces
    BY <1>1, <1>6 DEF ClientInv, NamesOldTrace, WriteChunks, WorkSteps
  <2>2. UNCHANGED <<answers, reports, events>>
    BY <1>6 DEF WriteChunks
  <2>3. InTable(t)'
    <3>1. CASE status' = status
      BY <3>1 DEF InTable
    <3>2. CASE SetStatus(op[c].trace, IF op[c].selected THEN "context_logged" ELSE "retrieval_logged")
      BY <1>3, <2>1, <3>2 DEF Statuses
    <3> QED
      BY <1>6, <3>1, <3>2 DEF WriteChunks
  <2>4. \A id \in ChunkIds : chunks[t][id] # None => chunks'[t][id] # None
    BY <1>6, ChunksAreKept
  <2>5. events[t] \in Nat
    BY <1>1 DEF TypeOK
  <2> QED
    BY <2>2, <2>3, <2>4, <2>5 DEF Kept, InTable, LoggedIds
<1>7. ASSUME NEW c \in Clients, WriteAnswer(c) PROVE Kept(t)
  <2>1. /\ op[c].trace \in Traces /\ op[c].answer # None
    BY <1>1, <1>7 DEF ClientInv, NamesOldTrace, AnswerInHand, WriteAnswer, WorkSteps
  <2>2. UNCHANGED <<chunks, reports, events>>
    BY <1>7 DEF WriteAnswer
  <2>3. InTable(t)'
    <3>1. CASE status' = status
      BY <3>1 DEF InTable
    <3>2. CASE SetStatus(op[c].trace, "answer_logged")
      BY <1>3, <2>1, <3>2 DEF Statuses
    <3> QED
      BY <1>7, <3>1, <3>2 DEF WriteAnswer
  <2>4. answers[t] # None => answers'[t] # None
    BY <1>1, <1>7, <2>1 DEF WriteAnswer, AnswerAfter, TypeOK
  <2>5. events[t] \in Nat
    BY <1>1 DEF TypeOK
  <2> QED
    BY <2>2, <2>3, <2>4, <2>5 DEF Kept, InTable, LoggedIds
<1>8. ASSUME NEW c \in Clients, NEW u \in Traces, NEW citations, LogCitations(c, u, citations)
      PROVE  Kept(t)
  <2>1. UNCHANGED <<chunks, answers, reports, events>> /\ InTable(t)'
    BY <1>3, <1>8 DEF LogCitations, Statuses
  <2> QED
    BY <1>2, <2>1
<1>9. ASSUME NEW c \in Clients, NEW u \in Traces, LogAgentEvent(c, u) PROVE Kept(t)
  <2>1. UNCHANGED <<chunks, answers, reports>> /\ InTable(t)'
    BY <1>3, <1>9 DEF LogAgentEvent, Statuses
  <2>2. events[t] \in Nat /\ events'[t] \in {events[t], events[t] + 1}
    BY <1>1, <1>9 DEF LogAgentEvent, TypeOK
  <2> QED
    BY <2>1, <2>2 DEF Kept, InTable, LoggedIds
<1>10. ASSUME NEW c \in Clients, SaveEvaluation(c) PROVE Kept(t)
  <2>1. op[c].trace \in Traces
    BY <1>1, <1>10 DEF ClientInv, NamesOldTrace, SaveEvaluation, WorkSteps
  <2>2. UNCHANGED <<chunks, answers, events>>
    BY <1>10 DEF SaveEvaluation
  <2>3. InTable(t)'
    <3>1. CASE status' = status
      BY <3>1 DEF InTable
    <3>2. CASE SetStatus(op[c].trace, "evaluated")
      BY <1>3, <2>1, <3>2 DEF Statuses
    <3> QED
      BY <1>10, <3>1, <3>2 DEF SaveEvaluation
  <2>4. reports[t] # None => reports'[t] # None
    <3>1. Computed(c) # None
      <4>1. seen[c].chunks \in ChunkTable /\ seen[c].checks \in SUBSET CheckRow
        BY <1>1 DEF TypeOK, Reading
      <4> QED
        BY <4>1, EvaluationOfType DEF Computed
    <3> QED
      BY <1>1, <1>10, <2>1, <3>1 DEF SaveEvaluation, TypeOK
  <2>5. events[t] \in Nat
    BY <1>1 DEF TypeOK
  <2> QED
    BY <2>2, <2>3, <2>4, <2>5 DEF Kept, InTable, LoggedIds
<1>11. CASE UNCHANGED store \/ UNCHANGED tables
  BY <1>2, <1>11 DEF store, tables, InTable
<1>12. ASSUME NEW c \in Clients, Begin(c) \/ Continue(c) \/ Abandon(c) PROVE Kept(t)
  <2>1. ASSUME NEW name, SelectExpired(c, name) PROVE Kept(t)
    BY <1>11, <2>1 DEF SelectExpired
  <2>2. ASSUME NEW u, NEW batch, LogRetrieval(c, u, batch) \/ LogContext(c, u, batch)
        PROVE  Kept(t)
    BY <1>11, <2>2 DEF LogRetrieval, LogContext
  <2>3. ASSUME NEW u, NEW a, LogAnswer(c, u, a) \/ Evaluate(c, u) \/ Fetch(c, u) PROVE Kept(t)
    BY <1>11, <2>3 DEF LogAnswer, Evaluate, Fetch
  <2>4. CASE Begin(c)
    BY <1>4, <1>5, <1>8, <1>9, <2>1, <2>2, <2>3, <2>4 DEF Begin
  <2>5. CASE ReadBack(c) \/ CountChunks(c) \/ LookupChunk(c) \/ Return(c) \/ Abandon(c)
    BY <1>11, <2>5 DEF ReadBack, CountChunks, LookupChunk, Return, Abandon
  <2>6. CASE ReadChunks(c) \/ ReadChecks(c) \/ ReadReport(c) \/ LookupReport(c)
    BY <1>11, <2>6 DEF ReadChunks, ReadChecks, ReadReport, LookupReport
  <2> QED
    BY <1>4, <1>6, <1>7, <1>10, <1>12, <2>4, <2>5, <2>6 DEF Continue
<1> QED
  BY <1>11, <1>12 DEF Next, Tick, vars

\* A trace that has not outlived its retention loses no row to any step.
THEOREM LiveTraceKept == Spec => LiveTraceIsKept
<1> DEFINE Keeps == \A t \in Traces : InTable(t) /\ ~OlderThanTTL(t) => Kept(t)
<1>1. IndInv /\ IndInv' /\ [Next]_vars => Keeps
  <2> SUFFICES ASSUME IndInv, IndInv', [Next]_vars,
                      NEW t \in Traces, InTable(t), ~OlderThanTTL(t)
               PROVE  Kept(t)
    OBVIOUS
  <2>1. ASSUME NEW c \in Clients, DeleteExpired(c) PROVE Kept(t)
    <3>1. ~Deletes(c, t)
      BY <2>1 DEF IndInv, ClientInv, ChosenIsExpired, DeleteExpired, Deletes
    <3>2. /\ InTable(t)' /\ chunks'[t] = chunks[t] /\ answers'[t] = answers[t]
          /\ reports'[t] = reports[t] /\ events'[t] = events[t]
      BY <2>1, <3>1 DEF DeleteExpired, InTable
    <3> QED
      BY <3>2, SameRows DEF IndInv
  <2> QED
    BY <2>1, RowsAreKept
<1>2. Keeps => [Keeps]_vars
  OBVIOUS
<1> HIDE DEF Keeps
<1>3. Spec => [][Keeps]_vars
  BY <1>1, <1>2, Invariance, PTL DEF Spec
<1> QED
  BY <1>3 DEF LiveTraceIsKept, Keeps
-----------------------------------------------------------------------------
(* Sessions of one user.                                                   *)

\* Saving an evaluation of the rows that are there makes the trace one whose
\* evaluation is what is stored: an evaluation does not look at old verdicts.
LEMMA SavedIsFresh ==
    ASSUME NEW rows \in ChunkTable, NEW stored \in SUBSET CheckRow
    PROVE  LET after == Evaluated(rows, stored)
           IN /\ WithVerdicts(stored, after) = after
              /\ Evaluated(rows, after) = after
              /\ EvaluationOf(rows, after) = EvaluationOf(rows, stored)
<1> DEFINE after == Evaluated(rows, stored)
<1>1. ASSUME NEW j \in CheckRow, NEW k \in CheckRow, j.claim = k.claim, j.source = k.source
      PROVE  Judged(rows, j) = Judged(rows, k)
  BY <1>1 DEF Judged
<1>2. ASSUME NEW k \in CheckRow
      PROVE  /\ Judged(rows, k).claim = k.claim /\ Judged(rows, k).source = k.source
             /\ Judged(rows, Judged(rows, k)) = Judged(rows, k)
  BY DEF Judged
<1>3. ASSUME NEW k \in stored
      PROVE  /\ \E e \in after : e.claim = k.claim /\ e.source = k.source
             /\ (CHOOSE e \in after : e.claim = k.claim /\ e.source = k.source) = Judged(rows, k)
  <2> DEFINE Same(e) == e.claim = k.claim /\ e.source = k.source
  <2>1. Judged(rows, k) \in after /\ Same(Judged(rows, k))
    BY <1>2 DEF Evaluated
  <2>2. ASSUME NEW e \in after, Same(e) PROVE e = Judged(rows, k)
    <3>1. PICK j \in stored : e = Judged(rows, j)
      BY DEF Evaluated
    <3>2. j.claim = k.claim /\ j.source = k.source
      BY <1>2, <2>2, <3>1
    <3> QED
      BY <1>1, <3>1, <3>2
  <2>3. (CHOOSE e \in after : Same(e)) = Judged(rows, k)
    <3> HIDE DEF after, Same
    <3> QED
      BY <2>1, <2>2
  <2> QED
    BY <2>1, <2>3
<1>4. WithVerdicts(stored, after) = after
  <2> DEFINE Found(k) == \E e \in after : e.claim = k.claim /\ e.source = k.source
             Verd(k) == CHOOSE e \in after : e.claim = k.claim /\ e.source = k.source
  <2>1. WithVerdicts(stored, after) = {IF Found(k) THEN Verd(k) ELSE k : k \in stored}
    BY DEF WithVerdicts
  <2>2. \A k \in stored : Found(k) /\ Verd(k) = Judged(rows, k)
    BY <1>3
  <2>3. after = {Judged(rows, k) : k \in stored}
    BY DEF Evaluated
  <2> HIDE DEF after, Found, Verd
  <2> QED
    BY <2>1, <2>2, <2>3
<1>5. Evaluated(rows, after) = after
  BY <1>2 DEF Evaluated
<1> HIDE DEF after
<1>6. EvaluationOf(rows, after) = EvaluationOf(rows, stored)
  BY <1>5 DEF EvaluationOf, after
<1> QED
  BY <1>4, <1>5, <1>6 DEF after

\* What a step can do to a trace, as its user sees it.
Untouched(t) ==
    /\ status'[t] = status[t] /\ session'[t] = session[t] /\ purges'[t] = purges[t]
    /\ chunks'[t] = chunks[t] /\ answers'[t] = answers[t]
    /\ checks'[t] = checks[t] /\ reports'[t] = reports[t]

Purged(t) ==
    /\ status'[t] = "none" /\ session'[t] = session[t] /\ purges'[t] = purges[t] + 1
    /\ chunks'[t] = NoChunks /\ answers'[t] = None /\ checks'[t] = {} /\ reports'[t] = None

Opened(c, t) ==
    /\ session[t] = None /\ created'[t] # Never
    /\ \/ session'[t] = None /\ status'[t] = "started"
       \/ session'[t] = c /\ pc[c] = "read_back" /\ op[c].trace = t
    /\ status'[t] \in {status[t], "started"}
    /\ chunks'[t] = chunks[t] /\ checks'[t] = checks[t] /\ reports'[t] = reports[t]

LoggedTo(c, t) ==
    /\ session[t] = c /\ session'[t] = c /\ purges'[t] = purges[t]
    /\ status'[t] = "evaluated" => SaveEvaluation(c) /\ op[c].trace = t

\* Only its user logs to a session.
LEMMA TracesOfOthers ==
    ASSUME IndInv, Shared = FALSE, NEW c \in Clients, UserInv(c),
           Begin(c) \/ Continue(c) \/ Abandon(c), NEW t \in Traces
    PROVE  Untouched(t) \/ Purged(t) \/ Opened(c, t) \/ LoggedTo(c, t)
<1> DEFINE Goal == Untouched(t) \/ Purged(t) \/ Opened(c, t) \/ LoggedTo(c, t)
<1>1. /\ TypeOK /\ OldTraces /\ NamesOldTrace(c)
      /\ \A u \in Traces : MayLog(c, u) => session[u] = c
  BY NoneIsNoRow DEF IndInv, ClientInv, MayLog
<1>2. pc[c] \in {"count", "lookup_chunk", "write_chunks", "write_answer", "save"} =>
        op[c].trace \in Traces /\ session[op[c].trace] = c
  BY <1>1 DEF UserInv, OwnSession, Logs, NamesOldTrace, WorkSteps
<1>3. \A u \in Traces, s \in Statuses : SetStatus(u, s) =>
        /\ status'[u] \in {s, "none"} /\ \A v \in Traces \ {u} : status'[v] = status[v]
  BY <1>1, SetStatusFrame
<1>4. CASE UNCHANGED store
  BY <1>4 DEF store, tables, Untouched
<1>5. CASE DeleteExpired(c)
  BY <1>1, <1>5 DEF DeleteExpired, Untouched, Purged, TypeOK
<1>6. ASSUME NEW u \in Traces, InsertTrace(c, u) PROVE Goal
  <2>1. session[u] = None /\ session' = session /\ created'[u] # Never
    BY <1>1, <1>6, BoundsAssumption DEF InsertTrace, OldTraces, TypeOK
  <2> QED
    BY <1>1, <1>6, <2>1 DEF InsertTrace, Untouched, Opened, TypeOK
<1>7. CASE ReadBack(c)
  <2>1. op[c].trace \in Traces /\ session[op[c].trace] = None /\ pc[c] = "read_back"
    BY <1>1, <1>7 DEF ReadBack, UserInv, OwnSession, NamesOldTrace, WorkSteps
  <2>2. created[op[c].trace] # Never /\ created' = created
    BY <1>1, <1>7 DEF ReadBack, NamesOldTrace, WorkSteps, tables
  <2> QED
    BY <1>1, <1>7, <2>1, <2>2 DEF ReadBack, tables, Untouched, Opened, TypeOK
<1>8. ASSUME NEW u \in Traces, NEW ids, NEW batch, MarkContext(c, u, ids, batch) PROVE Goal
  <2>1. session[u] = c
    BY <1>1, <1>8 DEF MarkContext
  <2>2. status'[u] \in {"context_logged", "none"} /\ \A v \in Traces \ {u} : status'[v] = status[v]
    BY <1>3, <1>8 DEF MarkContext, Statuses
  <2> QED
    BY <1>1, <1>8, <2>1, <2>2 DEF MarkContext, Untouched, LoggedTo, TypeOK
<1>9. CASE WriteChunks(c)
  <2> DEFINE u == op[c].trace
  <2>1. u \in Traces /\ session[u] = c
    BY <1>2, <1>9 DEF WriteChunks
  <2>2. CASE UNCHANGED <<status, chunks>>
    BY <1>9, <2>2 DEF WriteChunks, Untouched
  <2>3. CASE ~DuplicateChunk(c)
    <3>1. /\ status'[u] \in {"context_logged", "retrieval_logged", "none"}
          /\ \A v \in Traces \ {u} : status'[v] = status[v]
      BY <1>3, <1>9, <2>1, <2>3 DEF WriteChunks, Statuses
    <3> QED
      BY <1>1, <1>9, <2>1, <2>3, <3>1 DEF WriteChunks, Untouched, LoggedTo, TypeOK
  <2> QED
    BY <1>9, <2>2, <2>3 DEF WriteChunks
<1>10. CASE WriteAnswer(c)
  <2> DEFINE u == op[c].trace
  <2>1. u \in Traces /\ session[u] = c
    BY <1>2, <1>10 DEF WriteAnswer
  <2>2. CASE UNCHANGED <<status, answers>>
    BY <1>10, <2>2 DEF WriteAnswer, Untouched
  <2>3. CASE SetStatus(u, "answer_logged")
    <3>1. /\ status'[u] \in {"answer_logged", "none"}
          /\ \A v \in Traces \ {u} : status'[v] = status[v]
      BY <1>3, <2>1, <2>3 DEF Statuses
    <3> QED
      BY <1>1, <1>10, <2>1, <3>1 DEF WriteAnswer, Untouched, LoggedTo, TypeOK
  <2> QED
    BY <1>10, <2>2, <2>3 DEF WriteAnswer
<1>11. ASSUME NEW u \in Traces, NEW citations,
              LogCitations(c, u, citations) \/ LogAgentEvent(c, u)
       PROVE  Goal
  <2>1. session[u] = c
    BY <1>1, <1>11 DEF LogCitations, LogAgentEvent
  <2>2. /\ status'[u] \in {"citations_logged", "agent_event_logged", "none"}
        /\ \A v \in Traces \ {u} : status'[v] = status[v]
    BY <1>3, <1>11 DEF LogCitations, LogAgentEvent, Statuses
  <2> QED
    BY <1>1, <1>11, <2>1, <2>2 DEF LogCitations, LogAgentEvent, Untouched, LoggedTo, TypeOK
<1>12. CASE SaveEvaluation(c)
  <2> DEFINE u == op[c].trace
  <2>1. u \in Traces /\ session[u] = c
    BY <1>2, <1>12 DEF SaveEvaluation
  <2>2. CASE UNCHANGED <<status, checks, reports>>
    BY <1>12, <2>2 DEF SaveEvaluation, Untouched
  <2>3. CASE SetStatus(u, "evaluated")
    <3>1. \A v \in Traces \ {u} : status'[v] = status[v]
      BY <1>3, <2>1, <2>3 DEF Statuses
    <3> QED
      BY <1>1, <1>12, <2>1, <3>1 DEF SaveEvaluation, Untouched, LoggedTo, TypeOK
  <2> QED
    BY <1>12, <2>2, <2>3 DEF SaveEvaluation
<1>13. CASE Begin(c)
  <2>1. ASSUME NEW name, SelectExpired(c, name) PROVE Goal
    BY <1>4, <2>1 DEF SelectExpired
  <2>2. ASSUME NEW u, NEW batch, LogRetrieval(c, u, batch) \/ LogContext(c, u, batch) PROVE Goal
    BY <1>4, <2>2 DEF LogRetrieval, LogContext
  <2>3. ASSUME NEW u, NEW a, LogAnswer(c, u, a) \/ Evaluate(c, u) \/ Fetch(c, u) PROVE Goal
    BY <1>4, <2>3 DEF LogAnswer, Evaluate, Fetch
  <2> QED
    BY <1>8, <1>11, <1>13, <2>1, <2>2, <2>3 DEF Begin
<1>14. CASE \/ CountChunks(c) \/ LookupChunk(c) \/ Return(c) \/ Abandon(c) \/ ReadChunks(c)
            \/ ReadChecks(c) \/ ReadReport(c) \/ LookupReport(c)
  BY <1>4, <1>14
  DEF CountChunks, LookupChunk, Return, Abandon, ReadChunks, ReadChecks, ReadReport, LookupReport
<1> QED
  BY <1>5, <1>6, <1>7, <1>9, <1>10, <1>12, <1>13, <1>14 DEF Continue

\* One client's steps leave the others what they rely on.
LEMMA OtherUsers ==
    ASSUME OneUserInv, Shared = FALSE, TypeOK', NEW c \in Clients, NEW d \in Clients, d # c,
           Begin(c) \/ Continue(c) \/ Abandon(c),
           pc'[d] = pc[d], op'[d] = op[d], seen'[d] = seen[d]
    PROVE  UserInv(d)'
<1> DEFINE t == op[d].trace
<1>1. /\ IndInv /\ TypeOK /\ UserInv(c) /\ UserInv(d) /\ NamesOldTrace(d)
      /\ pc[c] = "read_back" /\ pc[d] = "read_back" => op[c].trace # t
  BY DEF OneUserInv, IndInv, ClientInv
<1>2. Logs(d)' <=> Logs(d)
  BY DEF Logs
<1>3. ASSUME Logs(d) PROVE t \in Traces /\ session[t] = d /\ (Untouched(t) \/ Purged(t))
  <2>1. t \in Traces /\ session[t] = d
    BY <1>1, <1>3 DEF UserInv, OwnSession, Logs, NamesOldTrace, WorkSteps
  <2>2. d # None
    BY NoneIsNoRow
  <2>3. Untouched(t) \/ Purged(t) \/ Opened(c, t) \/ LoggedTo(c, t)
    BY <1>1, <2>1, TracesOfOthers
  <2> QED
    BY <2>1, <2>2, <2>3 DEF Opened, LoggedTo
<1>4. OwnSession(d)'
  <2>1. ASSUME pc[d] = "read_back" PROVE session'[t] = None
    <3>1. t \in Traces /\ session[t] = None
      BY <1>1, <2>1 DEF UserInv, OwnSession, NamesOldTrace, WorkSteps
    <3>2. Untouched(t) \/ Purged(t) \/ Opened(c, t) \/ LoggedTo(c, t)
      BY <1>1, <3>1, TracesOfOthers
    <3> QED
      BY <1>1, <2>1, <3>1, <3>2, NoneIsNoRow DEF Untouched, Purged, Opened, LoggedTo
  <2>2. Logs(d) => session'[t] = d
    BY <1>3 DEF Untouched, Purged
  <2> QED
    BY <1>2, <2>1, <2>2 DEF OwnSession
<1>5. FirstChunkAsSeen(d)'
  <2> SUFFICES ASSUME pc[d] = "write_chunks", op[d].batch # <<>>
               PROVE  LET row == chunks'[t][op[d].batch[1].id]
                      IN /\ ~seen[d].hit => row = None
                         /\ seen[d].purge <= purges'[t]
                         /\ seen[d].hit /\ seen[d].purge = purges'[t] =>
                              row # None /\ row.selected = seen[d].selected
    BY DEF FirstChunkAsSeen
  <2>1. Logs(d)
    BY DEF Logs
  <2>2. op[d].batch[1].id \in ChunkIds
    <3>1. op[d].batch \in Seq(ChunkItem)
      BY <1>1, BatchesAssumption DEF TypeOK, CallRecord
    <3>2. op[d].batch[1] \in ChunkItem
      BY <3>1
    <3> QED
      BY <3>2 DEF ChunkItem
  <2>3. seen[d].purge \in Nat /\ purges[t] \in Nat
    BY <1>1, <1>3, <2>1 DEF TypeOK, Reading
  <2>4. LET row == chunks[t][op[d].batch[1].id]
        IN /\ ~seen[d].hit => row = None
           /\ seen[d].purge <= purges[t]
           /\ seen[d].hit /\ seen[d].purge = purges[t] =>
                row # None /\ row.selected = seen[d].selected
    BY <1>1 DEF UserInv, FirstChunkAsSeen
  <2>5. CASE Untouched(t)
    BY <2>4, <2>5 DEF Untouched
  <2>6. CASE Purged(t)
    BY <2>2, <2>3, <2>4, <2>6 DEF Purged, NoChunks
  <2> QED
    BY <1>3, <2>1, <2>5, <2>6
<1>6. NotThereYet(d)'
  <2>1. pc[d] \in {"write_answer", "save"} => Logs(d)
    BY DEF Logs
  <2> QED
    BY <1>1, <1>3, <2>1 DEF UserInv, NotThereYet, Untouched, Purged
<1>7. RowsAsRead(d)'
  BY <1>1, <1>2, <1>3 DEF UserInv, RowsAsRead, Untouched, Purged, InTable
<1> QED
  BY <1>4, <1>5, <1>6, <1>7 DEF UserInv

\* A client that is not logging relies on nothing.
LEMMA NotLogging ==
    ASSUME NEW c \in Clients,
           \/ pc'[c] \in {"idle", "delete_expired", "insert", "returned", "key_error",
                          "read_report", "fetched"}
           \/ pc'[c] = "read_checks" /\ op'[c].name = "fetch"
    PROVE  UserInv(c)' /\ pc'[c] # "integrity_error"
BY DEF UserInv, OwnSession, FirstChunkAsSeen, NotThereYet, RowsAsRead, Logs

\* The user's own statements: no SELECT is overtaken, so no INSERT meets a row.
LEMMA OwnSteps ==
    ASSUME OneUserInv, Shared = FALSE, TypeOK', NEW c \in Clients,
           Begin(c) \/ Continue(c) \/ Abandon(c)
    PROVE  UserInv(c)' /\ pc'[c] # "integrity_error"
<1> USE DEF Goto, Become
<1> DEFINE t == op[c].trace  Goal == UserInv(c)' /\ pc'[c] # "integrity_error"
<1>1. /\ IndInv /\ TypeOK /\ OldTraces /\ UserInv(c) /\ ClientInv(c)
      /\ \A u \in Traces : MayLog(c, u) => session[u] = c
  BY NoneIsNoRow DEF OneUserInv, IndInv, MayLog
<1>2. ASSUME Logs(c) PROVE t \in Traces /\ session[t] = c
  BY <1>1, <1>2 DEF UserInv, OwnSession, ClientInv, Logs, NamesOldTrace, WorkSteps
<1>3. ASSUME NEW name, SelectExpired(c, name) PROVE Goal
  BY <1>1, <1>3, NotLogging DEF SelectExpired, TypeOK
<1>4. CASE DeleteExpired(c) \/ Return(c) \/ Abandon(c) \/ ReadReport(c) \/ ReadBack(c)
  BY <1>1, <1>4, NotLogging
  DEF DeleteExpired, Return, Abandon, ReadReport, ReadBack, Finish, TypeOK
<1>5. ASSUME NEW u \in Traces, InsertTrace(c, u) PROVE Goal
  <2>1. pc'[c] = "read_back" /\ op'[c].trace = u /\ session'[u] = None
    BY <1>1, <1>5, CallFields DEF InsertTrace, OldTraces, TypeOK
  <2> QED
    BY <2>1 DEF UserInv, OwnSession, FirstChunkAsSeen, NotThereYet, RowsAsRead, Logs
<1>6. ASSUME NEW u \in Traces, NEW batch \in Batches,
             \/ LogRetrieval(c, u, batch) \/ LogContext(c, u, batch)
             \/ \E ids \in SUBSET ChunkIds : MarkContext(c, u, ids, batch)
      PROVE  Goal
  <2>1. /\ op'[c].trace = u /\ op'[c].batch = batch
        /\ \/ pc'[c] \in {"count", "lookup_chunk"}
           \/ pc'[c] = "write_chunks" /\ batch = <<>>
        /\ session' = session /\ session[u] = c
    <3>1. \A name \in {"retrieval", "context"}, selected \in BOOLEAN :
            LET call == [Call(name, u) EXCEPT !.batch = batch]
                marked == [Call(name, u) EXCEPT !.batch = batch, !.selected = selected]
            IN call.trace = u /\ call.batch = batch /\ marked.trace = u /\ marked.batch = batch
      BY DEF Call, NoOp
    <3>2. CASE LogRetrieval(c, u, batch)
      BY <1>1, <3>1, <3>2 DEF LogRetrieval, AfterCount, store, TypeOK
    <3>3. CASE LogContext(c, u, batch)
      BY <1>1, <3>1, <3>3 DEF LogContext, AfterCount, store, TypeOK
    <3>4. CASE \E ids \in SUBSET ChunkIds : MarkContext(c, u, ids, batch)
      BY <1>1, <3>1, <3>4 DEF MarkContext, TypeOK
    <3> QED
      BY <1>6, <3>2, <3>3, <3>4
  <2> QED
    BY <2>1 DEF UserInv, OwnSession, FirstChunkAsSeen, NotThereYet, RowsAsRead, Logs
<1>7. CASE CountChunks(c)
  <2>1. session[t] = c
    BY <1>2, <1>7 DEF CountChunks, Logs
  <2>2. /\ op' = op /\ session' = session
        /\ \/ pc'[c] = "lookup_chunk"
           \/ pc'[c] = "write_chunks" /\ op[c].batch = <<>>
    BY <1>1, <1>7 DEF CountChunks, AfterCount, store, TypeOK
  <2> QED
    BY <2>1, <2>2 DEF UserInv, OwnSession, FirstChunkAsSeen, NotThereYet, RowsAsRead, Logs
<1>8. CASE LookupChunk(c)
  <2> DEFINE row == chunks[t][op[c].batch[1].id]
  <2>1. session[t] = c /\ purges[t] \in Nat
    BY <1>1, <1>2, <1>8 DEF LookupChunk, Logs, TypeOK
  <2>2. /\ op' = op /\ session' = session /\ purges' = purges /\ chunks' = chunks
        /\ pc'[c] = "write_chunks"
    BY <1>1, <1>8 DEF LookupChunk, store, tables, TypeOK
  <2>3. /\ seen'[c].hit = (row # None) /\ seen'[c].selected = (row # None /\ row.selected)
        /\ seen'[c].purge = purges[t]
    BY <1>1, <1>8 DEF LookupChunk, TypeOK, Reading
  <2>4. op[c].batch # <<>> /\ row # None => row.selected \in BOOLEAN
    <3> SUFFICES ASSUME op[c].batch # <<>>, row # None PROVE row.selected \in BOOLEAN
      OBVIOUS
    <3>1. op[c].batch \in Seq(ChunkItem)
      BY <1>1, BatchesAssumption DEF TypeOK, CallRecord
    <3>2. op[c].batch[1] \in ChunkItem
      BY <3>1
    <3>3. t \in Traces
      BY <1>2, <1>8 DEF LookupChunk, Logs
    <3>4. row \in ChunkRow
      BY <1>1, <3>2, <3>3 DEF ChunkItem, ChunkTable, TypeOK
    <3> QED
      BY <3>4 DEF ChunkRow
  <2>5. FirstChunkAsSeen(c)'
    <3>1. op'[c].batch # <<>> =>
            /\ ~seen'[c].hit => row = None
            /\ seen'[c].purge <= purges[t]
            /\ seen'[c].hit => row # None /\ row.selected = seen'[c].selected
      <4>1. ASSUME op[c].batch # <<>>, row # None PROVE row.selected = seen'[c].selected
        <5>1. row.selected \in BOOLEAN /\ seen'[c].selected = (row # None /\ row.selected)
          BY <2>3, <2>4, <4>1
        <5> HIDE DEF row
        <5>2. CASE row.selected = TRUE
          BY <4>1, <5>1, <5>2
        <5>3. CASE row.selected = FALSE
          BY <4>1, <5>1, <5>3
        <5> QED
          BY <5>1, <5>2, <5>3
      <4>2. seen'[c].hit => row # None
        BY <2>3
      <4>3. ~seen'[c].hit => row = None
        BY <2>3
      <4> HIDE DEF row
      <4> QED
        BY <2>1, <2>2, <2>3, <4>1, <4>2, <4>3
    <3>2. /\ op'[c].batch = op[c].batch /\ purges'[op'[c].trace] = purges[t]
          /\ chunks'[op'[c].trace][op'[c].batch[1].id] = row
      BY <2>2
    <3> HIDE DEF row
    <3> QED
      BY <3>1, <3>2 DEF FirstChunkAsSeen
  <2> QED
    BY <2>1, <2>2, <2>5 DEF UserInv, OwnSession, NotThereYet, RowsAsRead, Logs
<1>9. CASE WriteChunks(c)
  <2>1. ~DuplicateChunk(c)
    BY <1>1, <1>9 DEF WriteChunks, DuplicateChunk, UserInv, FirstChunkAsSeen
  <2>2. pc'[c] = "returned"
    BY <1>1, <1>9, <2>1 DEF WriteChunks, Finish, TypeOK
  <2> QED
    BY <2>2, NotLogging
<1>10. ASSUME NEW u \in Traces, NEW a, LogAnswer(c, u, a) PROVE Goal
  <2>1. /\ op'[c].trace = u /\ pc'[c] = "write_answer" /\ session'[u] = c
        /\ seen'[c].hit = (answers[u] # None) /\ answers' = answers
    BY <1>1, <1>10, CallFields DEF LogAnswer, store, tables, TypeOK, Blank
  <2> QED
    BY <2>1 DEF UserInv, OwnSession, FirstChunkAsSeen, NotThereYet, RowsAsRead, Logs
<1>11. CASE WriteAnswer(c)
  <2>1. pc'[c] = "returned"
    BY <1>1, <1>11 DEF WriteAnswer, UserInv, NotThereYet, Finish, TypeOK
  <2> QED
    BY <2>1, NotLogging
<1>12. ASSUME NEW u \in Traces, NEW citations,
              LogCitations(c, u, citations) \/ LogAgentEvent(c, u)
       PROVE  Goal
  BY <1>1, <1>12, NotLogging DEF LogCitations, LogAgentEvent, TypeOK
<1>13. ASSUME NEW u \in Traces, Evaluate(c, u) PROVE Goal
  <2>1. /\ op'[c].trace = u /\ pc'[c] \in {"read_chunks", "key_error"} /\ session'[u] = c
    BY <1>1, <1>13, CallFields DEF Evaluate, store, TypeOK
  <2> QED
    BY <2>1 DEF UserInv, OwnSession, FirstChunkAsSeen, NotThereYet, RowsAsRead, Logs
<1>14. ASSUME NEW u \in Traces, Fetch(c, u) PROVE Goal
  BY <1>1, <1>14, NotLogging, CallFields DEF Fetch, TypeOK
<1>15. CASE ReadChunks(c)
  <2>1. session[t] = c
    BY <1>2, <1>15 DEF ReadChunks, Logs
  <2>2. /\ op' = op /\ session' = session /\ chunks' = chunks /\ pc'[c] = "read_checks"
        /\ seen'[c].chunks = chunks[t]
    BY <1>1, <1>15 DEF ReadChunks, store, tables, TypeOK, Reading
  <2> QED
    BY <2>1, <2>2 DEF UserInv, OwnSession, FirstChunkAsSeen, NotThereYet, RowsAsRead, Logs
<1>16. CASE ReadChecks(c) /\ op[c].name = "fetch"
  BY <1>1, <1>16, NotLogging DEF ReadChecks, AfterChecks, TypeOK
<1>17. CASE ReadChecks(c) /\ op[c].name # "fetch"
  <2>1. session[t] = c /\ Logs(c) /\ pc[c] = "read_checks"
    BY <1>2, <1>17 DEF ReadChecks, Logs
  <2>2. /\ op' = op /\ session' = session /\ chunks' = chunks /\ checks' = checks
        /\ status' = status
        /\ pc'[c] = IF checks[t] = {} THEN "lookup_report" ELSE "save"
        /\ seen'[c].chunks = seen[c].chunks /\ seen'[c].checks = checks[t]
    BY <1>1, <1>17 DEF ReadChecks, AfterChecks, store, tables, TypeOK, Reading
  <2>3. RowsAsRead(c)'
    BY <1>1, <2>1, <2>2 DEF UserInv, RowsAsRead, InTable
  <2> QED
    BY <2>1, <2>2, <2>3 DEF UserInv, OwnSession, FirstChunkAsSeen, NotThereYet, Logs
<1>18. CASE LookupReport(c)
  <2>1. session[t] = c /\ Logs(c) /\ pc[c] = "lookup_report"
    BY <1>2, <1>18 DEF LookupReport, Logs
  <2>2. /\ op' = op /\ session' = session /\ chunks' = chunks /\ checks' = checks
        /\ status' = status /\ reports' = reports /\ pc'[c] = "save"
        /\ seen'[c].chunks = seen[c].chunks /\ seen'[c].checks = seen[c].checks
        /\ seen'[c].hit = (reports[t] # None)
    BY <1>1, <1>18 DEF LookupReport, store, tables, TypeOK, Reading
  <2>3. RowsAsRead(c)'
    BY <1>1, <2>1, <2>2 DEF UserInv, RowsAsRead, InTable
  <2> QED
    BY <2>1, <2>2, <2>3 DEF UserInv, OwnSession, FirstChunkAsSeen, NotThereYet, Logs
<1>19. CASE SaveEvaluation(c)
  <2>1. ~(~FoundReport(c) /\ reports[t] # None)
    BY <1>1, <1>19 DEF SaveEvaluation, FoundReport, UserInv, NotThereYet
  <2>2. pc'[c] = "returned"
    BY <1>1, <1>19, <2>1 DEF SaveEvaluation, Finish, TypeOK
  <2> QED
    BY <2>2, NotLogging
<1>20. CASE Begin(c)
  BY <1>3, <1>6, <1>10, <1>12, <1>13, <1>14, <1>20 DEF Begin
<1> QED
  BY <1>4, <1>5, <1>7, <1>8, <1>9, <1>11, <1>15, <1>16, <1>17, <1>18, <1>19, <1>20 DEF Continue

\* A step moves one client.
LEMMA OthersWait ==
    ASSUME TypeOK, NEW c \in Clients, Begin(c) \/ Continue(c) \/ Abandon(c),
           NEW d \in Clients \ {c}
    PROVE  pc'[d] = pc[d] /\ op'[d] = op[d] /\ seen'[d] = seen[d]
<1> USE DEF Goto, Become, Finish, TypeOK
<1>1. CASE Begin(c)
  BY <1>1, ZenonT(40) DEF Begin, SelectExpired, LogRetrieval, LogContext, MarkContext, LogAnswer, LogCitations,
              LogAgentEvent, Evaluate, Fetch, CountRows
<1>2. CASE \/ DeleteExpired(c) \/ (\E t \in Traces : InsertTrace(c, t)) \/ ReadBack(c)
          \/ CountChunks(c) \/ LookupChunk(c)
  BY <1>2 DEF DeleteExpired, InsertTrace, ReadBack, CountChunks, CountRows, LookupChunk
<1>3. CASE WriteChunks(c) \/ WriteAnswer(c) \/ SaveEvaluation(c)
  BY <1>3 DEF WriteChunks, WriteAnswer, SaveEvaluation
<1>4. CASE \/ ReadChunks(c) \/ ReadChecks(c) \/ ReadReport(c) \/ LookupReport(c)
          \/ Return(c) \/ Abandon(c)
  BY <1>4 DEF ReadChunks, ReadChecks, ReadReport, LookupReport, Return, Abandon
<1> QED
  BY <1>1, <1>2, <1>3, <1>4 DEF Continue

\* start() reads back the row it has just inserted.
LEMMA OpensByInsert ==
    ASSUME TypeOK, NEW c \in Clients, Begin(c) \/ Continue(c) \/ Abandon(c),
           pc'[c] = "read_back"
    PROVE  \E t \in Traces : InsertTrace(c, t)
<1> USE DEF Goto, Finish, TypeOK
<1>1. ~Begin(c)
  BY DEF Begin, SelectExpired, LogRetrieval, LogContext, MarkContext, LogAnswer, LogCitations,
         LogAgentEvent, Evaluate, Fetch, AfterCount
<1>2. ~(DeleteExpired(c) \/ ReadBack(c) \/ CountChunks(c) \/ LookupChunk(c))
  BY DEF DeleteExpired, ReadBack, CountChunks, AfterCount, LookupChunk
<1>3. ~(WriteChunks(c) \/ WriteAnswer(c) \/ SaveEvaluation(c))
  BY DEF WriteChunks, WriteAnswer, SaveEvaluation
<1>4. ~(\/ ReadChunks(c) \/ ReadChecks(c) \/ ReadReport(c) \/ LookupReport(c)
       \/ Return(c) \/ Abandon(c))
  BY DEF ReadChunks, ReadChecks, AfterChecks, ReadReport, LookupReport, Return, Abandon
<1> QED
  BY <1>1, <1>2, <1>3, <1>4 DEF Continue

\* What is stored of a trace with status "evaluated".
Fresh(t) ==
    /\ checks[t] = Evaluated(chunks[t], checks[t])
    /\ reports[t] = EvaluationOf(chunks[t], checks[t])

\* The transaction that saves an evaluation saves that of the rows it finds.
LEMMA SavesFresh ==
    ASSUME OneUserInv, Shared = FALSE, NEW c \in Clients, SaveEvaluation(c),
           NEW t \in Traces, t = op[c].trace, status'[t] = "evaluated"
    PROVE  Fresh(t)'
<1>1. /\ TypeOK /\ ClientInv(c) /\ UserInv(c) /\ EvaluationIsFresh /\ pc[c] = "save" /\ Logs(c)
  BY DEF OneUserInv, IndInv, SaveEvaluation, Logs
<1>2. chunks[t] \in ChunkTable /\ checks[t] \in SUBSET CheckRow /\ chunks' = chunks
  BY <1>1 DEF TypeOK, SaveEvaluation
<1>3. CASE ~FoundReport(c) /\ reports[t] # None
  <2>1. UNCHANGED <<status, checks, reports>>
    BY <1>3 DEF SaveEvaluation
  <2> QED
    BY <1>1, <1>2, <2>1 DEF EvaluationIsFresh, Fresh
<1>4. CASE ~(~FoundReport(c) /\ reports[t] # None)
  <2> DEFINE after == Evaluated(chunks[t], checks[t])
  <2>1. InTable(t)
    BY <1>1, <1>4 DEF SaveEvaluation, SetStatus, TypeOK, InTable
  <2>2. seen[c].chunks = chunks[t] /\ seen[c].checks = checks[t]
    BY <1>1, <2>1 DEF UserInv, RowsAsRead
  <2>3. Computed(c) = EvaluationOf(chunks[t], checks[t]) /\ Computed(c).checks = after
    BY <2>2 DEF Computed, EvaluationOf
  <2>4. FoundReport(c) => reports[t] # None
    BY <1>1, <2>1 DEF FoundReport, ClientInv, FoundRowRemains
  <2>5. /\ checks'[t] = WithVerdicts(checks[t], after)
        /\ reports'[t] = EvaluationOf(chunks[t], checks[t])
    BY <1>1, <1>4, <2>3, <2>4 DEF SaveEvaluation, TypeOK
  <2>6. /\ WithVerdicts(checks[t], after) = after
        /\ Evaluated(chunks[t], after) = after
        /\ EvaluationOf(chunks[t], after) = EvaluationOf(chunks[t], checks[t])
    BY <1>2, SavedIsFresh
  <2> HIDE DEF after
  <2> QED
    BY <1>2, <2>5, <2>6 DEF Fresh
<1> QED
  BY <1>3, <1>4

\* The invariant of sessions that have one user.
THEOREM OneUserStep ==
    ASSUME Shared = FALSE
    PROVE  OneUserInv /\ [Next]_vars => OneUserInv'
<1> SUFFICES ASSUME OneUserInv, [Next]_vars PROVE OneUserInv'
  OBVIOUS
<1> DEFINE ReadBackOnce == \A c, d \in Clients : pc[c] = "read_back" /\ pc[d] = "read_back"
                                 /\ op[c].trace = op[d].trace => c = d
<1>1. IndInv' /\ TypeOK'
  BY IndStep DEF OneUserInv, IndInv
<1>2. /\ IndInv /\ TypeOK /\ ReadBackOnce /\ NoConstraintViolation
      /\ \A t \in Traces : status[t] = "evaluated" => Fresh(t)
      /\ \A c \in Clients : ClientInv(c) /\ UserInv(c)
  BY DEF OneUserInv, IndInv, EvaluationIsFresh, Fresh
<1>3. ASSUME NEW c \in Clients, Begin(c) \/ Continue(c) \/ Abandon(c) PROVE OneUserInv'
  <2>1. \A d \in Clients \ {c} : pc'[d] = pc[d] /\ op'[d] = op[d] /\ seen'[d] = seen[d]
    BY <1>2, <1>3, OthersWait
  <2>2. \A d \in Clients : UserInv(d)' /\ pc'[d] # "integrity_error"
    <3>1. UserInv(c)' /\ pc'[c] # "integrity_error"
      BY <1>1, <1>3, OwnSteps
    <3>2. ASSUME NEW d \in Clients \ {c} PROVE UserInv(d)' /\ pc'[d] # "integrity_error"
      BY <1>1, <1>2, <1>3, <2>1, OtherUsers DEF NoConstraintViolation
    <3> QED
      BY <3>1, <3>2
  <2>3. ReadBackOnce'
    <3>1. pc'[c] = "read_back" => \E t \in Traces : InsertTrace(c, t)
      BY <1>2, <1>3, OpensByInsert
    <3>2. ASSUME NEW t \in Traces, InsertTrace(c, t), NEW d \in Clients \ {c},
                 pc'[d] = "read_back"
          PROVE  op'[c].trace = t /\ op'[d].trace # t
      BY <1>2, <2>1, <3>2, CallFields
      DEF InsertTrace, Become, TypeOK, ClientInv, NamesOldTrace, WorkSteps
    <3>3. ASSUME NEW d \in Clients, NEW e \in Clients, pc'[d] = "read_back",
                 pc'[e] = "read_back", op'[d].trace = op'[e].trace, d # e
          PROVE  FALSE
      <4>1. CASE d # c /\ e # c
        BY <1>2, <2>1, <3>3, <4>1
      <4>2. CASE d = c
        BY <2>1, <3>1, <3>2, <3>3, <4>2
      <4>3. CASE e = c
        BY <2>1, <3>1, <3>2, <3>3, <4>3
      <4> QED
        BY <4>1, <4>2, <4>3
    <3> QED
      BY <3>3
  <2>4. ASSUME NEW t \in Traces, status'[t] = "evaluated" PROVE Fresh(t)'
    <3>1. Untouched(t) \/ Purged(t) \/ Opened(c, t) \/ LoggedTo(c, t)
      BY <1>2, <1>3, TracesOfOthers
    <3>2. CASE Untouched(t)
      BY <1>2, <2>4, <3>2 DEF Untouched, Fresh
    <3>3. CASE Opened(c, t)
      BY <1>2, <2>4, <3>3 DEF Opened, Fresh
    <3>4. CASE LoggedTo(c, t)
      BY <2>4, <3>4, SavesFresh DEF LoggedTo
    <3> QED
      BY <2>4, <3>1, <3>2, <3>3, <3>4 DEF Purged
  <2> QED
    BY <1>1, <2>2, <2>3, <2>4 DEF OneUserInv, NoConstraintViolation, EvaluationIsFresh, Fresh
<1>4. CASE Tick \/ UNCHANGED vars
  <2>1. UNCHANGED <<store, pc, op, seen>>
    BY <1>4 DEF Tick, vars
  <2>2. ASSUME NEW c \in Clients PROVE UserInv(c)'
    BY <1>2, <2>1 DEF UserInv, OwnSession, FirstChunkAsSeen, NotThereYet, RowsAsRead, Logs,
                      InTable, store, tables
  <2> QED
    BY <1>1, <1>2, <2>1, <2>2
    DEF OneUserInv, NoConstraintViolation, EvaluationIsFresh, Fresh, store, tables
<1> QED
  BY <1>3, <1>4 DEF Next

\* The invariant holds whenever sessions are not shared.
IfOneUser == ~Shared => OneUserInv

LEMMA OneUserInvariance == Spec => []IfOneUser
<1>1. Init => IfOneUser
  <2> SUFFICES ASSUME Init PROVE OneUserInv
    BY DEF IfOneUser
  <2>1. IndInv /\ \A c \in Clients : pc[c] = "idle"
    BY IndInit DEF Init
  <2>2. NoConstraintViolation /\ EvaluationIsFresh
    BY DEF Init, NoConstraintViolation, EvaluationIsFresh
  <2> QED
    BY <2>1, <2>2
    DEF OneUserInv, UserInv, OwnSession, FirstChunkAsSeen, NotThereYet, RowsAsRead, Logs
<1>2. IfOneUser /\ [Next]_vars => IfOneUser'
  <2>1. CASE Shared = FALSE
    BY <2>1, OneUserStep DEF IfOneUser
  <2>2. CASE Shared = TRUE
    BY <2>2 DEF IfOneUser
  <2> QED
    BY <2>1, <2>2, BoundsAssumption
<1> QED
  BY <1>1, <1>2, PTL DEF Spec

\* In a store whose sessions are each used by the client that opened them, no
\* INSERT ever meets the row of another, and a trace that is called evaluated
\* shows the evaluation of the rows it has, whatever cleanups do meanwhile.
THEOREM OneUserIsSafe == Spec => []OneUserMeetsNoRace
<1>1. IfOneUser => OneUserMeetsNoRace
  BY DEF IfOneUser, OneUserInv, OneUserMeetsNoRace
<1> QED
  BY <1>1, OneUserInvariance, PTL

\* In such a store a chunk that was selected stays selected as long as it is
\* there: the selection read before the transaction is still the chunk's own.
THEOREM SelectionStays == Shared = FALSE => (Spec => SelectionIsSticky)
<1> SUFFICES ASSUME Shared = FALSE PROVE Spec => SelectionIsSticky
  OBVIOUS
<1> DEFINE Stays == \A t \in Traces, id \in ChunkIds : StaysSelected(t, id)
<1>1. IfOneUser /\ [Next]_vars => Stays
  <2> SUFFICES ASSUME OneUserInv, [Next]_vars,
                      NEW t \in Traces, NEW id \in ChunkIds,
                      chunks[t][id] # None, chunks'[t][id] # None, chunks[t][id].selected
               PROVE  chunks'[t][id].selected
    BY DEF StaysSelected, IfOneUser
  <2> DEFINE row == chunks[t][id]
  <2>1. /\ TypeOK /\ row \in ChunkRow
    <3>1. TypeOK
      BY DEF OneUserInv, IndInv
    <3> QED
      BY <3>1 DEF TypeOK, ChunkTable
  <2>2. row.selected = TRUE
    BY <2>1 DEF ChunkRow
  <2>3. CASE chunks'[t][id] = row
    BY <2>3
  <2>4. ASSUME NEW c \in Clients, DeleteExpired(c) PROVE chunks'[t][id] = row
    BY <2>4 DEF DeleteExpired, NoChunks
  <2>5. ASSUME NEW c \in Clients, NEW u \in Traces, NEW ids \in SUBSET ChunkIds, NEW batch,
               MarkContext(c, u, ids, batch)
        PROVE  chunks'[t][id].selected
    <3>1. chunks'[t][id] \in {row, [row EXCEPT !.selected = TRUE]}
      BY <2>1, <2>5 DEF MarkContext, Marked, TypeOK
    <3>2. [row EXCEPT !.selected = TRUE].selected = TRUE
      BY <2>1 DEF ChunkRow
    <3> QED
      BY <2>2, <3>1, <3>2
  <2>6. ASSUME NEW c \in Clients, WriteChunks(c) PROVE chunks'[t][id].selected
    <3> DEFINE u == op[c].trace  batch == op[c].batch
               text == batch[IndexOf(batch, id)].content
    <3>1. CASE chunks' = chunks \/ t # u
      BY <2>1, <2>2, <2>6, <3>1 DEF WriteChunks, TypeOK
    <3>2. CASE chunks' # chunks /\ t = u
      <4>1. chunks'[t][id] = ChunkAfter(c, id)
        BY <2>1, <2>6, <3>2 DEF WriteChunks, TypeOK
      <4>2. \A chosen, was : Updated(row, text, chosen, was).selected = (was \/ chosen)
        BY <2>1 DEF Updated, ChunkRow
      <4>3. CASE ChunkAfter(c, id) = row
        BY <2>2, <4>1, <4>3
      <4>4. CASE ChunkAfter(c, id) = Updated(row, text, op[c].selected, row.selected)
        <5>1. Updated(row, text, op[c].selected, row.selected).selected = TRUE
          BY <2>2, <4>2
        <5> QED
          BY <4>1, <4>4, <5>1
      <4>5. CASE /\ id \in IdsOf(batch) /\ batch[1].id = id /\ seen[c].hit
                 /\ seen[c].purge = purges[t]
                 /\ ChunkAfter(c, id) = Updated(row, text, op[c].selected, seen[c].selected)
        <5>1. batch # <<>>
          BY <4>5 DEF IdsOf
        <5>2. seen[c].selected = row.selected
          BY <2>6, <3>2, <4>5, <5>1 DEF OneUserInv, UserInv, FirstChunkAsSeen, WriteChunks
        <5>3. Updated(row, text, op[c].selected, seen[c].selected).selected = TRUE
          BY <2>2, <4>2, <5>2
        <5> QED
          BY <4>1, <4>5, <5>3
      <4> QED
        BY <3>2, <4>3, <4>4, <4>5 DEF ChunkAfter
    <3> QED
      BY <3>1, <3>2
  <2>7. ASSUME NEW c \in Clients, Begin(c) \/ Continue(c) \/ Abandon(c),
               ~DeleteExpired(c), ~WriteChunks(c),
               ~\E u \in Traces, ids \in SUBSET ChunkIds, batch \in Batches :
                   MarkContext(c, u, ids, batch)
        PROVE  chunks' = chunks
    <3>1. CASE Begin(c)
      BY <2>7, <3>1 DEF Begin, SelectExpired, LogRetrieval, LogContext, LogAnswer, LogCitations,
                        LogAgentEvent, Evaluate, Fetch, store, tables
    <3>2. CASE Continue(c) \/ Abandon(c)
      BY <2>7, <3>2 DEF Continue, InsertTrace, ReadBack, CountChunks, LookupChunk, WriteAnswer,
                        ReadChunks, ReadChecks, ReadReport, LookupReport, SaveEvaluation, Return,
                        Abandon, store, tables
    <3> QED
      BY <2>7, <3>1, <3>2
  <2>8. CASE Tick \/ UNCHANGED vars
    BY <2>3, <2>8 DEF Tick, vars, store, tables
  <2> QED
    BY <2>3, <2>4, <2>5, <2>6, <2>7, <2>8 DEF Next
<1> QED
  BY <1>1, OneUserInvariance, PTL DEF Spec, SelectionIsSticky

=============================================================================
