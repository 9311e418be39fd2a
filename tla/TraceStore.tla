------------------------------ MODULE TraceStore ------------------------------
(***************************************************************************)
(* The local trace store: SQLiteTraceStore (storage/sqlite_store.py) as    *)
(* LocalTransport (local.py) drives it, used by several clients at once.   *)
(* A client is a thread or a process with its own connection to the one    *)
(* database file.                                                          *)
(*                                                                         *)
(* Granularity.  Python's sqlite3 opens a transaction only before the      *)
(* first INSERT, UPDATE or DELETE of a connection; a SELECT before it runs *)
(* in a read of its own.  So a store method whose first statement writes   *)
(* is one action, and a method that first selects is one action per        *)
(* leading SELECT and one for the transaction that follows (the database   *)
(* has one writer at a time and readers see committed rows).  get_trace    *)
(* is a row of separate reads.                                             *)
(*                                                                         *)
(* A value a client has read and not used yet is in seen[c]; the call it   *)
(* is executing is op[c]; the statement it is about to execute is pc[c].   *)
(* pc "returned", "key_error" and "integrity_error" are the ways a call    *)
(* ends, before the client makes its next one.                             *)
(***************************************************************************)
EXTENDS TraceRows, FiniteSets

CONSTANTS
    Clients,        \* threads or processes that share the database file
    Traces,         \* trace ids the store may hand out, each at most once (uuid4)
    Never,          \* creation time of an id not handed out yet
    Retention,      \* retention_days, or None: the store keeps every trace
    Batches,        \* chunk lists a caller may log
    CitationSets,   \* sets of citations a caller may log
    Shared,         \* TRUE: any client may log to an open session; FALSE: only its opener
    Crashes,        \* TRUE: a call may be cut off between two of its statements
    MaxClock,       \* bound on the clock
    MaxEvents       \* bound on the agent events of one trace

ASSUME ChunkIdsAssumption == IsFiniteSet(ChunkIds)
ASSUME RetentionAssumption == Retention \in Nat \cup {None}
ASSUME BatchesAssumption ==
    /\ Batches \subseteq Seq(ChunkItem)
    /\ \A b \in Batches : \A i, j \in DOMAIN b : b[i].id = b[j].id => i = j
ASSUME CitationSetsAssumption == CitationSets \subseteq SUBSET Citation
ASSUME BoundsAssumption ==
    /\ MaxClock \in Nat /\ MaxEvents \in Nat /\ Never \notin Nat
    /\ Shared \in BOOLEAN /\ Crashes \in BOOLEAN
ASSUME NoneIsNoRow == None \notin Clients \cup Traces

VARIABLES
    clock,     \* the wall clock
    status,    \* status[t]: traces.status, "none" when table traces has no row for t
    created,   \* created[t]: traces.created_at; remembered when the row is gone
    session,   \* session[t]: the client start() returned t to
    chunks,    \* chunks[t]: the rows of table chunks with trace_id t
    answers,   \* answers[t]: the row of table answers
    checks,    \* checks[t]: the rows of table citation_checks
    reports,   \* reports[t]: the row of table failure_reports
    events,    \* events[t]: how many rows of table agent_events
    purges,    \* purges[t]: how often a cleanup deleted t's rows; rows read before a
               \* purge are not the rows a later UPDATE ... WHERE id = ? finds
    pc, op, seen

tables == <<status, created, chunks, answers, checks, reports, events>>
store  == <<tables, session, purges>>
vars   == <<clock, store, pc, op, seen>>

Statuses == {"started", "retrieval_logged", "context_logged", "answer_logged",
             "citations_logged", "agent_event_logged", "evaluated"}

Steps == {"idle", "delete_expired", "insert", "read_back", "count", "lookup_chunk",
          "write_chunks", "write_answer", "read_chunks", "read_checks",
          "read_report", "lookup_report", "save", "fetched", "returned", "key_error",
          "integrity_error"}

\* A call: its name and the arguments a later statement of it needs.
NoOp == [name |-> "none", trace |-> None, batch |-> <<>>, selected |-> FALSE, answer |-> None]
Call(name, t) == [NoOp EXCEPT !.name = name, !.trace = t]

CallNames == {"none", "open", "start", "retrieval", "context", "answer", "citations",
              "agent_event", "evaluate", "fetch"}
CallRecord == [name : CallNames, trace : Traces \cup {None}, batch : Batches \cup {<<>>},
               selected : BOOLEAN, answer : Answers \cup {None}]

\* What a call has read so far.
Blank == [expired |-> {}, count |-> 0, hit |-> FALSE, selected |-> FALSE, purge |-> 0,
          chunks |-> NoChunks, checks |-> {}, report |-> None]

Reading == [expired : SUBSET Traces, count : Nat, hit : BOOLEAN, selected : BOOLEAN,
            purge : Nat, chunks : ChunkTable, checks : SUBSET CheckRow,
            report : Report \cup {None}]

Init ==
    /\ clock = 0
    /\ status = [t \in Traces |-> "none"]
    /\ created = [t \in Traces |-> Never]
    /\ session = [t \in Traces |-> None]
    /\ chunks = [t \in Traces |-> NoChunks]
    /\ answers = [t \in Traces |-> None]
    /\ checks = [t \in Traces |-> {}]
    /\ reports = [t \in Traces |-> None]
    /\ events = [t \in Traces |-> 0]
    /\ purges = [t \in Traces |-> 0]
    /\ pc = [c \in Clients |-> "idle"]
    /\ op = [c \in Clients |-> NoOp]
    /\ seen = [c \in Clients |-> Blank]

-----------------------------------------------------------------------------
(* Helpers.                                                                *)

InTable(t) == status[t] # "none"

HasRows(t) == \/ chunks[t] # NoChunks \/ answers[t] # None \/ checks[t] # {}
              \/ reports[t] # None    \/ events[t] > 0

\* Mutation: the comparison takes in a trace exactly as old as the retention.
ExpiredInclusive(t) ==
    /\ Retention # None /\ InTable(t)
    /\ created[t] + Retention <= clock

\* Mutation: the comparison leaves a trace one unit too long.
ExpiredLate(t) ==
    /\ Retention # None /\ InTable(t)
    /\ created[t] + Retention + 1 < clock

\* created_at < cutoff, or <= cutoff when the retention is zero days.
Expired(t) ==
    /\ Retention # None
    /\ InTable(t)
    /\ IF Retention = 0 THEN created[t] <= clock ELSE created[t] + Retention < clock

\* Mutation: an INSERT OR REPLACE instead of the UPDATE.
SetStatusInserting(t, s) == status' = [status EXCEPT ![t] = s]

\* Mutation: a trace that was evaluated keeps the status when rows change.
SetStatusKeepingEvaluated(t, s) ==
    status' = [status EXCEPT ![t] = IF InTable(t) /\ @ # "evaluated" THEN s ELSE @]

\* _set_status: an UPDATE that touches no row when the trace is gone.
SetStatus(t, s) == status' = [status EXCEPT ![t] = IF InTable(t) THEN s ELSE @]

Goto(c, step) == pc' = [pc EXCEPT ![c] = step]
Become(c, call) == op' = [op EXCEPT ![c] = call]

\* The call ends: what it read and its arguments are forgotten.
Finish(c, how) ==
    /\ Goto(c, how)
    /\ Become(c, Call(op[c].name, op[c].trace))
    /\ seen' = [seen EXCEPT ![c] = Blank]

\* Clients that may log to t: a session is a plain handle, and its holder may
\* share it with other threads.
MayLog(c, t) == session[t] # None /\ (Shared \/ session[t] = c)

Calls(c) == pc[c] = "idle"

-----------------------------------------------------------------------------
(* cleanup_expired and create_trace: POST /v1/traces/start, and the cleanup *)
(* the constructor of a transport runs.                                    *)

SelectExpired(c, name) ==
    /\ Calls(c) /\ Retention # None
    /\ Become(c, Call(name, None))
    /\ seen' = [seen EXCEPT ![c] = [Blank EXCEPT !.expired = {t \in Traces : Expired(t)}]]
    /\ Goto(c, "delete_expired")
    /\ UNCHANGED <<clock, store>>

Deletes(c, t) == t \in seen[c].expired

DeleteExpired(c) ==
    /\ pc[c] = "delete_expired"
    /\ status'  = [t \in Traces |-> IF Deletes(c, t) THEN "none" ELSE status[t]]
    /\ chunks'  = [t \in Traces |-> IF Deletes(c, t) THEN NoChunks ELSE chunks[t]]
    /\ answers' = [t \in Traces |-> IF Deletes(c, t) THEN None ELSE answers[t]]
    /\ checks'  = [t \in Traces |-> IF Deletes(c, t) THEN {} ELSE checks[t]]
    /\ reports' = [t \in Traces |-> IF Deletes(c, t) THEN None ELSE reports[t]]
    /\ events'  = [t \in Traces |-> IF Deletes(c, t) THEN 0 ELSE events[t]]
    /\ purges'  = [t \in Traces |-> IF Deletes(c, t) THEN purges[t] + 1 ELSE purges[t]]
    /\ seen' = [seen EXCEPT ![c] = Blank]
    /\ Goto(c, IF op[c].name = "start" THEN "insert" ELSE "returned")
    /\ UNCHANGED <<clock, created, session, op>>

\* Without a retention, start() goes straight to the insert.
Starts(c) == pc[c] = "insert" \/ (Calls(c) /\ Retention = None)

InsertTrace(c, t) ==
    /\ Starts(c) /\ created[t] = Never
    /\ status' = [status EXCEPT ![t] = "started"]
    /\ created' = [created EXCEPT ![t] = clock]
    /\ Become(c, Call("start", t))
    /\ Goto(c, "read_back")
    /\ UNCHANGED <<clock, session, chunks, answers, checks, reports, events,
                   purges, seen>>

\* create_trace ends with get_trace, of which start() returns only the ids.
ReadBack(c) ==
    /\ pc[c] = "read_back"
    /\ IF InTable(op[c].trace)
         THEN session' = [session EXCEPT ![op[c].trace] = c] /\ Finish(c, "returned")
         ELSE Finish(c, "key_error") /\ UNCHANGED session
    /\ UNCHANGED <<clock, tables, purges>>

-----------------------------------------------------------------------------
(* mark_context and upsert_chunks: POST .../retrieval and .../context.     *)

\* The rows upsert_chunks counts before anything else.
CountRows(c, t) ==
    seen' = [seen EXCEPT ![c] = [Blank EXCEPT !.count = Cardinality(LoggedIds(chunks[t]))]]

AfterCount(batch) == IF batch = <<>> THEN "write_chunks" ELSE "lookup_chunk"

LogRetrieval(c, t, batch) ==
    /\ Calls(c) /\ MayLog(c, t)
    /\ Become(c, [Call("retrieval", t) EXCEPT !.batch = batch])
    /\ CountRows(c, t)
    /\ Goto(c, AfterCount(batch))
    /\ UNCHANGED <<clock, store>>

\* POST .../context without chunk_ids: mark_context returns before any statement.
LogContext(c, t, batch) ==
    /\ Calls(c) /\ MayLog(c, t)
    /\ Become(c, [Call("context", t) EXCEPT !.batch = batch, !.selected = TRUE])
    /\ CountRows(c, t)
    /\ Goto(c, AfterCount(batch))
    /\ UNCHANGED <<clock, store>>

\* With chunk_ids: a transaction of its own, and upsert_chunks after it.
MarkContext(c, t, ids, batch) ==
    /\ Calls(c) /\ MayLog(c, t) /\ ids # {}
    /\ Become(c, [Call("context", t) EXCEPT !.batch = batch, !.selected = TRUE])
    /\ chunks' = [chunks EXCEPT ![t] = Marked(@, ids)]
    /\ SetStatus(t, "context_logged")
    /\ Goto(c, "count")
    /\ UNCHANGED <<clock, created, session, answers, checks, reports, events,
                   purges, seen>>

CountChunks(c) ==
    /\ pc[c] = "count"
    /\ CountRows(c, op[c].trace)
    /\ Goto(c, AfterCount(op[c].batch))
    /\ UNCHANGED <<clock, store, op>>

\* The SELECT for the first chunk of the list still precedes the transaction.
LookupChunk(c) ==
    /\ pc[c] = "lookup_chunk"
    /\ LET t == op[c].trace  row == chunks[t][op[c].batch[1].id] IN
       seen' = [seen EXCEPT ![c] = [@ EXCEPT !.hit = row # None,
                                             !.selected = row # None /\ row.selected,
                                             !.purge = purges[t]]]
    /\ Goto(c, "write_chunks")
    /\ UNCHANGED <<clock, store, op>>

\* What the transaction makes of one chunk id.  The first chunk goes by the
\* earlier SELECT, the others by a SELECT inside the transaction.
ChunkAfter(c, id) ==
    LET t == op[c].trace  batch == op[c].batch  row == chunks[t][id]
        text  == batch[IndexOf(batch, id)].content
        first == batch[1].id = id
    IN  IF id \notin IdsOf(batch) THEN row
        ELSE IF first /\ seen[c].hit
          THEN IF row # None /\ seen[c].purge = purges[t]
                 THEN Updated(row, text, op[c].selected, seen[c].selected)
                 ELSE row
        ELSE IF row # None THEN Updated(row, text, op[c].selected, row.selected)
        ELSE Inserted(batch, id, seen[c].count, op[c].selected)

\* Mutation: chunks are inserted without looking for an existing row.
DuplicateWithoutLookup(c) ==
    op[c].batch # <<>> /\ chunks[op[c].trace][op[c].batch[1].id] # None

\* The INSERT of the first chunk meets a row that was not there at its SELECT.
DuplicateChunk(c) ==
    /\ op[c].batch # <<>> /\ ~seen[c].hit
    /\ chunks[op[c].trace][op[c].batch[1].id] # None

WriteChunks(c) ==
    /\ pc[c] = "write_chunks"
    /\ LET t == op[c].trace IN
       IF DuplicateChunk(c)
         THEN Finish(c, "integrity_error") /\ UNCHANGED <<status, chunks>>
         ELSE /\ chunks' = [chunks EXCEPT ![t] = [id \in ChunkIds |-> ChunkAfter(c, id)]]
              /\ SetStatus(t, IF op[c].selected THEN "context_logged" ELSE "retrieval_logged")
              /\ Finish(c, "returned")
    /\ UNCHANGED <<clock, created, session, answers, checks, reports, events, purges>>

-----------------------------------------------------------------------------
(* save_answer, save_citations, add_agent_event.                           *)

LogAnswer(c, t, a) ==
    /\ Calls(c) /\ MayLog(c, t)
    /\ Become(c, [Call("answer", t) EXCEPT !.answer = a])
    /\ seen' = [seen EXCEPT ![c] = [Blank EXCEPT !.hit = answers[t] # None]]
    /\ Goto(c, "write_answer")
    /\ UNCHANGED <<clock, store>>

\* Mutation: a trace's first answer is not inserted.
AnswerUpdatedOnly(c, row) == IF row = None THEN None ELSE op[c].answer

\* UPDATE when the SELECT found a row (it touches none if a cleanup came
\* between), INSERT otherwise (answers.trace_id is UNIQUE).
AnswerAfter(c, row) == IF seen[c].hit /\ row = None THEN None ELSE op[c].answer

WriteAnswer(c) ==
    /\ pc[c] = "write_answer"
    /\ LET t == op[c].trace IN
       IF ~seen[c].hit /\ answers[t] # None
         THEN Finish(c, "integrity_error") /\ UNCHANGED <<status, answers>>
         ELSE /\ answers' = [answers EXCEPT ![t] = AnswerAfter(c, @)]
              /\ SetStatus(t, "answer_logged")
              /\ Finish(c, "returned")
    /\ UNCHANGED <<clock, created, session, chunks, checks, reports, events, purges>>

\* One transaction from its first statement, the DELETE.
LogCitations(c, t, citations) ==
    /\ Calls(c) /\ MayLog(c, t)
    /\ checks' = [checks EXCEPT ![t] = PendingChecks(citations)]
    /\ SetStatus(t, "citations_logged")
    /\ Become(c, Call("citations", t))
    /\ Goto(c, "returned")
    /\ UNCHANGED <<clock, created, session, chunks, answers, reports, events,
                   purges, seen>>

LogAgentEvent(c, t) ==
    /\ Calls(c) /\ MayLog(c, t) /\ events[t] < MaxEvents
    /\ events' = [events EXCEPT ![t] = @ + 1]
    /\ SetStatus(t, "agent_event_logged")
    /\ Become(c, Call("agent_event", t))
    /\ Goto(c, "returned")
    /\ UNCHANGED <<clock, created, session, chunks, answers, checks, reports,
                   purges, seen>>

-----------------------------------------------------------------------------
(* get_trace, and POST .../evaluate, which saves what it computed from it. *)
(* Of the tables get_trace reads one by one, a step is kept for those whose *)
(* content the caller uses: the evaluation the chunks and the checks, a    *)
(* fetch the checks and then the report.                                   *)

Evaluate(c, t) ==
    /\ Calls(c) /\ MayLog(c, t)
    /\ Become(c, Call("evaluate", t))
    /\ Goto(c, IF InTable(t) THEN "read_chunks" ELSE "key_error")
    /\ UNCHANGED <<clock, store, seen>>

Fetch(c, t) ==
    /\ Calls(c) /\ created[t] # Never
    /\ Become(c, Call("fetch", t))
    /\ seen' = [seen EXCEPT ![c].purge = purges[t]]
    /\ Goto(c, IF InTable(t) THEN "read_checks" ELSE "key_error")
    /\ UNCHANGED <<clock, store>>

ReadChunks(c) ==
    /\ pc[c] = "read_chunks"
    /\ seen' = [seen EXCEPT ![c].chunks = chunks[op[c].trace]]
    /\ Goto(c, "read_checks")
    /\ UNCHANGED <<clock, store, op>>

\* With no check to update, save_evaluation starts with the SELECT of the report.
AfterChecks(c) == IF op[c].name = "fetch" THEN "read_report"
                  ELSE IF checks[op[c].trace] = {} THEN "lookup_report" ELSE "save"

ReadChecks(c) ==
    /\ pc[c] = "read_checks"
    /\ seen' = [seen EXCEPT ![c].checks = checks[op[c].trace]]
    /\ Goto(c, AfterChecks(c))
    /\ UNCHANGED <<clock, store, op>>

ReadReport(c) ==
    /\ pc[c] = "read_report"
    /\ seen' = [seen EXCEPT ![c].report = reports[op[c].trace]]
    /\ Goto(c, "fetched")
    /\ UNCHANGED <<clock, store, op>>

LookupReport(c) ==
    /\ pc[c] = "lookup_report"
    /\ seen' = [seen EXCEPT ![c].hit = reports[op[c].trace] # None]
    /\ Goto(c, "save")
    /\ UNCHANGED <<clock, store, op>>

\* The report the client computed from what it read.
Computed(c) == EvaluationOf(seen[c].chunks, seen[c].checks)

\* Mutation: the report of a trace is only ever updated.
FoundReportAlways(c) == TRUE

\* Whether the transaction takes its UPDATE branch: by the earlier SELECT when
\* there was no check to update, by a SELECT inside the transaction otherwise.
FoundReport(c) == IF seen[c].checks = {} THEN seen[c].hit ELSE reports[op[c].trace] # None

SaveEvaluation(c) ==
    /\ pc[c] = "save"
    /\ LET t == op[c].trace IN
       IF ~FoundReport(c) /\ reports[t] # None
         THEN Finish(c, "integrity_error") /\ UNCHANGED <<status, checks, reports>>
         ELSE /\ checks' = [checks EXCEPT ![t] = WithVerdicts(@, Computed(c).checks)]
              /\ reports' = [reports EXCEPT ![t] =
                               IF FoundReport(c) /\ @ = None THEN None ELSE Computed(c)]
              /\ SetStatus(t, "evaluated")
              /\ Finish(c, "returned")
    /\ UNCHANGED <<clock, created, session, chunks, answers, events, purges>>

-----------------------------------------------------------------------------
(* The client's next call, a call cut off, and time.                       *)

Ended == {"returned", "key_error", "integrity_error", "fetched"}

Return(c) ==
    /\ pc[c] \in Ended
    /\ Goto(c, "idle") /\ Become(c, NoOp) /\ seen' = [seen EXCEPT ![c] = Blank]
    /\ UNCHANGED <<clock, store>>

\* The process dies, or a statement gives up waiting for the writer's lock: the
\* open transaction is rolled back and the committed ones stay.
Abandon(c) ==
    /\ Crashes /\ pc[c] \notin Ended \cup {"idle"}
    /\ Goto(c, "idle") /\ Become(c, NoOp) /\ seen' = [seen EXCEPT ![c] = Blank]
    /\ UNCHANGED <<clock, store>>

Tick ==
    /\ clock < MaxClock
    /\ clock' = clock + 1
    /\ UNCHANGED <<store, pc, op, seen>>

\* A call a client makes.
Begin(c) ==
    \/ \E name \in {"open", "start"} : SelectExpired(c, name)
    \/ \E t \in Traces :
         \/ \E batch \in Batches :
              \/ LogRetrieval(c, t, batch)
              \/ LogContext(c, t, batch)
              \/ \E ids \in SUBSET ChunkIds : MarkContext(c, t, ids, batch)
         \/ \E a \in Answers : LogAnswer(c, t, a)
         \/ \E citations \in CitationSets : LogCitations(c, t, citations)
         \/ LogAgentEvent(c, t)
         \/ Evaluate(c, t) \/ Fetch(c, t)

\* The next statement of the call it is executing; without a retention, the
\* insert is the first one.
Continue(c) ==
    \/ DeleteExpired(c)
    \/ \E t \in Traces : InsertTrace(c, t)
    \/ ReadBack(c)
    \/ CountChunks(c) \/ LookupChunk(c) \/ WriteChunks(c)
    \/ WriteAnswer(c)
    \/ ReadChunks(c) \/ ReadChecks(c) \/ ReadReport(c)
    \/ LookupReport(c) \/ SaveEvaluation(c)
    \/ Return(c)

Next == Tick \/ \E c \in Clients : Begin(c) \/ Continue(c) \/ Abandon(c)

Spec == Init /\ [][Next]_vars


-----------------------------------------------------------------------------
(* Properties.                                                             *)

\* The type invariant: every table column, program counter and read value
\* stays in its range.
TypeOK ==
    /\ clock \in Nat
    /\ status \in [Traces -> Statuses \cup {"none"}]
    /\ created \in [Traces -> Nat \cup {Never}]
    /\ session \in [Traces -> Clients \cup {None}]
    /\ chunks \in [Traces -> ChunkTable]
    /\ answers \in [Traces -> Answers \cup {None}]
    /\ checks \in [Traces -> SUBSET CheckRow]
    /\ reports \in [Traces -> Report \cup {None}]
    /\ events \in [Traces -> Nat]
    /\ purges \in [Traces -> Nat]
    /\ pc \in [Clients -> Steps]
    /\ op \in [Clients -> CallRecord]
    /\ seen \in [Clients -> Reading]

\* The status of a trace that is still in the table never outlives the row it
\* speaks of: "answer_logged" comes with an answer, "evaluated" with a failure
\* report, "agent_event_logged" with an event.  The row may be written by an
\* UPDATE whose target a concurrent cleanup has deleted, and the status by a
\* call that a cleanup overtook.
StatusHasWitness ==
    \A t \in Traces :
        /\ status[t] = "answer_logged" => answers[t] # None
        /\ status[t] = "evaluated" => reports[t] # None
        /\ status[t] = "agent_event_logged" => events[t] > 0

\* A citation check that carries a verdict is explained by a failure report of
\* its trace, also after the trace was deleted and a late writer left rows:
\* save_evaluation writes both and cleanup_expired deletes both.
StoredVerdictHasReport ==
    \A t \in Traces :
        (\E k \in checks[t] : k.status # "pending") => reports[t] # None

\* get_trace reads table by table: when no cleanup came in between, a caller
\* that was shown a verdict is also shown the report it belongs to.  This rests
\* on the report being read after the checks.
FetchShowsReport(c) ==
    /\ pc[c] = "fetched" /\ seen[c].purge = purges[op[c].trace]
    /\ \E k \in seen[c].checks : k.status # "pending"
    => seen[c].report # None

\* A verdict has its report, in the tables and in what a reader is shown.
VerdictHasReport == StoredVerdictHasReport /\ \A c \in Clients : FetchShowsReport(c)

\* An answer whose call returned without an error is in the table, unless a
\* cleanup deleted the trace: the UPDATE-or-INSERT decided by an earlier SELECT
\* never drops it silently.
AnswerIsStored(c) ==
    pc[c] = "returned" /\ op[c].name = "answer" /\ purges[op[c].trace] = 0
    => answers[op[c].trace] # None

AcceptedAnswerIsStored == \A c \in Clients : AnswerIsStored(c)

\* docs/privacy.md, retention_days: a trace may go when its age exceeds the
\* retention (when it reaches it, for a retention of zero days).
OlderThanTTL(t) ==
    /\ created[t] \in Nat /\ Retention \in Nat
    /\ clock - created[t] > Retention \/ Retention = 0

\* A trace that has not outlived its retention loses nothing, whatever cleanups
\* and failed calls run next to it: its rows in every table stay.
Kept(t) ==
    /\ status'[t] # "none"
    /\ LoggedIds(chunks[t]) \subseteq {id \in ChunkIds : chunks'[t][id] # None}
    /\ answers[t] # None => answers'[t] # None
    /\ reports[t] # None => reports'[t] # None
    /\ events'[t] >= events[t]

LiveTraceIsKept == [][\A t \in Traces : InTable(t) /\ ~OlderThanTTL(t) => Kept(t)]_vars

\* A session used by one client at a time never meets a UNIQUE constraint, even
\* next to cleanups, readers and interrupted calls of its own.
NoConstraintViolation == \A c \in Clients : pc[c] # "integrity_error"

\* A session used by one client at a time: a trace with status "evaluated" shows
\* the verdicts and the report that evaluating its present rows again would
\* give.  (Nothing ties the rows read by evaluate to those save_evaluation
\* updates, so it fails as soon as two clients log to one session.)
EvaluationIsFresh ==
    \A t \in Traces :
        status[t] = "evaluated" =>
            /\ checks[t] = Evaluated(chunks[t], checks[t])
            /\ reports[t] = EvaluationOf(chunks[t], checks[t])

\* Both, for the sessions of a store that only their openers log to.
OneUserMeetsNoRace == ~Shared => NoConstraintViolation /\ EvaluationIsFresh

\* A session used by one client at a time: a chunk that was part of the context
\* stays part of it when it is logged again as retrieved.
StaysSelected(t, id) ==
    /\ chunks[t][id] # None /\ chunks'[t][id] # None
    /\ chunks[t][id].selected
    => chunks'[t][id].selected

SelectionIsSticky == [][\A t \in Traces, id \in ChunkIds : StaysSelected(t, id)]_vars

\* "Delete traces and dependent rows older than the configured TTL"
\* (sqlite_store.py, cleanup_expired): when a cleanup commits, no dependent row
\* of a trace that the retention has removed is left.
CleanupLeavesNoDependents ==
    [][\A c \in Clients : DeleteExpired(c) =>
          \A t \in Traces : created[t] # Never /\ status'[t] = "none" => ~HasRows(t)']_vars

\* Every trace that outlives its retention is removed in the end, as long as
\* cleanups keep being completed: one that is cut off half-way, or that chose
\* its traces too early, is made good by a later one.
ExpiredIsRemoved ==
    []<><<\E c \in Clients : DeleteExpired(c)>>_vars
        => \A t \in Traces : (InTable(t) /\ OlderThanTTL(t)) ~> ~InTable(t)

-----------------------------------------------------------------------------
(* The inductive invariant behind the safety properties: what a client may *)
(* rely on between two statements of a call.                               *)

\* The statements that work on the trace named in the call.
WorkSteps == {"read_back", "count", "lookup_chunk", "write_chunks", "write_answer",
              "read_chunks", "read_checks", "read_report", "lookup_report", "save", "fetched"}

\* A call works on an id the store has handed out, so never on one that a
\* later INSERT could bring into the table.
NamesOldTrace(c) ==
    pc[c] \in WorkSteps \/ op[c].name = "answer" =>
        op[c].trace \in Traces /\ created[op[c].trace] # Never

\* A row found by the SELECT before an UPDATE is there unless a cleanup came between.
FoundRowRemains(c) ==
    LET t == op[c].trace IN
    /\ pc[c] = "write_answer" /\ seen[c].hit /\ (InTable(t) \/ purges[t] = 0)
          => answers[t] # None
    /\ pc[c] = "save" /\ seen[c].checks = {} /\ seen[c].hit /\ InTable(t)
          => reports[t] # None

\* The reads of one fetch, in the order of get_trace.
FetchInOrder(c) ==
    LET t == op[c].trace IN
    /\ pc[c] \in {"read_report", "fetched"} => op[c].name = "fetch"
    /\ op[c].name = "fetch" /\ pc[c] \in WorkSteps => seen[c].purge <= purges[t]
    /\ /\ pc[c] = "read_report" /\ seen[c].purge = purges[t]
       /\ \E k \in seen[c].checks : k.status # "pending"
       => reports[t] # None

\* A client that writes an answer has one to write.
AnswerInHand(c) ==
    /\ op[c].name = "answer" => pc[c] \in {"write_answer", "returned", "integrity_error"}
    /\ pc[c] = "write_answer" => op[c].name = "answer" /\ op[c].answer # None

\* What a cleanup has chosen stays due for deletion.
ChosenIsExpired(c) ==
    pc[c] = "delete_expired" => \A t \in seen[c].expired : OlderThanTTL(t)

ClientInv(c) == /\ NamesOldTrace(c) /\ FoundRowRemains(c) /\ FetchInOrder(c)
                /\ AnswerInHand(c) /\ ChosenIsExpired(c) /\ FetchShowsReport(c) /\ AnswerIsStored(c)

OldTraces == \A t \in Traces : (session[t] # None \/ InTable(t)) => created[t] # Never

IndInv == /\ TypeOK
          /\ OldTraces
          /\ \A c \in Clients : ClientInv(c)
          /\ StatusHasWitness
          /\ StoredVerdictHasReport

-----------------------------------------------------------------------------
(* What the user of a session may rely on besides, as long as nobody else  *)
(* logs to it: a cleanup can take the rows away, and nothing else comes    *)
(* between two statements.                                                 *)

\* The statements of a call that logs or evaluates.
Logs(c) == \/ pc[c] \in {"count", "lookup_chunk", "write_chunks", "write_answer", "read_chunks",
                        "lookup_report", "save"}
           \/ pc[c] = "read_checks" /\ op[c].name # "fetch"

\* A session belongs to the client that opened it, from the end of its start().
OwnSession(c) ==
    /\ pc[c] = "read_back" => session[op[c].trace] = None
    /\ Logs(c) => session[op[c].trace] = c

\* The SELECT before an INSERT or UPDATE of the first chunk still holds, or the row
\* was purged.
FirstChunkAsSeen(c) ==
    LET t == op[c].trace  row == chunks[t][op[c].batch[1].id] IN
    pc[c] = "write_chunks" /\ op[c].batch # <<>> =>
        /\ ~seen[c].hit => row = None
        /\ seen[c].purge <= purges[t]
        /\ seen[c].hit /\ seen[c].purge = purges[t] => row # None /\ row.selected = seen[c].selected

\* A row that was not there has not come meanwhile.
NotThereYet(c) ==
    /\ pc[c] = "write_answer" /\ ~seen[c].hit => answers[op[c].trace] = None
    /\ pc[c] = "save" /\ seen[c].checks = {} /\ ~seen[c].hit => reports[op[c].trace] = None

\* The rows that are evaluated are the rows of the trace, if there still is one.
RowsAsRead(c) ==
    LET t == op[c].trace IN
    Logs(c) /\ InTable(t) =>
        /\ pc[c] \in {"read_checks", "lookup_report", "save"} => seen[c].chunks = chunks[t]
        /\ pc[c] \in {"lookup_report", "save"} => seen[c].checks = checks[t]

UserInv(c) == OwnSession(c) /\ FirstChunkAsSeen(c) /\ NotThereYet(c) /\ RowsAsRead(c)

OneUserInv == /\ IndInv
              /\ \A c \in Clients : UserInv(c)
              /\ \A c, d \in Clients : pc[c] = "read_back" /\ pc[d] = "read_back"
                                       /\ op[c].trace = op[d].trace => c = d
              /\ NoConstraintViolation /\ EvaluationIsFresh

=============================================================================
