----------------------------- MODULE HostedTrace -----------------------------
(***************************************************************************)
(* Requests on one trace of the hosted API: TraceService                   *)
(* (apps/api/app/services/traces.py) over one SQLAlchemy session per       *)
(* request, on PostgreSQL under READ COMMITTED (core/config.py).           *)
(*                                                                         *)
(* Every SELECT sees what is committed when it runs, an object keeps the   *)
(* values of its first load (identity map, autoflush off), and the flush   *)
(* of the one commit writes the columns that differ from what was loaded.  *)
(* Handlers run in threads and evaluate_trace awaits a judge, so requests  *)
(* interleave between any two of these steps.                              *)
(*                                                                         *)
(* The judge is a language model: its verdicts are arbitrary, and the      *)
(* rationale it gives may differ where the verdict does not.               *)
(***************************************************************************)
EXTENDS Naturals, Sequences, FiniteSets

CONSTANTS
    Workers,             \* requests that run at a time
    ChunkIds, Contents, Sources, Claims,
    Batches,             \* the chunk lists requests carry: sequences of [id, content]
    CitationLists,       \* the citation lists requests carry: sets of [claim, source]
    MaxRequests,         \* bound: requests on the trace
    EvaluationsAtOnce,   \* evaluations that run at a time
    None

Item == [id : ChunkIds, content : Contents]

ASSUME SourcesAssumption == ChunkIds \subseteq Sources
ASSUME RequestsAssumption ==
    /\ Batches \subseteq Seq(Item) \ {<<>>}
    /\ CitationLists \subseteq SUBSET [claim : Claims, source : Sources]
    /\ MaxRequests \in Nat

VARIABLES
    status,     \* traces.status
    chunks,     \* chunks by external id: UNIQUE(trace_id, external_id)
    answer,     \* whether the answer row exists: answers.trace_id is UNIQUE
    checks,     \* citation_checks rows
    report,     \* the failure report, whose trace_id is UNIQUE, or None
    begun,      \* requests begun so far; a request's number names its rows
    company,    \* history: the most that ever ran at once, a request "alone", a
                \* request and "others", or two "judges"
    request     \* request[w]: the request w runs, with what its session has read

tables == <<status, chunks, answer, checks, report>>
vars   == <<tables, begun, company, request>>

Statuses == {"started", "retrieval_logged", "context_logged", "answer_logged",
             "citations_logged", "agent_event_logged", "evaluated"}
Verdicts == {"supported", "not_enough_info"}
ChunkRow == [content : Contents, selected : BOOLEAN]
Cited    == [claim : Claims, source : Sources]

\* basis: the text a verdict was given for, None for a chunk that was not found.
Check  == [request : 1..MaxRequests, cites : Cited, status : Verdicts \cup {"pending"},
           basis : Contents \cup {None}]
Result == [cites : Cited, status : Verdicts]
KeyOf(c) == <<c.request, c.cites>>

\* None is no text, no row and no report.
ASSUME NoneAssumption ==
    None \notin Contents /\ None \notin ChunkRow /\ \A rows \in SUBSET Result : rows # None

NoRow == [id \in ChunkIds |-> None]

\* A session before its first query.
Fresh == [pc |-> "idle", kind |-> "none", number |-> 0, status |-> "started", raced |-> FALSE,
          batch |-> <<>>, next |-> 1, ids |-> {}, found |-> NoRow, answered |-> FALSE,
          cited |-> {}, old |-> {}, loaded |-> {}, judged |-> {}, reported |-> FALSE]

Init ==
    /\ status = "started"
    /\ chunks = NoRow
    /\ answer = FALSE /\ checks = {} /\ report = None
    /\ begun = 0 /\ company = "alone"
    /\ request = [w \in Workers |-> Fresh]

-----------------------------------------------------------------------------
(* Reading.  A step reads once, or what is read without a choice between.  *)

Ended  == {"idle", "done", "failed"}
Active == {w \in Workers : request[w].pc \notin Ended}

Judging == {w \in Active : request[w].kind = "evaluate"}

CompanyWith(kind) ==
    IF company = "judges" \/ (kind = "evaluate" /\ Judging # {}) THEN "judges"
    ELSE IF company = "others" \/ Active # {} THEN "others"
    ELSE "alone"

\* _get_trace.
Begin(w, opened) ==
    /\ request[w].pc \in Ended /\ begun < MaxRequests
    /\ begun' = begun + 1
    /\ company' = CompanyWith(opened.kind)
    /\ request' = [request EXCEPT ![w] = [opened EXCEPT !.number = begun + 1, !.status = status]]
    /\ UNCHANGED tables

BeginRetrieval(w) ==
    \E batch \in Batches \cup {<<>>} :
        Begin(w, [Fresh EXCEPT !.pc = IF batch = <<>> THEN "commit" ELSE "lookup",
                               !.kind = "retrieval", !.batch = batch])

BeginContext(w) ==
    \E batch \in Batches \cup {<<>>}, ids \in SUBSET ChunkIds :
        Begin(w, [Fresh EXCEPT !.pc = "select", !.kind = "context", !.batch = batch, !.ids = ids])

BeginAnswer(w) == Begin(w, [Fresh EXCEPT !.pc = "load_answer", !.kind = "answer"])

BeginCitations(w) ==
    \E list \in CitationLists :
        Begin(w, [Fresh EXCEPT !.pc = "delete", !.kind = "citations", !.cited = list])

BeginEvent(w) == Begin(w, [Fresh EXCEPT !.pc = "commit", !.kind = "event"])

BeginEvaluate(w) ==
    /\ Cardinality(Judging) < EvaluationsAtOnce
    /\ Begin(w, [Fresh EXCEPT !.pc = "load_answer", !.kind = "evaluate"])

Reads(w, pc, read) ==
    /\ request[w].pc = pc
    /\ request' = [request EXCEPT ![w] = read]
    /\ UNCHANGED <<tables, begun, company>>

\* An object that is in the session already keeps the values it has.
Mapped(r, ids) ==
    [id \in ChunkIds |-> IF id \in ids /\ r.found[id] = None THEN chunks[id] ELSE r.found[id]]

\* log_context: the chunks named by chunk_ids, then trace.chunks for the count.
SelectChunks(w) ==
    LET r == request[w]
    IN Reads(w, "select", [r EXCEPT !.found = Mapped(r, r.ids), !.pc = "count"])

CountChunks(w) ==
    LET r == request[w]
    IN Reads(w, "count", IF r.batch = <<>> THEN [r EXCEPT !.pc = "commit"]
                         ELSE [r EXCEPT !.found = Mapped(r, ChunkIds), !.pc = "lookup"])

\* Mutation: a chunk is looked for among the objects of the session only.
LookupChunkNever(w) ==
    LET r == request[w]
    IN Reads(w, "lookup",
             [r EXCEPT !.next = @ + 1, !.pc = IF r.next = Len(r.batch) THEN "commit" ELSE "lookup"])

\* _upsert_chunk, for the next chunk of the list.  Rows added for earlier ones
\* are not flushed, so they are not found.
LookupChunk(w) ==
    LET r == request[w]
        id == r.batch[r.next].id
    IN Reads(w, "lookup",
             [r EXCEPT !.found = Mapped(r, {id}), !.next = @ + 1,
                       !.pc = IF r.next = Len(r.batch) THEN "commit" ELSE "lookup"])

\* Mutation: an evaluation does not ask for the answer.
LoadAnswerUnchecked(w) ==
    LET r == request[w]
    IN Reads(w, "load_answer",
             [r EXCEPT !.answered = answer,
                       !.pc = IF r.kind = "answer" THEN "commit" ELSE "load_chunks"])

\* log_answer and evaluate_trace load trace.answer; the latter refuses without it.
LoadAnswer(w) ==
    LET r == request[w]
    IN Reads(w, "load_answer",
             [r EXCEPT !.answered = answer,
                       !.pc = CASE r.kind = "answer" -> "commit"
                                [] r.kind = "evaluate" /\ answer -> "load_chunks"
                                [] r.kind = "evaluate" /\ ~answer -> "failed"])

\* The DELETE runs at once and takes the rows it sees; they are gone at the commit.
DeleteChecks(w) ==
    Reads(w, "delete", [request[w] EXCEPT !.old = {KeyOf(c) : c \in checks}, !.pc = "commit"])

LoadChunks(w) ==
    Reads(w, "load_chunks", [request[w] EXCEPT !.found = chunks, !.pc = "load_checks"])

LoadChecks(w) ==
    Reads(w, "load_checks", [request[w] EXCEPT !.loaded = checks, !.pc = "judge"])

\* What the judge may say of a check; nothing is asked of it without a chunk.
VerdictsFor(r, c) ==
    LET row == IF c.cites.source \in ChunkIds THEN r.found[c.cites.source] ELSE None
    IN IF row = None THEN {[c EXCEPT !.status = "not_enough_info", !.basis = None]}
       ELSE {[c EXCEPT !.status = v, !.basis = row.content] : v \in Verdicts}

\* The awaits of the judge and of the failure analysis.
Judge(w) ==
    LET r == request[w]
    IN \E said \in [r.loaded -> UNION {VerdictsFor(r, c) : c \in r.loaded}] :
        /\ \A c \in r.loaded : said[c] \in VerdictsFor(r, c)
        /\ Reads(w, "judge", [r EXCEPT !.judged = {said[c] : c \in r.loaded}, !.pc = "load_report"])

LoadReport(w) ==
    Reads(w, "load_report", [request[w] EXCEPT !.reported = (report # None), !.pc = "commit"])

-----------------------------------------------------------------------------
(* The commit: one flush, or the rollback of everything.                   *)

IdsIn(batch) == {batch[i].id : i \in DOMAIN batch}
Added(r) == {id \in IdsIn(r.batch) : r.found[id] = None}
Repeats(r) == \E i, j \in DOMAIN r.batch : i < j /\ r.batch[i].id = r.batch[j].id /\ r.batch[i].id \in Added(r)
LastContent(batch, id) == batch[CHOOSE i \in DOMAIN batch : /\ batch[i].id = id
                                  /\ \A j \in DOMAIN batch : batch[j].id = id => j <= i].content

\* A row that was found is updated in the columns that changed since its load:
\* a text that is the same, and a selection that stays, are not written.
ChunkAfter(r, id) ==
    LET selects == r.kind = "context"
        old == r.found[id]
        in == id \in IdsIn(r.batch)
    IN CASE in /\ old = None -> [content |-> LastContent(r.batch, id), selected |-> selects]
         [] (in \/ id \in r.ids) /\ old # None ->
              [content |-> IF in /\ LastContent(r.batch, id) # old.content
                           THEN LastContent(r.batch, id) ELSE chunks[id].content,
               selected |-> (selects /\ ~old.selected) \/ chunks[id].selected]
         [] OTHER -> chunks[id]

\* An UPDATE that finds no row raises StaleDataError, a second row UNIQUE.
LogConflict(r) ==
    \/ Repeats(r) \/ \E id \in Added(r) : chunks[id] # None
    \/ r.kind = "answer" /\ ~r.answered /\ answer

\* Mutation: nothing takes the status back from "evaluated".
StatusAfterForward(r, new) == IF r.status = "evaluated" THEN status ELSE new

StatusAfter(r, new) == IF new # r.status THEN new ELSE status

Finish(w, pc) ==
    request' = [v \in Workers |->
                  IF v = w THEN [request[w] EXCEPT !.pc = pc]
                  ELSE IF v \in Active /\ pc = "done" THEN [request[v] EXCEPT !.raced = TRUE]
                  ELSE request[v]]

Commits(w, kinds) == request[w].pc = "commit" /\ request[w].kind \in kinds

CommitLog(w) ==
    LET r == request[w]
    IN /\ Commits(w, {"retrieval", "context", "answer", "citations", "event"})
       /\ ~LogConflict(r)
       /\ chunks' = [id \in ChunkIds |-> ChunkAfter(r, id)]
       /\ answer' = (answer \/ r.kind = "answer")
       /\ checks' = IF r.kind # "citations" THEN checks
                    ELSE {c \in checks : KeyOf(c) \notin r.old}
                           \cup {[request |-> r.number, cites |-> x, status |-> "pending", basis |-> None] :
                                 x \in r.cited}
       /\ status' = StatusAfter(r, CASE r.kind = "retrieval" -> "retrieval_logged"
                                     [] r.kind = "context" -> "context_logged"
                                     [] r.kind = "answer" -> "answer_logged"
                                     [] r.kind = "citations" -> "citations_logged"
                                     [] r.kind = "event" -> "agent_event_logged")
       /\ Finish(w, "done")
       /\ UNCHANGED <<report, begun, company>>

LogFails(w) ==
    /\ Commits(w, {"retrieval", "context", "answer", "citations", "event"})
    /\ LogConflict(request[w])
    /\ Finish(w, "failed")
    /\ UNCHANGED <<tables, begun, company>>

\* The checks an evaluation writes: those with another verdict than was loaded,
\* or a verdict for another text, and any of those where the judge only words
\* its rationale anew.
Written(r) == {W \in SUBSET r.judged : r.judged \ r.loaded \subseteq W}

\* Rows that an uncommitted DELETE of another request holds locked.
Locked(w) == UNION {request[v].old : v \in {u \in Active \ {w} : request[u].kind = "citations"}}

EvaluationConflict(r, W) ==
    \/ ~r.reported /\ report # None
    \/ \E d \in W : \A c \in checks : KeyOf(c) # KeyOf(d)

\* Mutation: the report is made of the citations as they were read.
ReportOfRead(r) == {[cites |-> d.cites, status |-> d.status] : d \in r.loaded}

ReportAfter(r) == {[cites |-> d.cites, status |-> d.status] : d \in r.judged}

CommitEvaluation(w) ==
    LET r == request[w]
    IN /\ Commits(w, {"evaluate"})
       /\ \E W \in Written(r) :
            /\ {KeyOf(d) : d \in W} \cap Locked(w) = {}
            /\ IF EvaluationConflict(r, W)
               THEN Finish(w, "failed") /\ UNCHANGED tables
               ELSE /\ checks' = {c \in checks : \A d \in W : KeyOf(d) # KeyOf(c)}
                                   \cup {d \in W : \E c \in checks : KeyOf(c) = KeyOf(d)}
                    /\ report' = ReportAfter(r)
                    /\ status' = StatusAfter(r, "evaluated")
                    /\ Finish(w, "done")
                    /\ UNCHANGED <<chunks, answer>>
       /\ UNCHANGED <<begun, company>>

Next ==
    \E w \in Workers :
        \/ BeginRetrieval(w) \/ BeginContext(w) \/ BeginAnswer(w) \/ BeginCitations(w)
        \/ BeginEvent(w) \/ BeginEvaluate(w)
        \/ SelectChunks(w) \/ CountChunks(w) \/ LookupChunk(w) \/ LoadAnswer(w)
        \/ DeleteChecks(w) \/ LoadChunks(w) \/ LoadChecks(w) \/ Judge(w) \/ LoadReport(w)
        \/ CommitLog(w) \/ LogFails(w) \/ CommitEvaluation(w)

Spec == Init /\ [][Next]_vars

-----------------------------------------------------------------------------
(* Properties.                                                             *)

Kinds == {"none", "retrieval", "context", "answer", "citations", "event", "evaluate"}

\* What a session can hold.
Request == [pc : Ended \cup {"select", "count", "lookup", "load_answer", "delete", "load_chunks",
                             "load_checks", "judge", "load_report", "commit"},
            kind : Kinds, number : Nat, status : Statuses, raced : BOOLEAN,
            batch : Seq(Item), next : Nat, ids : SUBSET ChunkIds,
            found : [ChunkIds -> ChunkRow \cup {None}], answered : BOOLEAN, cited : SUBSET Cited,
            old : SUBSET (Nat \X Cited), loaded : SUBSET Check, judged : SUBSET Check,
            reported : BOOLEAN]

TypeOK ==
    /\ status \in Statuses
    /\ chunks \in [ChunkIds -> ChunkRow \cup {None}]
    /\ answer \in BOOLEAN
    /\ checks \subseteq Check
    /\ report = None \/ report \subseteq Result
    /\ begun \in 0..MaxRequests
    /\ company \in {"alone", "others", "judges"}
    /\ request \in [Workers -> Request]

\* A verdict, and the status "evaluated", are stored with the report that
\* explains them and for an answer that exists, whatever other requests commit
\* while the judge is awaited.
VerdictHasReport ==
    (status = "evaluated" \/ \E c \in checks : c.status # "pending") => report # None /\ answer

\* As long as no two evaluations ran at once, whatever else is logged meanwhile: a
\* verdict in the table is one the stored report was made of.
ReportAgreesIfOneJudge ==
    company # "judges" =>
    \A c \in checks : c.status # "pending" => [cites |-> c.cites, status |-> c.status] \in report

\* A request fails for what another one committed under its hands, for a chunk
\* listed twice, or as evaluation without an answer; alone it does not.
FailsOnlyWhenRaced ==
    \A w \in Workers :
        LET r == request[w]
        IN r.pc = "failed" => r.raced \/ Repeats(r) \/ (r.kind = "evaluate" /\ ~r.answered)

\* As long as requests came one after another: a trace called evaluated shows a
\* verdict for each of its citations, given for the text its chunk has now.
FreshIfAlone ==
    company = "alone" /\ status = "evaluated" =>
        \A c \in checks :
            /\ c.status # "pending"
            /\ c.basis = IF c.cites.source \in ChunkIds /\ chunks[c.cites.source] # None
                         THEN chunks[c.cites.source].content ELSE None

\* What an evaluation leaves agrees with itself and with what it was made of.
EvaluationsAgree == ReportAgreesIfOneJudge /\ FreshIfAlone

-----------------------------------------------------------------------------
(* What a request relies on from one read to the next, which makes the      *)
(* properties above inductive.                                              *)

OneOfEach(rows) == \A c, d \in rows : KeyOf(c) = KeyOf(d) => c = d

\* Chunk rows are never deleted.
FoundRowsStay(r) == \A id \in ChunkIds : r.found[id] # None => chunks[id] # None

\* The kind of a request decides what it reads; the list is walked from its start.
InOrder(r) ==
    /\ r.pc \in {"select", "count"} => r.kind = "context" /\ r.next = 1
    /\ r.pc = "lookup" => r.kind \in {"retrieval", "context"} /\ r.next \in DOMAIN r.batch
    /\ r.pc = "load_answer" => r.kind \in {"answer", "evaluate"}
    /\ r.pc = "delete" => r.kind = "citations"
    /\ r.pc \in {"load_chunks", "load_checks", "judge", "load_report"} => r.kind = "evaluate"
    /\ r.kind \notin {"retrieval", "context"} => r.batch = <<>> /\ r.ids = {}

\* An evaluation that came past its first read has an answer, for good.
AnswerIsThere(r) ==
    r.kind = "evaluate" /\ r.pc \in {"load_chunks", "load_checks", "judge", "load_report", "commit"}
        => answer

\* There is one verdict for each check that was loaded.
OneVerdictEach(r) ==
    /\ r.kind = "evaluate" /\ r.pc \in {"judge", "load_report", "commit"} => OneOfEach(r.loaded)
    /\ r.kind = "evaluate" /\ r.pc \in {"load_report", "commit"} =>
          /\ OneOfEach(r.judged)
          /\ \A d \in r.judged : \E c \in r.loaded : d \in VerdictsFor(r, c)
          /\ \A c \in r.loaded : \E d \in r.judged : KeyOf(d) = KeyOf(c)

\* As long as nobody else commits, what was read is what the tables hold.
StillCurrent(r) ==
    r.pc \notin Ended /\ ~r.raced =>
        /\ r.status = status
        /\ \A id \in ChunkIds : r.found[id] \in {None, chunks[id]}
        /\ \A i \in DOMAIN r.batch : r.pc = "commit" \/ (r.pc = "lookup" /\ i < r.next) =>
              r.found[r.batch[i].id] = chunks[r.batch[i].id]
        /\ r.kind = "answer" /\ r.pc = "commit" => r.answered = answer
        /\ r.kind = "evaluate" =>
              /\ r.pc \in {"load_checks", "judge", "load_report", "commit"} => r.found = chunks
              /\ r.pc \in {"judge", "load_report", "commit"} => r.loaded = checks
              /\ r.pc = "commit" => r.reported = (report # None)

\* The only evaluation that runs has seen every verdict there is.
HasSeenVerdicts(r) ==
    company # "judges" /\ r.kind = "evaluate" /\ r.pc \in {"judge", "load_report", "commit"} =>
        \A c \in checks : c.status # "pending" => c \in r.loaded

FailedForCause(r) ==
    r.pc = "failed" => r.raced \/ Repeats(r) \/ (r.kind = "evaluate" /\ ~r.answered)

RequestInv(r) ==
    /\ FoundRowsStay(r) /\ InOrder(r) /\ AnswerIsThere(r) /\ OneVerdictEach(r) /\ StillCurrent(r)
    /\ HasSeenVerdicts(r) /\ FailedForCause(r)

\* The rows of a request are told from those of all others by its number.
NumbersDiffer ==
    /\ \A w \in Active : request[w].number \in 1..begun
    /\ \A v, w \in Active : request[v].number = request[w].number => v = w
    /\ \A c \in checks : c.request <= begun /\ \A w \in Active : c.request # request[w].number

\* company tells the truth about the present.
CompanyIsTold ==
    /\ company = "alone" => /\ \A v, w \in Active : v = w
                            /\ \A w \in Active : ~request[w].raced
    /\ company # "judges" => \A v, w \in Judging : v = w

IndInv ==
    /\ TypeOK /\ OneOfEach(checks) /\ NumbersDiffer /\ CompanyIsTold
    /\ VerdictHasReport /\ ReportAgreesIfOneJudge /\ FreshIfAlone
    /\ \A w \in Workers : RequestInv(request[w])

=============================================================================
