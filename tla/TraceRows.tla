------------------------------ MODULE TraceRows ------------------------------
(***************************************************************************)
(* The rows a local trace is made of, and the pure functions the store and *)
(* the local transport apply to them: what one call writes into the chunk  *)
(* and citation tables, and what the lexical evaluation of a trace returns *)
(* (storage/sqlite_store.py and local.py of the contexttrace package).     *)
(*                                                                         *)
(* A chunk's text is a member of Contents and a claim a member of Claims;  *)
(* the overlap score of _support_score is the table Support, in            *)
(* thousandths as the code rounds it to three places.  Columns that are    *)
(* only carried along (source, metadata, relevance score, model, usage,    *)
(* row timestamps) are left out.                                           *)
(***************************************************************************)
EXTENDS Naturals, Sequences

CONSTANTS
    ChunkIds,      \* values of chunks.chunk_id and citation_checks.source_chunk_id
    Contents,      \* chunk texts
    Claims,        \* citation claims
    Answers,       \* answer texts
    Support,       \* _support_score(claim, text), in thousandths
    None           \* SQL's "no row"

ASSUME SupportAssumption == Support \in [Claims -> [Contents -> 0..1000]]

-----------------------------------------------------------------------------
(* Rows.  A trace's chunk table maps a chunk_id to its row: UNIQUE(trace_id, chunk_id). *)

ChunkRow   == [position : Nat, selected : BOOLEAN, content : Contents]
ChunkTable == [ChunkIds -> ChunkRow \cup {None}]
NoChunks   == [id \in ChunkIds |-> None]

LoggedIds(rows) == {id \in ChunkIds : rows[id] # None}

Verdicts == {"directly_supported", "partially_supported", "unsupported"}
CheckRow == [claim : Claims, source : ChunkIds, status : Verdicts \cup {"pending"}]
Citation == [claim : Claims, source : ChunkIds]

FailureTypes == {"citation_mismatch", "unsupported_answer", "no_failure_detected"}
Report       == [checks : SUBSET CheckRow, failure : FailureTypes]

ASSUME NoneAssumption == None \notin ChunkRow \cup Answers \cup Report

-----------------------------------------------------------------------------
(* What one store call writes.                                             *)

\* A chunk list as a caller logs it: distinct chunk ids, each with its text.
ChunkItem == [id : ChunkIds, content : Contents]
IdsOf(batch) == {batch[i].id : i \in DOMAIN batch}
IndexOf(batch, id) == CHOOSE i \in DOMAIN batch : batch[i].id = id

\* Mutation: an update overwrites the selection.
UpdatedOverwriting(row, content, selected, wasSelected) ==
    [row EXCEPT !.content = content, !.selected = selected]

\* The row of an id that was already in the table: new text, sticky selection,
\* unchanged position.
Updated(row, content, selected, wasSelected) ==
    [row EXCEPT !.content = content, !.selected = wasSelected \/ selected]

\* The row of a new id: count is the number of rows the call found at its start.
Inserted(batch, id, count, selected) ==
    [position |-> count + IndexOf(batch, id) - 1,
     selected |-> selected,
     content  |-> batch[IndexOf(batch, id)].content]

\* mark_context: the rows of the named ids become selected.
Marked(rows, ids) ==
    [id \in ChunkIds |-> IF id \in ids /\ rows[id] # None
                           THEN [rows[id] EXCEPT !.selected = TRUE]
                           ELSE rows[id]]

\* save_citations: every citation as a fresh, unverified check.
PendingChecks(citations) ==
    {[claim |-> k.claim, source |-> k.source, status |-> "pending"] : k \in citations}

\* save_evaluation's UPDATE: a check takes the verdict computed for its claim and source.
WithVerdicts(checks, evaluated) ==
    {IF \E e \in evaluated : e.claim = k.claim /\ e.source = k.source
       THEN CHOOSE e \in evaluated : e.claim = k.claim /\ e.source = k.source
       ELSE k : k \in checks}

-----------------------------------------------------------------------------
(* The lexical evaluation of a snapshot.                                   *)

Verdict(score) == CASE score >= 650 -> "directly_supported"
                    [] score >= 350 /\ score < 650 -> "partially_supported"
                    [] score < 350 -> "unsupported"

\* The verdict of one check against the chunks of the snapshot: a citation of
\* a chunk that is not there is scored against the empty text.
Judged(rows, check) ==
    [claim  |-> check.claim,
     source |-> check.source,
     status |-> Verdict(IF rows[check.source] = None
                          THEN 0
                          ELSE Support[check.claim][rows[check.source].content])]

Evaluated(rows, checks) == {Judged(rows, k) : k \in checks}

\* _failure_type for a trace without expectations or stances in its metadata:
\* some other chunk supports a claim that its source does not, or a claim is
\* unsupported, or there was nothing to verify.
FailureType(rows, evaluated) ==
    LET unsupported == {k \in evaluated : k.status # "directly_supported"}
        mismatched  == \E k \in unsupported, id \in LoggedIds(rows) :
                          Support[k.claim][rows[id].content] >= 650
    IN  IF mismatched THEN "citation_mismatch"
        ELSE IF unsupported # {} \/ evaluated = {} THEN "unsupported_answer"
        ELSE "no_failure_detected"

EvaluationOf(rows, checks) ==
    [checks  |-> Evaluated(rows, checks),
     failure |-> FailureType(rows, Evaluated(rows, checks))]
=============================================================================
