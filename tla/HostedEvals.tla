----------------------------- MODULE HostedEvals -----------------------------
(***************************************************************************)
(* Evaluation sets run against an external RAG endpoint:                   *)
(* ExternalEndpointService.run_eval and EvalSetService                     *)
(* (apps/api/app/services/external_endpoints.py and evals.py).             *)
(*                                                                         *)
(* run_eval calls the endpoint for one question after the other, writes    *)
(* the answer as a trace in several commits, links the question to it and  *)
(* evaluates it.  Whatever fails on the way ends the request; what was     *)
(* committed stays.                                                        *)
(***************************************************************************)
EXTENDS Naturals, Sequences, FiniteSets

CONSTANTS
    Runs,           \* requests to run_eval
    RunsAtOnce,     \* how many of them run at a time
    Adders,         \* requests to add_questions, of one question each
    None

VARIABLES
    questions,      \* eval_questions by position of creation: [position, trace]
    traces,         \* traces by number: the parts that are committed
    run,            \* run[r]: where the request is
    adder           \* adder[a]: likewise

vars == <<questions, traces, run, adder>>

Parts == {"chunks", "answer", "citations", "report"}

Init ==
    /\ questions = <<>> /\ traces = <<>>
    /\ run = [r \in Runs |-> [pc |-> "idle", todo |-> 0, at |-> 0, trace |-> None, made |-> {}]]
    /\ adder = [a \in Adders |-> [pc |-> "idle", start |-> 0]]

-----------------------------------------------------------------------------
(* add_questions: the position is the number of questions that were loaded. *)

CountQuestions(a) ==
    /\ adder[a].pc = "idle"
    /\ adder' = [adder EXCEPT ![a] = [pc |-> "insert", start |-> Len(questions)]]
    /\ UNCHANGED <<questions, traces, run>>

InsertQuestion(a) ==
    /\ adder[a].pc = "insert"
    /\ questions' = Append(questions, [position |-> adder[a].start, trace |-> None])
    /\ adder' = [adder EXCEPT ![a].pc = "done"]
    /\ UNCHANGED <<traces, run>>

-----------------------------------------------------------------------------
(* run_eval.                                                               *)

Running == {r \in Runs : run[r].pc \notin {"idle", "returned", "failed"}}

At(r, pc, next) == run[r].pc = pc /\ run' = [run EXCEPT ![r] = [@ EXCEPT !.pc = next]]

\* Mutation: the list is counted from one too many.
BeginRunPastEnd(r) ==
    /\ run[r].pc = "idle" /\ Cardinality(Running) < RunsAtOnce
    /\ run' = [run EXCEPT ![r] = [@ EXCEPT !.pc = "next", !.todo = Len(questions) + 1]]
    /\ UNCHANGED <<questions, traces, adder>>

\* The list of questions is loaded once; those added later are not run.
BeginRun(r) ==
    /\ run[r].pc = "idle" /\ Cardinality(Running) < RunsAtOnce
    /\ run' = [run EXCEPT ![r] = [@ EXCEPT !.pc = "next", !.todo = Len(questions)]]
    /\ UNCHANGED <<questions, traces, adder>>

\* The endpoint is awaited, then start_trace commits.
CallEndpoint(r) ==
    /\ run[r].pc = "next" /\ run[r].at < run[r].todo
    /\ traces' = Append(traces, {})
    /\ run' = [run EXCEPT ![r] = [@ EXCEPT !.pc = "chunks", !.at = run[r].at + 1, !.trace = Len(traces) + 1,
                                           !.made = run[r].made \cup {Len(traces) + 1}]]
    /\ UNCHANGED <<questions, adder>>

Log(r, part) == traces' = [traces EXCEPT ![run[r].trace] = @ \cup {part}]

\* log_retrieval and log_context, if the endpoint named any chunks.
LogChunks(r)   == At(r, "chunks", "answer") /\ Log(r, "chunks") /\ UNCHANGED <<questions, adder>>
SkipChunks(r)  == At(r, "chunks", "answer") /\ UNCHANGED <<questions, traces, adder>>
LogAnswer(r)   == At(r, "answer", "citations") /\ Log(r, "answer") /\ UNCHANGED <<questions, adder>>
LogCites(r)    == At(r, "citations", "link") /\ Log(r, "citations") /\ UNCHANGED <<questions, adder>>

Link(r) ==
    /\ At(r, "link", "evaluate")
    /\ questions' = [questions EXCEPT ![run[r].at] = [@ EXCEPT !.trace = run[r].trace]]
    /\ UNCHANGED <<traces, adder>>

Evaluate(r) ==
    /\ At(r, "evaluate", "next") /\ Log(r, "report")
    /\ UNCHANGED <<questions, adder>>

\* The refresh of the eval set and its summary.
ReturnSummary(r) ==
    /\ run[r].at = run[r].todo
    /\ At(r, "next", "returned")
    /\ UNCHANGED <<questions, traces, adder>>

\* Mutation: a question that fails is passed over.
FailPassingOver(r) ==
    /\ run[r].pc \in {"chunks", "answer", "citations", "link", "evaluate"}
    /\ \E pc \in {"next", "failed"} : run' = [run EXCEPT ![r] = [@ EXCEPT !.pc = pc]]
    /\ UNCHANGED <<questions, traces, adder>>

\* The endpoint answers with an error or without an answer, a commit or the
\* judge fails, the server stops.
Fail(r) ==
    /\ r \in Running
    /\ run' = [run EXCEPT ![r] = [@ EXCEPT !.pc = "failed"]]
    /\ UNCHANGED <<questions, traces, adder>>

Next ==
    \/ \E a \in Adders : CountQuestions(a) \/ InsertQuestion(a)
    \/ \E r \in Runs : \/ BeginRun(r) \/ CallEndpoint(r) \/ LogChunks(r) \/ SkipChunks(r)
                       \/ LogAnswer(r) \/ LogCites(r) \/ Link(r) \/ Evaluate(r)
                       \/ ReturnSummary(r) \/ Fail(r)

Spec == Init /\ [][Next]_vars

-----------------------------------------------------------------------------
(* aggregate_eval_set.                                                     *)

Linked    == {i \in DOMAIN questions : questions[i].trace # None}
Evaluated == {i \in Linked : "report" \in traces[questions[i].trace]}

(* Properties.                                                             *)

TypeOK ==
    /\ \A i \in DOMAIN questions :
          questions[i].trace \in DOMAIN traces \cup {None} /\ questions[i].position \in Nat
    /\ \A t \in DOMAIN traces : traces[t] \subseteq Parts
    /\ \A r \in Runs : run[r].at <= run[r].todo /\ run[r].todo <= Len(questions)

\* What returned has covered every question it found, and once all runs have
\* ended each of them counts as evaluated in the summary, unless a run that
\* failed took over its link.
ReturnedRunIsComplete ==
    \A r \in Runs : run[r].pc = "returned" /\ Running = {} =>
        \A i \in 1..run[r].todo :
            i \in Evaluated \/ \E s \in Runs : run[s].pc = "failed" /\ questions[i].trace \in run[s].made

=============================================================================
