---------------------------- MODULE EndpointEvals -----------------------------
(***************************************************************************)
(* One evaluation of a RAG endpoint over a dataset, on the local store     *)
(* (endpoint_eval.py with the eval command of cli.py, evaluator.py,        *)
(* thresholds.py, and the evaluation in local.py).                         *)
(*                                                                         *)
(* Two programs do it.  "eval" is the command: it skips an entry without a *)
(* query, dies when the endpoint fails, reads all traces again for its     *)
(* report and records a row.  "run_evaluation" refuses such an entry, and  *)
(* counts a failed endpoint as a failed question.  Each question starts a  *)
(* trace, which cleans up what has expired, as other processes on the same *)
(* store do.  Scores and rates are in thousandths, as they are rounded.    *)
(***************************************************************************)
EXTENDS Integers, Sequences, SequencesExt, FiniteSets

CONSTANTS
    Datasets,       \* sequences over {"query", "blank"}
    Answers,        \* what an endpoint's answer cites: the scores of its checks
    RuleSets,       \* sets of threshold rules [metric, op, value]
    Retentions,     \* None, or how long a trace is kept
    MaxClock,       \* bound on the time an evaluation takes
    None

VARIABLES
    setup,          \* [front, dataset, rules, retention]: what was asked for
    clock,
    pc, at,         \* where the evaluation is, at which entry of the dataset
    asked,          \* what the endpoint said to the entry at hand
    traces,         \* the traces it started: [made, live]
    results,        \* per question tested: [entry, checks, error, support, unsupported, failure]
    listed,         \* rows of eval_runs
    outcome         \* "pass", "fail" or "raised", once it has ended

vars == <<setup, clock, pc, at, asked, traces, results, listed, outcome>>

\* A failed call leaves an answer without citations.
NoAnswer == [error |-> TRUE, checks |-> <<>>]
Replies  == [error : {FALSE}, checks : Answers] \cup {NoAnswer}

Init ==
    /\ setup \in [front : {"eval", "run_evaluation"}, dataset : Datasets,
                  rules : RuleSets, retention : Retentions]
    /\ clock = 0 /\ pc = "load" /\ at = 0 /\ asked = [error |-> FALSE, checks |-> <<>>]
    /\ traces = <<>> /\ results = <<>> /\ listed = 0 /\ outcome = None

-----------------------------------------------------------------------------
(* The local evaluation of a trace, and the numbers of an evaluation.      *)

\* Rounded to the nearest thousandth.
Rounded(sum, n) == (2 * sum + n) \div (2 * n)
Average(s)      == Rounded(FoldSeq(+, 0, s), Len(s))
Share(count, n) == Rounded(1000 * count, n)

\* Whether a failure is found: a check falls short or there is none.
FailureType(checks) == checks = <<>> \/ \E i \in DOMAIN checks : checks[i] < 650

Support(checks) == IF checks = <<>> THEN 0 ELSE Average(checks)
UnsupportedRate(checks) ==
    IF checks = <<>> THEN 1000
    ELSE Share(Cardinality({i \in DOMAIN checks : checks[i] < 350}), Len(checks))

Column(field) == [i \in DOMAIN results |-> results[i][field]]
Failures      == {i \in DOMAIN results : results[i].failure \/ results[i].error}

\* With nothing tested the command's rates are 0, those of run_evaluation the worst.
Metrics ==
    IF results = <<>>
    THEN LET worst == IF setup.front = "eval" THEN 0 ELSE 1000
         IN [failure_rate |-> worst, citation_support |-> 0, unsupported_claim_rate |-> worst]
    ELSE [failure_rate |-> Share(Cardinality(Failures), Len(results)),
          citation_support |-> Average(Column("support")),
          unsupported_claim_rate |-> Average(Column("unsupported"))]

Fires(rule) ==
    LET value == Metrics[rule.metric]
    IN CASE rule.op = ">"  -> value > rule.value  [] rule.op = ">=" -> value >= rule.value
         [] rule.op = "<"  -> value < rule.value  [] rule.op = "<=" -> value <= rule.value

\* The rows that a cleanup with the retention of this store takes at time now.
\* Mutation: one that is as old as the retention is taken too.
ExpiredInclusive(trace, now) == setup.retention # None /\ trace.made <= now - setup.retention
Expired(trace, now) ==
    /\ setup.retention # None
    /\ IF setup.retention = 0 THEN trace.made <= now ELSE trace.made < now - setup.retention

Cleaned(now) == [i \in DOMAIN traces |->
                    [traces[i] EXCEPT !.live = @ /\ ~Expired(traces[i], now)]]

-----------------------------------------------------------------------------
(* The steps of the evaluation.                                            *)

Raise == pc' = "done" /\ outcome' = "raised"
Goto(step) == pc' = step /\ UNCHANGED outcome

\* run_evaluation refuses a dataset with an entry that has no question.
Load ==
    /\ pc = "load"
    /\ IF setup.front = "run_evaluation" /\ \E i \in DOMAIN setup.dataset : setup.dataset[i] = "blank"
       THEN Raise
       ELSE Goto("next")
    /\ UNCHANGED <<setup, clock, at, asked, traces, results, listed>>

SkipBlank ==
    /\ pc = "next" /\ at < Len(setup.dataset) /\ setup.dataset[at + 1] = "blank"
    /\ at' = at + 1
    /\ UNCHANGED <<setup, clock, pc, asked, traces, results, listed, outcome>>

\* The endpoint is called before the trace is started.
\* Mutation: the command passes over a question whose call failed.
AskPassingOver ==
    /\ pc = "next" /\ at < Len(setup.dataset) /\ setup.dataset[at + 1] = "query"
    /\ at' = at + 1 /\ asked' \in Replies
    /\ Goto(IF asked'.error /\ setup.front = "eval" THEN "next" ELSE "start")
    /\ UNCHANGED <<setup, clock, traces, results, listed>>
Ask ==
    /\ pc = "next" /\ at < Len(setup.dataset) /\ setup.dataset[at + 1] = "query"
    /\ at' = at + 1 /\ asked' \in Replies
    /\ IF asked'.error /\ setup.front = "eval" THEN Raise ELSE Goto("start")
    /\ UNCHANGED <<setup, clock, traces, results, listed>>

\* POST /v1/traces/start: the cleanup, then the row.
StartTrace ==
    /\ pc = "start"
    /\ traces' = Append(Cleaned(clock), [made |-> clock, live |-> TRUE])
    /\ Goto("evaluate")
    /\ UNCHANGED <<setup, clock, at, asked, results, listed>>

\* What was logged needs no trace, but evaluate reads it.  A failed call is
\* logged with the error as its answer and without chunks or citations.
Evaluate ==
    /\ pc = "evaluate"
    /\ IF ~traces[Len(traces)].live
       THEN Raise /\ UNCHANGED results
       ELSE /\ results' = Append(results,
                  [entry |-> at, checks |-> asked.checks, error |-> asked.error,
                   support |-> Support(asked.checks), unsupported |-> UnsupportedRate(asked.checks),
                   failure |-> FailureType(asked.checks)])
            /\ Goto("next")
    /\ UNCHANGED <<setup, clock, at, asked, traces, listed>>

\* What _transport offers: PrivacyTransport wraps the one with the store.
TransportAttributes == {"transport", "policy", "post", "get", "close"}

\* The rows of the run and its questions, if the transport has a store.
Record ==
    /\ pc = "next" /\ at = Len(setup.dataset)
    /\ listed' = IF setup.front = "eval" /\ "store" \in TransportAttributes THEN listed + 1 ELSE listed
    /\ Goto(IF setup.front = "eval" THEN "report" ELSE "gate")
    /\ UNCHANGED <<setup, clock, at, asked, traces, results>>

\* The report reads every trace again.
Report ==
    /\ pc = "report"
    /\ IF \E i \in DOMAIN traces : ~traces[i].live THEN Raise ELSE Goto("gate")
    /\ UNCHANGED <<setup, clock, at, asked, traces, results, listed>>

Gate ==
    /\ pc = "gate"
    /\ pc' = "done"
    /\ outcome' = IF \E rule \in setup.rules : Fires(rule) THEN "fail" ELSE "pass"
    /\ UNCHANGED <<setup, clock, at, asked, traces, results, listed>>

-----------------------------------------------------------------------------
(* What happens beside it: time passes, other processes clean up.          *)

Tick ==
    /\ pc # "done" /\ clock < MaxClock
    /\ clock' = clock + 1
    /\ UNCHANGED <<setup, pc, at, asked, traces, results, listed, outcome>>

CleanUp ==
    /\ pc # "done" /\ traces' = Cleaned(clock) /\ traces' # traces
    /\ UNCHANGED <<setup, clock, pc, at, asked, results, listed, outcome>>

Next == \/ Load \/ SkipBlank \/ Ask \/ StartTrace \/ Evaluate \/ Record \/ Report \/ Gate
        \/ Tick \/ CleanUp

Spec == Init /\ [][Next]_vars

-----------------------------------------------------------------------------
(* Properties.                                                             *)

QueryEntries == {i \in DOMAIN setup.dataset : setup.dataset[i] = "query"}

TypeOK ==
    /\ clock \in 0..MaxClock /\ at \in 0..Len(setup.dataset) /\ listed \in 0..1
    /\ pc \in {"load", "next", "start", "evaluate", "report", "gate", "done"}
    /\ outcome \in {None, "pass", "fail", "raised"} /\ (outcome # None <=> pc = "done")
    /\ Len(results) <= Len(traces) /\ Len(traces) <= Len(setup.dataset)
    /\ \A i \in DOMAIN traces : traces[i].made \in 0..clock

\* A green evaluation that tolerates no failure has put every question of the
\* dataset to the endpoint, in order, got an answer, and found each citation of it
\* directly supported (run_endpoint_eval, run_evaluation, _failure_type).  From
\* 2000 questions on one failure is rounded away.
PassedEvalIsEarned ==
    outcome = "pass" /\ Len(setup.dataset) < 2000
        /\ [metric |-> "failure_rate", op |-> ">", value |-> 0] \in setup.rules =>
        /\ {results[k].entry : k \in DOMAIN results} = QueryEntries
        /\ \A k \in DOMAIN results :
              /\ k > 1 => results[k - 1].entry < results[k].entry
              /\ ~results[k].error /\ results[k].checks # <<>>
              /\ \A i \in DOMAIN results[k].checks : results[k].checks[i] >= 650

\* An evaluation dies only of an endpoint that failed, of an entry it refuses, or
\* because it took longer than traces are kept (or they are not kept at all): no
\* cleanup takes a trace from under one that is quicker.
DeathHasCause ==
    outcome = "raised" =>
        \/ asked.error
        \/ setup.front = "run_evaluation" /\ Cardinality(QueryEntries) < Len(setup.dataset)
        \/ setup.retention # None /\ (setup.retention = 0 \/ clock > setup.retention)

\* How an evaluation ends is earned, whichever way it ends.
OutcomeIsEarned == PassedEvalIsEarned /\ DeathHasCause

\* An evaluation by the command that came to a verdict is in the list of evaluation
\* runs, which status, report --eval-run and the viewer show.
FinishedEvalIsListed ==
    setup.front = "eval" /\ results # <<>> /\ outcome \in {"pass", "fail"} => listed = 1

=============================================================================
