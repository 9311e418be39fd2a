------------------------------ MODULE MCServices -------------------------------
(***************************************************************************)
(* What the services do beside the requests of one trace, each a scenario  *)
(* of its own: first calls that race for their user and project            *)
(* (HostedNames), runs of a hosted evaluation set (HostedEvals), the       *)
(* evaluation of an endpoint on the local store (EndpointEvals) and the    *)
(* playground (Playground).                                                *)
(***************************************************************************)
EXTENDS HostedNames, Integers, Sequences

CONSTANTS
    Runs, RunsAtOnce, Adders,
    Datasets, Answers, RuleSets, Retentions, MaxClock,
    Users, u1, Workers, w1, w2, Words, Documents, Samples, Queries, Comparisons, TopKs,
    MaxTokens, Overlap, ListLimit, MaxRequests

ASSUME EvalsAssumption == None \notin Nat
ASSUME EndpointAssumption ==
    /\ Datasets \subseteq Seq({"query", "blank"}) /\ Answers \subseteq Seq(Nat)
    /\ Retentions \subseteq Nat \cup {None} /\ None \notin {"pass", "fail", "raised"}

VARIABLES
    scenario,
    questions, traces, run, adder,                                          \* HostedEvals
    setup, clock, stage, at, asked, started, tested, listed, outcome,       \* EndpointEvals
    store, uploads, request, replied, begun                                 \* Playground

Evals == INSTANCE HostedEvals
Endpoint == INSTANCE EndpointEvals WITH traces <- started, results <- tested, pc <- stage

evalVars == <<questions, traces, run, adder>>
endpointVars == <<setup, clock, stage, at, asked, started, tested, listed, outcome>>
playVars == <<store, uploads, request, replied, begun>>

-----------------------------------------------------------------------------
(* The evaluation of an endpoint.                                          *)

MCDatasets == UNION {[1..n -> {"query", "blank"}] : n \in 0..2} \cup {<<"query", "query", "query">>}

\* Well supported, half supported next to well, not supported, not cited.
MCAnswers == {<<900>>, <<900, 400>>, <<200>>, <<>>}

Rule(metric, op, value) == [metric |-> metric, op |-> op, value |-> value]
NoFailure == Rule("failure_rate", ">", 0)

\* The defaults of the command and of run_evaluation, and some rules by hand.
MCRuleSets ==
    { {},
      {NoFailure, Rule("citation_support", "<", 800), Rule("unsupported_claim_rate", ">", 100)},
      {NoFailure},
      {Rule("failure_rate", ">=", 500), Rule("citation_support", "<=", 500)} }

EndpointUnused ==
    Endpoint!Init /\ setup = [front |-> "eval", dataset |-> <<>>, rules |-> {}, retention |-> None]

-----------------------------------------------------------------------------
(* The playground: documents, and queries of every class.                  *)

Doc(tokens, words) == [tokens |-> tokens, words |-> words]

\* Of two chunks, of one, and without text.
MCDocuments == {Doc(4, "apt"), Doc(2, "near"), Doc(0, "far")}
MCSamples == {<<Doc(2, "apt"), Doc(4, "far")>>}

Scores3(apt, near, far) == [words \in {"apt", "near", "far"} |->
                               CASE words = "apt" -> apt [] words = "near" -> near [] OTHER -> far]
Query(timely, broad, parts, vague, complex, dense, lexical) ==
    [timely |-> timely, broad |-> broad, comparing |-> FALSE, parts |-> parts, vague |-> vague,
     complex |-> complex, dense |-> dense, lexical |-> lexical,
     bonus |-> Scores3(20, 5, 0), terms |-> lexical]

Clear == Scores3(60, 30, 0)
Dim   == Scores3(40, 20, -10)
MCQueries ==
    { Query(FALSE, FALSE, FALSE, FALSE, FALSE, Clear, Scores3(50, 0, 0)),
      Query(FALSE, FALSE, FALSE, FALSE, FALSE, Dim, Scores3(0, 20, 0)),
      Query(TRUE, FALSE, FALSE, FALSE, FALSE, Clear, Scores3(70, 30, 0)),
      Query(FALSE, TRUE, FALSE, FALSE, FALSE, Clear, Scores3(50, 30, 0)),
      Query(FALSE, FALSE, TRUE, FALSE, TRUE, Dim, Scores3(50, 30, 0)),
      Query(FALSE, FALSE, FALSE, TRUE, FALSE, Dim, Scores3(0, 0, 0)) }

MCComparisons == {<<"bm25_top_k", "corrective_rag">>, <<"contexttrace_adaptive", "hybrid">>}

Play == INSTANCE Playground WITH results <- replied

\* MaxTokens and Overlap are what TokenAwareChunker accepts; the scores of words
\* (_bm25_score) are sums of logarithms of at least 1.
ASSUME PlayAssumption ==
    /\ Documents \subseteq Play!Document
    /\ Samples \subseteq Seq(Play!Document) \ {<<>>}
    /\ Comparisons \subseteq Seq(Play!Strategies) \ {<<>>}
    /\ \A q \in Queries : /\ q.dense \in [Words -> Int] /\ q.bonus \in [Words -> Int]
                           /\ q.terms \in [Words -> Int] /\ q.lexical \in [Words -> Nat]
    /\ TopKs \subseteq Nat /\ ListLimit \in Nat
    /\ MaxTokens \in Nat /\ Overlap \in Nat /\ Overlap < MaxTokens

\* Queries meet uploads, not one another: one query, of u1, beside uploads.
PlayNext ==
    /\ Play!Next
    /\ request'[w1].pc \in {"idle", "chunk", "store"}
    /\ request'[w2].pc # "idle" => request'[w2].pc \notin {"chunk", "store"} /\ request'[w2].user = u1
    /\ request[w2].pc = "idle" /\ request'[w2].pc # "idle" => replied = {}

-----------------------------------------------------------------------------
(* The scenarios.                                                          *)

MCInit ==
    /\ Init /\ Evals!Init /\ Play!Init
    /\ \/ scenario \in {"first calls", "eval runs", "playground"} /\ EndpointUnused
       \/ scenario = "endpoint eval" /\ Endpoint!Init

FirstCall(c) ==
    scenario = "first calls" /\ Step(c) /\ UNCHANGED <<scenario, evalVars, endpointVars, playVars>>
EvalRuns ==
    scenario = "eval runs" /\ Evals!Next /\ UNCHANGED <<scenario, vars, endpointVars, playVars>>
EndpointStep ==
    scenario = "endpoint eval" /\ Endpoint!Next /\ UNCHANGED <<scenario, vars, evalVars, playVars>>
PlayStep ==
    scenario = "playground" /\ PlayNext /\ UNCHANGED <<scenario, vars, evalVars, endpointVars>>

mcVars == <<scenario, vars, evalVars, endpointVars, playVars>>

MCSpec ==
    /\ MCInit
    /\ [][(\E c \in Clients : FirstCall(c)) \/ EvalRuns \/ EndpointStep \/ PlayStep]_mcVars
    /\ \A c \in Clients : WF_mcVars(FirstCall(c))

\* The evaluation of an endpoint alone.
EndpointSpec == (scenario = "endpoint eval") /\ MCInit /\ [][EndpointStep]_mcVars

-----------------------------------------------------------------------------
(* The properties of the modules, each in its scenario.                    *)

\* Every first call comes back (HostedNames).
FirstCallsComeBack == scenario = "first calls" => CallsComeBack

\* A run that returned has covered every question it found (HostedEvals).
ReturnedRunIsComplete == Evals!ReturnedRunIsComplete

\* A green evaluation has tested every question and found no fault, and one that
\* dies has a cause for it (EndpointEvals).
OutcomeIsEarned == Endpoint!OutcomeIsEarned

\* An evaluation that came to a verdict is in the list of evaluation runs.
FinishedEvalIsListed == scenario = "endpoint eval" => Endpoint!FinishedEvalIsListed

\* A user is answered with the user's own records, and cites the context.
AnswerRestsOnOwnContext == Play!AnswerRestsOnOwnContext

\* A query that has room left has found every word its user had uploaded before.
NothingReportedIsMissed == Play!NothingReportedIsMissed
=============================================================================
