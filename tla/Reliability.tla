----------------------------- MODULE Reliability ------------------------------
(***************************************************************************)
(* The reliability score of an evaluated trace: ReliabilityScorer of the   *)
(* package (reliability.py), of which the hosted API keeps a copy          *)
(* (apps/api/app/services/reliability_scorer.py).  A weighted mean of the  *)
(* metrics that are there, a grade, and for every metric a judgement that  *)
(* ends up among the strengths or the weaknesses of the report.            *)
(*                                                                         *)
(* Numbers between 0 and 1, which the code rounds to three places, are     *)
(* thousandths; weights are hundredths.                                    *)
(***************************************************************************)
EXTENDS Integers, FiniteSetsExt

CONSTANT Nothing   \* Python's None

Metrics == {"support", "unsupported", "failures", "retrieval", "abstention", "tokens"}

Weight == [support |-> 35, unsupported |-> 25, failures |-> 25,
           retrieval |-> 10, abstention |-> 10, tokens |-> 5]

\* _optional_clamp
Clamped(v) == IF v = Nothing \/ v \in 0..1000 THEN v ELSE IF v > 1000 THEN 1000 ELSE 0

\* Mutation: the rate of unsupported claims counts in favour of the trace.
InvertedFailuresOnly(metric, v) ==
    IF v # Nothing /\ metric = "failures" THEN 1000 - Clamped(v) ELSE Clamped(v)

\* _invert: rates of what went wrong count the other way round.
Component(metric, v) ==
    IF v # Nothing /\ metric \in {"unsupported", "failures"} THEN 1000 - Clamped(v) ELSE Clamped(v)

\* Python's round: a tie goes to the even neighbour.
Rounded(a, b) ==
    LET down == a \div b  rest == a % b IN
    IF 2 * rest > b \/ (2 * rest = b /\ down % 2 = 1) THEN down + 1 ELSE down

\* A metric that is not available has no share in the mean.
Share(values, metric) == IF values[metric] = Nothing THEN 0 ELSE Weight[metric]
Points(values, metric) ==
    IF values[metric] = Nothing THEN 0 ELSE Weight[metric] * Component(metric, values[metric])

OverMetrics(f) == f.support + f.unsupported + f.failures + f.retrieval + f.abstention + f.tokens

Shares(values) == OverMetrics([metric \in Metrics |-> Share(values, metric)])
AllPoints(values) == OverMetrics([metric \in Metrics |-> Points(values, metric)])

\* score(): in percent.
Score(values) == IF Shares(values) = 0 THEN 0 ELSE Rounded(AllPoints(values), 10 * Shares(values))

Grade(score) ==
    IF score >= 90 THEN "A" ELSE IF score >= 75 THEN "B" ELSE IF score >= 60 THEN "C"
    ELSE IF score >= 45 THEN "D" ELSE "F"

\* _explain: the metrics among the strengths and the weaknesses, and, of the
\* weaknesses, those with the more urgent of two recommendations.
IsStrong(metric, v) ==
    CASE metric = "support" -> v >= 850
      [] metric = "unsupported" -> v <= 100
      [] metric = "failures" -> v <= 50
      [] OTHER -> v >= 750
IsUrgent(metric, v) ==
    CASE metric = "support" -> v < 600
      [] metric = "unsupported" -> v >= 300
      [] OTHER -> TRUE

Given(values) == {metric \in Metrics : values[metric] # Nothing}
Strengths(values) == {metric \in Given(values) : IsStrong(metric, Clamped(values[metric]))}
Weaknesses(values) == Given(values) \ Strengths(values)
Advice(values) ==
    IF Given(values) = {} THEN {<<"verify", TRUE>>}
    ELSE IF Weaknesses(values) = {} THEN {<<"keep monitoring", FALSE>>}
    ELSE {<<metric, IsUrgent(metric, Clamped(values[metric]))>> : metric \in Weaknesses(values)}

Reliability(values) ==
    [score |-> Score(values), grade |-> Grade(Score(values)), strengths |-> Strengths(values),
     weaknesses |-> IF Given(values) = {} THEN {"none available"} ELSE Weaknesses(values),
     advice |-> Advice(values)]

-----------------------------------------------------------------------------
(* The metrics of a trace and of a run over one.                           *)

\* The mean of f[k] for the members k of S, rounded.
Mean(f, S) == Rounded(MapThenSumSet(LAMBDA k : f[k], S), Cardinality(S))

\* _retrieval_quality: of the selected chunks that have a relevance score, or else of all.
RetrievalQuality(relevance, selected) ==
    LET scored == {k \in DOMAIN relevance : relevance[k] # Nothing}
        counted == IF scored \cap selected # {} THEN scored \cap selected ELSE scored
    IN  IF counted = {} THEN Nothing ELSE Mean(relevance, counted)

\* _token_efficiency
TokenEfficiency(total) ==
    IF total = Nothing THEN Nothing
    ELSE IF total <= 2000 THEN 1000
    ELSE IF total >= 12000 THEN 0
    ELSE Rounded(12000 - total, 10)

\* score_trace
TraceMetrics(support, unsupported, failed, abstained, retrieval, total) ==
    [support |-> support, unsupported |-> unsupported,
     failures |-> IF failed THEN 1000 ELSE 0,
     retrieval |-> retrieval,
     abstention |-> IF abstained THEN 0 ELSE Nothing,
     tokens |-> TokenEfficiency(total)]

\* EvalRunSummary.failed at the default thresholds (evaluator.py).
RunFails(support, unsupported, failures) == support < 800 \/ unsupported > 100 \/ failures > 0
=============================================================================
