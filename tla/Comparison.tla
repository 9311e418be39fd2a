----------------------------- MODULE Comparison ------------------------------
(***************************************************************************)
(* How the verification of a new answer is judged against that of a saved  *)
(* one: the comparison claim by claim (verify/compare), the audit against a *)
(* corpus (verify/audit), the risk of a trace (verify/qa) and what fails a *)
(* case of a regression suite (_case_failures in verify/suite).            *)
(*                                                                         *)
(* A result is the verification of a trace: its mode, the sequence of its  *)
(* claims, whether the system should have abstained, the warnings of the   *)
(* inspection (how many) and whether a corpus was audited.  A claim has a  *)
(* text, a verdict, a citation status, a root cause, its best context and, *)
(* for the audit, the verdict of the corpus and the rank at which the      *)
(* corpus's source was retrieved, or None.                                 *)
(***************************************************************************)
EXTENDS Integers, Sequences, FiniteSets

CONSTANT
    None,
    Similarity(_, _)  \* of two claims' texts, in percent; 100 for the same text

BadCitations == {"cited_source_missing", "cited_source_does_not_support_claim",
                 "claim_supported_by_different_source"}
NoCause == "no_failure_detected"

IsFailure(c) == c.verdict # "supported" \/ c.citation \in BadCitations \/ c.cause # NoCause

Severity(c) ==
    CASE c.verdict \in {"unsupported", "contradicted"} -> 3
      [] c.verdict \in {"partially_supported", "unverifiable"} -> 2
      [] OTHER -> 0

CitationSeverity(c) == IF c.citation \in BadCitations THEN 1 ELSE 0

-----------------------------------------------------------------------------
(* The comparison of a baseline b with a current result c.                 *)

MatchThreshold == 58

Candidates(b, c) ==
    {p \in (DOMAIN b.claims) \X (DOMAIN c.claims) :
        Similarity(b.claims[p[1]].text, c.claims[p[2]].text) >= MatchThreshold}

\* The order of the candidates: by score, then by position, the last first.
Ahead(b, c, p, q) ==
    LET S(x) == Similarity(b.claims[x[1]].text, c.claims[x[2]].text) IN
    \/ S(p) > S(q)
    \/ S(p) = S(q) /\ (p[1] > q[1] \/ (p[1] = q[1] /\ p[2] > q[2]))

\* Mutation: a claim of the baseline may be matched with several claims.
MatchClaimsManyToOne(b, c) ==
    LET Greedy[S \in SUBSET Candidates(b, c)] ==
          IF S = {} THEN {}
          ELSE LET p == CHOOSE p \in S : \A q \in S \ {p} : Ahead(b, c, p, q) IN
               {p} \cup Greedy[{q \in S : q[2] # p[2]}] IN
    Greedy[Candidates(b, c)]

\* _match_claims: the best candidate first; each claim is matched once.
MatchClaims(b, c) ==
    LET Greedy[S \in SUBSET Candidates(b, c)] ==
          IF S = {} THEN {}
          ELSE LET p == CHOOSE p \in S : \A q \in S \ {p} : Ahead(b, c, p, q) IN
               {p} \cup Greedy[{q \in S : q[1] # p[1] /\ q[2] # p[2]}] IN
    Greedy[Candidates(b, c)]

\* _matched_change, as far as a regression is concerned.
MatchedChange(b, c) ==
    CASE ~IsFailure(b) /\ IsFailure(c) -> "new_failure"
      [] IsFailure(b) /\ ~IsFailure(c) -> "resolved_failure"
      [] IsFailure(b) <=> IsFailure(c) ->
           IF Severity(c) > Severity(b) THEN "verdict_regressed"
           ELSE IF Severity(c) < Severity(b) THEN "verdict_improved"
           ELSE IF CitationSeverity(c) > CitationSeverity(b) THEN "citation_regressed"
           ELSE IF CitationSeverity(c) < CitationSeverity(b) THEN "citation_improved"
           ELSE IF c.cause = b.cause THEN "unchanged"
           ELSE IF c.cause # NoCause THEN "root_cause_regressed" ELSE "root_cause_changed"

\* The current claims that count as new failures: matched ones that got worse
\* and failures without a match.
NewFailures(b, c) ==
    LET M == MatchClaims(b, c) IN
    {k \in DOMAIN c.claims :
        \/ \E p \in M : p[2] = k /\ MatchedChange(b.claims[p[1]], c.claims[k]) \in
              {"new_failure", "verdict_regressed", "citation_regressed", "root_cause_regressed"}
        \/ (\A p \in M : p[2] # k) /\ IsFailure(c.claims[k])}

\* Rates in thousandths, rounded; an answer without claims is supported.
Rate(n, total) == (2000 * n + total) \div (2 * total)
Unsupported(r) == {k \in DOMAIN r.claims : r.claims[k].verdict # "supported"}
UnsupportedRate(r) ==
    IF r.claims = <<>> THEN 0 ELSE Rate(Cardinality(Unsupported(r)), Len(r.claims))
SupportRate(r) ==
    IF r.claims = <<>> THEN 1000
    ELSE Rate(Len(r.claims) - Cardinality(Unsupported(r)), Len(r.claims))

\* citation_mismatches of the summary: a claim without citation is one as well.
CitationMismatches(r) ==
    Cardinality({k \in DOMAIN r.claims : r.claims[k].citation # "citation_ok"})

Regression(b, c) ==
    \/ NewFailures(b, c) # {}
    \/ SupportRate(c) < SupportRate(b)
    \/ UnsupportedRate(c) > UnsupportedRate(b)
    \/ CitationMismatches(c) > CitationMismatches(b)
    \/ ~b.abstain /\ c.abstain

-----------------------------------------------------------------------------
(* The audit of a claim against the corpus: _diagnose, with its label.     *)

IsCitationOnlyFailure(c) ==
    /\ c.verdict = "supported" /\ c.citation \in BadCitations
    /\ c.cause \in {"wrong_source_cited", "missing_cited_source", NoCause}

\* RERANKING_CUTOFF: ranks count from 0.
AuditLabel(c) ==
    IF IsCitationOnlyFailure(c) \/ ~IsFailure(c) THEN NoCause
    ELSE IF \/ "contradicted" \in {c.verdict, c.corpus}
            \/ c.cause \in {"stale_context", "conflicting_contexts"} THEN "stale_source"
    ELSE IF c.corpus = "supported"
         THEN IF c.rank = None THEN "retrieval_miss"
              ELSE IF c.rank >= 3 THEN "reranking_failure" ELSE "chunking_issue"
    ELSE IF \/ c.cause = "answer_overreach"
            \/ "partially_supported" \in {c.verdict, c.corpus} THEN "answer_overreach"
    ELSE IF \/ "unverifiable" \in {c.verdict, c.corpus}
            \/ c.citation \in BadCitations /\ c.close THEN "insufficient_context"
    ELSE "corpus_gap"

AuditPoints(label) ==
    CASE label = "stale_source" -> 35   [] label = "corpus_gap" -> 30
      [] label = "retrieval_miss" -> 20 [] label = "answer_overreach" -> 18
      [] label = "chunking_issue" -> 15 [] label = "reranking_failure" -> 15
      [] label = "insufficient_context" -> 12 [] OTHER -> 0

VerdictPoints(verdict) ==
    CASE verdict = "contradicted" -> 35 [] verdict = "unsupported" -> 20
      [] verdict = "partially_supported" -> 12 [] verdict = "unverifiable" -> 10 [] OTHER -> 0

\* What one claim adds to the risk of its trace.
ClaimPoints(r, c) ==
    VerdictPoints(c.verdict) + (IF c.citation # "citation_ok" THEN 8 ELSE 0)
      + (IF r.audited THEN AuditPoints(AuditLabel(c)) ELSE 0)

\* _risk_signals: the points of a trace.
RiskScore(r) ==
    LET Sum[k \in 0..Len(r.claims)] ==
          IF k = 0 THEN 0 ELSE Sum[k - 1] + ClaimPoints(r, r.claims[k])
        Warned == IF 5 * r.warnings > 15 THEN 15 ELSE 5 * r.warnings
        Total == Sum[Len(r.claims)] + Warned + (IF r.abstain THEN 30 ELSE 0) IN
    IF Total > 100 THEN 100 ELSE Total

\* _risk_level: 0 pass, 1 low, 2 medium, 3 high
RiskLevel(r) ==
    IF RiskScore(r) >= 50 THEN 3 ELSE IF RiskScore(r) >= 20 THEN 2
    ELSE IF RiskScore(r) > 0 THEN 1 ELSE 0

\* _case_failures, with the expectations create_suite_from_trace_files saves:
\* low risk at most, no unsupported claim, no bad citation, no abstention and
\* no regression.
CaseFails(b, c) ==
    \/ RiskLevel(c) > 1
    \/ UnsupportedRate(c) > 0
    \/ \E k \in DOMAIN c.claims : c.claims[k].citation \in BadCitations
    \/ c.abstain
    \/ Regression(b, c)
=============================================================================
