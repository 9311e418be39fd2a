------------------------------ MODULE RootCause ------------------------------
(***************************************************************************)
(* The conclusions the verifier draws for a trace once every claim has a   *)
(* verdict, a citation status and a source status: whether the system      *)
(* should have abstained (verify/abstention), the failures of the trace    *)
(* (_diagnostics and its augmentation in verify/runner) and a root cause   *)
(* for each claim (verify/root_cause).  An abstention is a pair of answers, *)
(* abstain and partial_answer.                                             *)
(***************************************************************************)
EXTENDS Integers, FiniteSets

NoAbstention == [abstain |-> FALSE, partial |-> FALSE]

\* judge_abstention; v[c] is the verdict of claim c.
Abstention(claims, contexts, v, queryScore) ==
    LET Supported == {c \in claims : v[c] = "supported"}
        UnsupportedLike == {c \in claims : v[c] \in {"unsupported", "contradicted", "unverifiable"}}
        Contradicted == {c \in claims : v[c] = "contradicted"} IN
    IF claims = {} THEN NoAbstention
    ELSE IF contexts = {} THEN [abstain |-> TRUE, partial |-> FALSE]
    ELSE IF Supported # {} /\ UnsupportedLike # {} /\ Contradicted = {}
         THEN [abstain |-> FALSE, partial |-> TRUE]
    ELSE [abstain |-> \/ Supported = {} /\ queryScore < 18
                      \/ 2 * Cardinality(UnsupportedLike) >= Cardinality(claims),
          partial |-> FALSE]

\* _diagnostics: t[c] is the status of c's citation.
VerdictFailures(claims, v, t, a) ==
    LET Some(verdict) == \E c \in claims : v[c] = verdict IN
    {f \in {"should_have_abstained", "contradicted_answer", "unsupported_answer",
            "partial_support", "insufficient_context", "citation_mismatch"} :
        \/ f = "should_have_abstained" /\ a.abstain
        \/ f = "contradicted_answer" /\ Some("contradicted")
        \/ f = "unsupported_answer" /\ Some("unsupported") /\ ~a.partial
        \/ f = "partial_support" /\ (a.partial \/ Some("partially_supported"))
        \/ f = "insufficient_context" /\ Some("unverifiable") /\ ~a.partial
        \/ f = "citation_mismatch" /\
             \E c \in claims : t[c] \notin {"citation_ok", "claim_has_no_citation"}}

\* _augment_diagnostics_with_source_status: s[c] is the status of c's source,
\* paired says that a stronger source and a claim use opposed words.
SourceFailures(claims, s, paired) ==
    LET Some(status) == \E c \in claims : s[c] = status IN
    {f \in {"source_conflict", "contradicted_answer", "stale_source", "low_authority_source"} :
        \/ f = "source_conflict" /\ Some("grounded_but_conflicted")
        \/ f = "contradicted_answer" /\ Some("grounded_but_conflicted") /\ paired
        \/ f = "stale_source" /\ Some("grounded_but_stale")
        \/ f = "low_authority_source" /\ Some("grounded_by_low_authority_source")}

\* detail: a missing fact is named; newer: a newer source was retrieved;
\* canonical: the best source is canonical and not stale.
CauseOfVerdict(verdict, detail, newer, canonical, a) ==
    CASE verdict = "contradicted" -> IF newer THEN "stale_context" ELSE "conflicting_contexts"
      [] verdict = "unsupported" -> IF a.partial THEN "answer_overreach"
                                    ELSE IF a.abstain THEN "should_have_abstained"
                                    ELSE "retrieval_miss"
      [] verdict = "partially_supported" -> IF detail THEN "answer_overreach"
                                            ELSE "partial_context_support"
      [] verdict = "unverifiable" -> IF a.partial THEN "answer_overreach"
                                     ELSE IF canonical /\ a.abstain THEN "corpus_gap"
                                     ELSE "insufficient_context"
      [] OTHER -> "no_failure_detected"

\* Mutation: a supported claim has no cause, whatever its citation.
DiagnoseByVerdict(verdict, citation, source, detail, newer, canonical, a) ==
    IF source \in {"grounded_but_conflicted", "conflicting_source"} THEN "conflicting_contexts"
    ELSE IF source \in {"grounded_but_stale", "stale_source", "stale_or_version_conflicted"}
         THEN "stale_context"
    ELSE IF verdict = "supported" /\ source = "grounded_by_low_authority_source"
         THEN "low_authority_source"
    ELSE IF citation = "claim_supported_by_different_source" THEN "wrong_source_cited"
    ELSE IF citation = "cited_source_missing" THEN "missing_cited_source"
    ELSE CauseOfVerdict(verdict, detail, newer, canonical, a)

\* diagnose_claim
Diagnose(verdict, citation, source, detail, newer, canonical, a) ==
    IF source \in {"grounded_but_conflicted", "conflicting_source"} THEN "conflicting_contexts"
    ELSE IF source \in {"grounded_but_stale", "stale_source", "stale_or_version_conflicted"}
         THEN "stale_context"
    ELSE IF verdict = "supported" /\ source = "grounded_by_low_authority_source"
         THEN "low_authority_source"
    ELSE IF citation = "claim_supported_by_different_source" THEN "wrong_source_cited"
    ELSE IF citation = "cited_source_missing" THEN "missing_cited_source"
    ELSE IF verdict = "supported" /\ citation = "cited_source_does_not_support_claim"
         THEN "wrong_source_cited"
    ELSE CauseOfVerdict(verdict, detail, newer, canonical, a)
=============================================================================
