---------------------------- MODULE ClaimVerdict -----------------------------
(***************************************************************************)
(* What the verifier concludes of one claim and one text (verify/verdicts  *)
(* and verify/citations).  The analysis of the words is abstracted to a    *)
(* match, the record of what it found:                                     *)
(*                                                                         *)
(*   score         how much of the claim the text's best span covers, in   *)
(*                 percent;                                                *)
(*   terms         how many of the claim's terms that span has;            *)
(*   required, matched   how many facts the claim states and how many of   *)
(*                 them the text has;                                      *)
(*   conflicting   the text states another value for one of them;          *)
(*   critical      a fact that is missing is a path, version or number;    *)
(*   polarity      "none", or how the text opposes the claim: "denied",    *)
(*                 "opposed", "negation" or "numbers".                     *)
(***************************************************************************)
EXTENDS Integers, FiniteSets

CONSTANT None  \* no citation, no context, no relation

Verdicts == {"supported", "partially_supported", "unsupported", "contradicted", "unverifiable"}
Polarities == {"none", "denied", "opposed", "negation", "numbers"}
CitationStatuses == {"citation_ok", "cited_source_missing", "cited_source_does_not_support_claim",
                     "claim_supported_by_different_source", "claim_has_no_citation"}

Matches == [score : 0..100, terms : Nat, required : Nat, matched : Nat,
            conflicting : BOOLEAN, critical : BOOLEAN, polarity : Polarities]

-----------------------------------------------------------------------------
Missing(m) == m.matched < m.required
AllMatched(m) == m.required > 0 /\ ~Missing(m)

\* FactMatch.coverage >= p percent
Covers(m, p) == m.required > 0 /\ 100 * m.matched >= p * m.required

IsContradicted(m) ==
    \/ m.polarity \in {"denied", "opposed"}
    \/ m.score >= 50 /\ m.polarity \in {"negation", "numbers"}

\* A claim whose facts are all in the text is not contradicted by a word in it.
Conflicts(m) ==
    \/ m.conflicting
    \/ m.polarity = "opposed"
    \/ IsContradicted(m) /\ ~AllMatched(m)

IsPartiallySupported(m) ==
    /\ m.matched > 0 /\ Missing(m)
    /\ \/ m.required >= 3 /\ Covers(m, 30)
       \/ Covers(m, 40) /\ (m.matched >= 2 \/ Covers(m, 50))

\* classify_claim: checks is the profile's contradiction_checks.
Verdict(m, hasContexts, mode, checks) ==
    IF checks /\ hasContexts /\ Conflicts(m) THEN "contradicted"
    ELSE IF ~hasContexts THEN "unsupported"
    ELSE IF AllMatched(m) THEN "supported"
    ELSE IF IsPartiallySupported(m) \/ (m.score >= 62 /\ Missing(m)) THEN "partially_supported"
    ELSE IF m.score >= 62 /\ mode # "local_ml" THEN "supported"
    ELSE IF \/ m.score >= 62 /\ Covers(m, 40)
            \/ m.score >= 45 /\ m.terms >= 2 THEN "partially_supported"
    ELSE IF m.score < 30 THEN "unsupported" ELSE "unverifiable"

-----------------------------------------------------------------------------
(* The alignment of a citation with the claim.                             *)

IsSupportedMatch(m) == m.score >= 62 /\ ~IsContradicted(m)
IsParaphrase(m) == m.score >= 40 /\ m.terms >= 2

\* _source_fully_supports_claim: isBest, the cited source is the claim's best one.
FullySupports(m, isBest) ==
    /\ ~m.conflicting
    /\ \/ AllMatched(m) /\ m.score >= 35
       \/ m.required > 0 /\ isBest /\ ~m.critical /\ (IsSupportedMatch(m) \/ IsParaphrase(m))
       \/ m.required = 0 /\ (IsSupportedMatch(m) \/ (isBest /\ IsParaphrase(m)))

\* Mutation: a citation of a source that was not retrieved is ignored.
CitationStatusIgnoringMissing(cited, contexts, verdict, best, supports) ==
    IF cited \notin contexts THEN "claim_has_no_citation"
    ELSE IF supports THEN "citation_ok"
    ELSE IF verdict = "supported" /\ best # cited THEN "claim_supported_by_different_source"
    ELSE "cited_source_does_not_support_claim"

\* attach_citation_statuses, and _apply_judge_citation_statuses with a judge's word for supports.
CitationStatus(cited, contexts, verdict, best, supports) ==
    IF cited = None THEN "claim_has_no_citation"
    ELSE IF cited \notin contexts THEN "cited_source_missing"
    ELSE IF supports THEN "citation_ok"
    ELSE IF verdict = "supported" /\ best # cited THEN "claim_supported_by_different_source"
    ELSE "cited_source_does_not_support_claim"
=============================================================================
