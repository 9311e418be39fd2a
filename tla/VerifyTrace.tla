----------------------------- MODULE VerifyTrace -----------------------------
(***************************************************************************)
(* The verification of one trace, _verify_trace_with_profile: the stages a *)
(* trace goes through from the first verdicts on its claims to the report. *)
(* A judge (an LLM, or a local NLI model) is asked for a verdict on every  *)
(* claim and on every cited source, and may answer anything or fail.       *)
(*                                                                         *)
(* An input is a trace and what the analysis of its words finds:           *)
(*   claims, contexts   the claims and the contexts, numbered in order;    *)
(*   seen[c][k]         the match of claim c with context k;               *)
(*   pooled[c]          its match with the best spans of all contexts;     *)
(*   marks[c][k]        polar, clash, lifecycle, historic: see SourceTrust; *)
(*   source[k]          the metadata of context k;                         *)
(*   cite[c]            source, the id its citation names or None, and     *)
(*                      exact, the ids citations of its very words name;   *)
(*   relation[c]        None, or what a context's structure or scope says: *)
(*                      a verdict and the context's id;                    *)
(*   onTopic[c], onFocus[c], competing[c]   claim c has terms of the       *)
(*                      query, answers it, has another number than the     *)
(*                      query's best context;                              *)
(*   attributed[c]      the contexts the query and the claim both name;    *)
(*   query              its best match with the contexts (score, terms,    *)
(*                      best) and what it asks for: current or recommended *)
(*                      (normative) or historical facts, or a version;     *)
(*   mode, hybrid, profile   how it is verified.                           *)
(***************************************************************************)
EXTENDS SourceTrust, RootCause

CONSTANT Inputs

ASSUME InputsAssumption ==
    \A i \in Inputs :
        /\ IsFiniteSet(i.claims) /\ None \notin i.contexts /\ i.hybrid \in BOOLEAN
        /\ \A c \in i.claims : i.relation[c] = None \/
                i.relation[c].verdict \in {"supported", "contradicted"}

VARIABLES
    input,
    stage,
    verifs,     \* verifs[c]: the ClaimVerification of claim c
    asked,      \* asked[c]: a judge's verdict on claim c, None before or without
    vouched,    \* the claims of which a judge found the cited source supports them
    abstention,
    assessed,   \* assessed[c]: the source assessment and status of claim c
    report      \* failures, and causes[c]: the root cause of claim c

vars == <<input, stage, verifs, asked, vouched, abstention, assessed, report>>

Claims == input.claims
Contexts == input.contexts
Profile == input.profile
Cited(c) == input.cite[c].source
Judged == input.mode \in {"judge", "nli"}
EvidenceMode == IF Judged THEN "semantic" ELSE input.mode

JudgeAnswers == [verdict : Verdicts, missing : BOOLEAN]

\* A local NLI model has no verdict without evidence; an LLM is asked all the same.
Answers == IF input.mode = "nli" /\ Contexts = {}
           THEN {[verdict |-> "unsupported", missing |-> TRUE]} ELSE JudgeAnswers

Init ==
    /\ input \in Inputs
    /\ stage = "classify"
    /\ verifs = [c \in Claims |-> None]
    /\ asked = [c \in Claims |-> None] /\ vouched = {}
    /\ abstention = NoAbstention
    /\ assessed = [c \in Claims |-> None]
    /\ report = None

\* find_best_evidence: the first context with the highest score.
Best(c) ==
    IF Contexts = {} THEN None
    ELSE CHOOSE k \in Contexts : \A j \in Contexts :
            \/ input.seen[c][k].score > input.seen[c][j].score
            \/ input.seen[c][k].score = input.seen[c][j].score /\ k <= j

\* The facts of the claim are looked for in the best spans of all contexts.
Classify ==
    /\ stage = "classify" /\ stage' = "judge"
    /\ verifs' = [c \in Claims |->
          LET m == input.pooled[c] IN
          [verdict  |-> Verdict(m, Contexts # {}, EvidenceMode, Profile.contradictions),
           best     |-> Best(c),
           missing  |-> Missing(m), detail |-> Missing(m),
           citation |-> "claim_has_no_citation"]]
    /\ UNCHANGED <<input, asked, vouched, abstention, assessed, report>>

\* _apply_judge_verdicts: missing facts are the judge's, or those found before.
JudgeClaims ==
    /\ stage = "judge" /\ stage' = "cite"
    /\ IF Judged
       THEN \E answers \in [Claims -> Answers] :
              /\ asked' = answers
              /\ verifs' = [c \in Claims |->
                    [verifs[c] EXCEPT !.verdict = answers[c].verdict,
                                      !.missing = \/ answers[c].missing
                                                  \/ answers[c].verdict # "supported" /\ @]]
       ELSE UNCHANGED <<asked, verifs>>
    /\ UNCHANGED <<input, vouched, abstention, assessed, report>>

\* A call to a judge raises: the trace has no report.
JudgeFails ==
    /\ Judged /\ Claims # {} /\ (input.mode = "nli" => Contexts # {})
    /\ \/ stage = "judge"
       \/ stage = "cite" /\ Profile.citations /\ \E c \in Claims : Cited(c) \in Contexts
    /\ stage' = "raised"
    /\ UNCHANGED <<input, verifs, asked, vouched, abstention, assessed, report>>

\* With a judge, its word on the cited source replaces the alignment of the facts.
CiteSources ==
    /\ stage = "cite" /\ stage' = "relate"
    /\ \E agreed \in SUBSET {c \in Claims : Judged /\ Cited(c) \in Contexts} :
         LET Supports(c) ==
               IF Judged THEN c \in agreed
               ELSE Cited(c) \in Contexts
                      /\ FullySupports(input.seen[c][Cited(c)], Cited(c) = verifs[c].best) IN
         IF Profile.citations
         THEN /\ vouched' = agreed
              /\ verifs' = [c \in Claims |-> [verifs[c] EXCEPT !.citation =
                    CitationStatus(Cited(c), Contexts, verifs[c].verdict, verifs[c].best, Supports(c))]]
         ELSE UNCHANGED <<vouched, verifs>>
    /\ UNCHANGED <<input, asked, abstention, assessed, report>>

-----------------------------------------------------------------------------
\* refine_relational_verifications: only in hybrid reasoning over semantic
\* evidence.  The citation's status changes if the claim's own citation names
\* the context the relation was read in; the best context stays.
RelationOf(c) ==
    IF input.hybrid /\ EvidenceMode = "semantic" THEN input.relation[c] ELSE None

Refined(v, r, exact) ==
    [v EXCEPT !.verdict = r.verdict, !.missing = FALSE, !.detail = FALSE,
              !.citation = IF r.source \notin exact THEN @
                           ELSE IF r.verdict = "supported" THEN "citation_ok"
                           ELSE "cited_source_does_not_support_claim"]

Relate ==
    /\ stage = "relate" /\ stage' = "gaps"
    /\ verifs' = [c \in Claims |->
          IF RelationOf(c) = None THEN verifs[c]
          ELSE Refined(verifs[c], RelationOf(c), input.cite[c].exact)]
    /\ UNCHANGED <<input, asked, vouched, abstention, assessed, report>>

\* The canonical source of the matter is current, or says it is incomplete,
\* and misses the fact.
IsAuthoritativeGap(c) ==
    /\ verifs[c].missing /\ verifs[c].best # None
    /\ LET k == verifs[c].best IN
       /\ input.seen[c][k].score >= 15 /\ input.seen[c][k].terms > 0
       /\ input.source[k].canonical /\ ~input.source[k].stale
       /\ input.source[k].status \in Fresh \cup {"incomplete"}

\* A context answers the query and misses the fact.
IsRelevantGap(c) ==
    /\ verifs[c].missing
    /\ Contexts # {} /\ input.query.score >= 30 /\ input.query.terms >= 2
    /\ \/ Cited(c) = input.query.best
       \/ /\ input.onTopic[c]
          /\ \/ \A d \in Claims : verifs[d].verdict \notin {"supported", "partially_supported"}
             \/ input.onFocus[c]
    /\ ~input.competing[c]

\* _refine_context_gaps and _refine_authoritative_corpus_gaps
RefineGaps ==
    /\ stage = "gaps" /\ stage' = "abstain"
    /\ verifs' = [c \in Claims |->
          IF /\ verifs[c].verdict = "unsupported"
             /\ IsAuthoritativeGap(c) \/ (input.hybrid /\ IsRelevantGap(c))
          THEN [verifs[c] EXCEPT !.verdict = "unverifiable"] ELSE verifs[c]]
    /\ UNCHANGED <<input, asked, vouched, abstention, assessed, report>>

VerdictOf == [c \in Claims |-> verifs[c].verdict]

Abstain ==
    /\ stage = "abstain" /\ stage' = "assess"
    /\ abstention' = IF Profile.abstention
                     THEN Abstention(Claims, Contexts, VerdictOf, input.query.score)
                     ELSE NoAbstention
    /\ UNCHANGED <<input, verifs, asked, vouched, assessed, report>>

-----------------------------------------------------------------------------
\* _context_signal: each context is compared with the claim again, alone.
Signals(c) == [k \in Contexts |->
    [verdict   |-> Verdict(input.seen[c][k], TRUE, EvidenceMode, TRUE),
     polar     |-> input.marks[c][k].polar,
     clash     |-> input.marks[c][k].clash,
     lifecycle |-> input.marks[c][k].lifecycle,
     historic  |-> input.marks[c][k].historic]]

\* Of a source the query asks about, only the contexts that name it count.
Heard(c) == IF input.hybrid /\ input.attributed[c] # {} THEN input.attributed[c] ELSE Contexts

NotAssessed == [stronger |-> {}, newer |-> {}, unresolved |-> {}, status |-> "freshness_unknown"]

AssessmentOf(c) ==
    Assessment(input.source, Signals(c), verifs[c].best, Heard(c), input.hybrid)

StatusOf(c) ==
    SourceStatus(verifs[c].verdict, input.source, Signals(c), verifs[c].best,
                 AssessmentOf(c), input.query, input.hybrid)

\* The query wants what is current: hybrid reasoning adds advice to the word itself.
NeedsCurrent == input.query.current \/ (input.hybrid /\ input.query.normative)

\* _augment_abstention_with_source_status
IsUnsafe(c, status) ==
    \/ status = "grounded_but_conflicted"
    \/ status = "grounded_but_stale" /\ NeedsCurrent
    \/ status = "incomplete" /\ input.source[verifs[c].best].abstain

Assess ==
    /\ stage = "assess" /\ stage' = "conclude"
    /\ IF Profile.sources
       THEN /\ assessed' = [c \in Claims |->
                  LET a == AssessmentOf(c) IN
                  [stronger |-> a.stronger, newer |-> a.newer, unresolved |-> a.unresolved,
                   status |-> StatusOf(c)]]
            /\ abstention' = [abstention EXCEPT
                  !.abstain = @ \/ \E c \in Claims : IsUnsafe(c, StatusOf(c))]
       ELSE /\ assessed' = [c \in Claims |-> NotAssessed]
            /\ UNCHANGED abstention
    /\ UNCHANGED <<input, verifs, asked, vouched, report>>

CauseOf(c) ==
    LET b == verifs[c].best IN
    Diagnose(verifs[c].verdict, verifs[c].citation, assessed[c].status,
             verifs[c].missing \/ verifs[c].detail, assessed[c].newer # {},
             Profile.sources /\ b # None /\ input.source[b].canonical /\ ~IsStale(input.source[b]),
             abstention)

\* _has_direct_polarity_conflict of the runner
Paired == \E c \in Claims : \E k \in assessed[c].stronger : input.marks[c][k].polar = "pair"

Failures ==
    VerdictFailures(Claims, VerdictOf, [c \in Claims |-> verifs[c].citation], abstention)
      \cup SourceFailures(Claims, [c \in Claims |-> assessed[c].status], Paired)

Conclude ==
    /\ stage = "conclude" /\ stage' = "done"
    /\ report' = [failures |-> Failures,
                  causes |-> IF Profile.causes THEN [c \in Claims |-> CauseOf(c)] ELSE None]
    /\ UNCHANGED <<input, verifs, asked, vouched, abstention, assessed>>

Next == \/ Classify \/ JudgeClaims \/ JudgeFails \/ CiteSources \/ Relate \/ RefineGaps
        \/ Abstain \/ Assess \/ Conclude

Spec == Init /\ [][Next]_vars

-----------------------------------------------------------------------------
Done == stage = "done"
NoFailure == report.failures = {}

IsVerification(v) ==
    /\ v = [verdict |-> v.verdict, best |-> v.best, missing |-> v.missing,
            detail |-> v.detail, citation |-> v.citation]
    /\ v.verdict \in Verdicts /\ v.citation \in CitationStatuses

\* The stages, and what each verification is made of from the first one on.
TypeOK ==
    /\ input \in Inputs
    /\ stage \in {"classify", "judge", "cite", "relate", "gaps", "abstain", "assess",
                  "conclude", "done", "raised"}
    /\ stage # "classify" => \A c \in Claims : IsVerification(verifs[c])
    /\ abstention \in [abstain : BOOLEAN, partial : BOOLEAN]

\* Why a claim may count as supported: a relation says so, or else a judge
\* does, or else the text has it and nothing in the text is against it.
Warranted(c) ==
    IF RelationOf(c) # None THEN RelationOf(c).verdict = "supported"
    ELSE IF Judged THEN asked[c].verdict = "supported"
    ELSE LET m == input.pooled[c] IN
         /\ AllMatched(m) \/ m.score >= 62
         /\ Profile.contradictions => ~Conflicts(m)

\* Why the citation of a claim may count as sound.
CitationHolds(c) ==
    \/ Cited(c) = None
    \/ c \in vouched
    \/ ~Judged /\ FullySupports(input.seen[c][Cited(c)], Cited(c) = verifs[c].best)
    \/ RelationOf(c) # None /\ RelationOf(c).source \in input.cite[c].exact

\* No source above the claim's own contradicts it, none is newer, and in hybrid
\* reasoning none is level with it; not when the query asks for the past.
Uncontested(c) ==
    \/ ~Profile.sources \/ verifs[c].best = None
    \/ input.hybrid /\ TargetsHistorical(input.query, input.source[verifs[c].best])
    \/ assessed[c].stronger = {} /\ assessed[c].newer = {} /\ assessed[c].unresolved = {}

\* "no_failure_detected: the answer and citations are supported": a trace gets
\* that report only if every claim and every citation is warranted by what the
\* stages before found, no retrieved source contests a claim and the system had
\* no reason to abstain.
CleanBillIsEarned ==
    Done /\ NoFailure =>
        /\ \A c \in Claims :
             /\ Warranted(c)
             /\ Profile.citations => CitationHolds(c)
             /\ Uncontested(c)
        /\ ~abstention.abstain

\* The metadata of the claim's own source says that it conflicts, or that
\* without it the system must abstain; or a judge supported it with no context.
MarkedConflicting(c) == assessed[c].status = "conflicting_source"
MarkedIncomplete(c) == assessed[c].status = "incomplete" /\ verifs[c].verdict = "supported"

\* The failures of the trace and the root causes of its claims, found by two
\* functions from the same facts, agree: without failures no claim has a root
\* cause, and if the trace failed some claim has one.  Three cases aside: a
\* supported claim whose source says that it conflicts has a cause and no
\* failure; one whose source is incomplete, or that a judge supported without a
\* context, may have to be withheld and has no cause.
CausesMatchFailures ==
    Done /\ Profile.causes =>
        /\ NoFailure => \A c \in Claims :
              report.causes[c] = "no_failure_detected" \/ MarkedConflicting(c)
        /\ (\A c \in Claims : report.causes[c] = "no_failure_detected") =>
              NoFailure \/ Contexts = {} \/ \E c \in Claims : MarkedIncomplete(c)

\* Claims c and d are supported by sources of which each contradicts the other claim.
Disagree(c, d) ==
    LET a == verifs[c].best
        b == verifs[d].best IN
    /\ verifs[c].verdict = "supported" /\ verifs[d].verdict = "supported"
    /\ a \in Contexts /\ b \in Contexts /\ a # b
    /\ ClaimConflict(Signals(c)[b]) /\ ClaimConflict(Signals(d)[a])

\* Nothing lets the reasoner pass over the disagreement about claim c: the query
\* names no source and not the past, and the claim's source tells of no change.
IsPlain(c) ==
    /\ input.attributed[c] = {}
    /\ ~input.marks[c][verifs[c].best].lifecycle
    /\ ~TargetsHistorical(input.query, input.source[verifs[c].best])

\* Hybrid reasoning never keeps silent about two sources that disagree: however
\* their authority, dates and versions compare, if one gives way to the other
\* the claim it supports is reported, and if none does both are.
NoSilentDisagreement ==
    Done /\ input.hybrid /\ Profile.sources =>
        \A c, d \in Claims :
            Disagree(c, d) /\ IsPlain(c) /\ IsPlain(d) =>
                report.failures \cap {"source_conflict", "stale_source"} # {}
=============================================================================
