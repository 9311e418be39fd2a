---------------------------- MODULE VerifyProofs -----------------------------
(***************************************************************************)
(* Proofs about VerifyTrace, for every set of inputs: whatever the words   *)
(* of a trace are found to say and whatever a judge answers.  First what   *)
(* the pure operators promise, then the invariant that carries what each   *)
(* stage established to the report.                                        *)
(***************************************************************************)
EXTENDS MCVerify, TLAPS, FiniteSetTheorems

(* A set of failures without any says something of every claim.            *)
LEMMA NoVerdictFailure ==
    ASSUME NEW C, NEW v, NEW t, NEW a,
           \A c \in C : v[c] \in Verdicts,
           VerdictFailures(C, v, t, a) = {}
    PROVE  /\ \A c \in C : v[c] = "supported" /\ t[c] \in {"citation_ok", "claim_has_no_citation"}
           /\ ~a.abstain
<1>1. ~a.abstain /\ ~a.partial
  <2>1. "should_have_abstained" \notin VerdictFailures(C, v, t, a) BY Zenon
  <2>2. "partial_support" \notin VerdictFailures(C, v, t, a) BY Zenon
  <2> QED BY <2>1, <2>2 DEF VerdictFailures
<1>2. ASSUME NEW c \in C PROVE v[c] = "supported"
  <2>1. "contradicted_answer" \notin VerdictFailures(C, v, t, a) BY Zenon
  <2>2. "unsupported_answer" \notin VerdictFailures(C, v, t, a) BY Zenon
  <2>3. "partial_support" \notin VerdictFailures(C, v, t, a) BY Zenon
  <2>4. "insufficient_context" \notin VerdictFailures(C, v, t, a) BY Zenon
  <2>5. v[c] # "contradicted" BY <2>1 DEF VerdictFailures
  <2>6. v[c] # "unsupported" BY <1>1, <2>2 DEF VerdictFailures
  <2>7. v[c] # "partially_supported" BY <2>3 DEF VerdictFailures
  <2>8. v[c] # "unverifiable" BY <1>1, <2>4 DEF VerdictFailures
  <2> QED BY <2>5, <2>6, <2>7, <2>8 DEF Verdicts
<1>3. ASSUME NEW c \in C PROVE t[c] \in {"citation_ok", "claim_has_no_citation"}
  <2>1. "citation_mismatch" \notin VerdictFailures(C, v, t, a) BY Zenon
  <2> QED BY <2>1 DEF VerdictFailures
<1> QED BY <1>1, <1>2, <1>3

(* If every claim is supported and well cited and nothing speaks for        *)
(* abstention, no verdict is a failure.                                     *)
LEMMA AllSupported ==
    ASSUME NEW C, NEW v, NEW t, NEW a,
           \A c \in C : v[c] = "supported" /\ t[c] \in {"citation_ok", "claim_has_no_citation"},
           ~a.abstain, ~a.partial
    PROVE  VerdictFailures(C, v, t, a) = {}
BY DEF VerdictFailures

LEMMA NoSourceFailure ==
    ASSUME NEW C, NEW s, NEW paired, SourceFailures(C, s, paired) = {}, NEW c \in C
    PROVE  s[c] \notin {"grounded_but_conflicted", "grounded_but_stale",
                        "grounded_by_low_authority_source"}
<1>1. "source_conflict" \notin SourceFailures(C, s, paired) BY Zenon
<1>2. "stale_source" \notin SourceFailures(C, s, paired) BY Zenon
<1>3. "low_authority_source" \notin SourceFailures(C, s, paired) BY Zenon
<1> QED BY <1>1, <1>2, <1>3 DEF SourceFailures

LEMMA SoundSources ==
    ASSUME NEW C, NEW s, NEW paired,
           \A c \in C : s[c] \notin {"grounded_but_conflicted", "grounded_but_stale",
                                     "grounded_by_low_authority_source"}
    PROVE  SourceFailures(C, s, paired) = {}
BY DEF SourceFailures

-----------------------------------------------------------------------------
(* A claim that has no root cause is supported and its citation is sound.  *)
LEMMA NoCause ==
    ASSUME NEW v \in Verdicts, NEW t \in CitationStatuses, NEW s, NEW d, NEW n, NEW k, NEW a,
           Diagnose(v, t, s, d, n, k, a) = "no_failure_detected"
    PROVE  /\ v = "supported"
           /\ t \in {"citation_ok", "claim_has_no_citation"}
           /\ s \notin {"grounded_but_conflicted", "grounded_but_stale",
                        "grounded_by_low_authority_source"}
<1>1. v = "supported"
  <2>1. CASE v = "contradicted" BY <2>1 DEF Diagnose, CauseOfVerdict
  <2>2. CASE v = "unsupported" BY <2>2 DEF Diagnose, CauseOfVerdict
  <2>3. CASE v = "partially_supported" BY <2>3 DEF Diagnose, CauseOfVerdict
  <2>4. CASE v = "unverifiable" BY <2>4 DEF Diagnose, CauseOfVerdict
  <2> QED BY <2>1, <2>2, <2>3, <2>4 DEF Verdicts
<1> QED BY <1>1 DEF Diagnose, CitationStatuses

(* And the other way round, unless its source is marked.                   *)
LEMMA Causeless ==
    ASSUME NEW t \in {"citation_ok", "claim_has_no_citation"}, NEW d, NEW n, NEW k, NEW a,
           NEW s, s \notin {"grounded_but_conflicted", "conflicting_source", "grounded_but_stale",
                            "stale_source", "stale_or_version_conflicted",
                            "grounded_by_low_authority_source"}
    PROVE  Diagnose("supported", t, s, d, n, k, a) = "no_failure_detected"
BY DEF Diagnose, CauseOfVerdict

(* The status of a supported claim's source is never one of those that only *)
(* other claims get, and it is sound only if no other source contests it.   *)
LEMMA SupportedStatus ==
    ASSUME NEW src, NEW sig, NEW b, NEW heard, NEW query, NEW hybrid \in BOOLEAN,
           NEW a, a = Assessment(src, sig, b, heard, hybrid),
           NEW s, s = SourceStatus("supported", src, sig, b, a, query, hybrid)
    PROVE  /\ s \notin {"stale_source", "stale_or_version_conflicted"}
           /\ s \notin {"grounded_but_conflicted", "grounded_but_stale"} =>
                \/ b = None
                \/ hybrid /\ TargetsHistorical(query, src[b])
                \/ a.stronger = {} /\ a.newer = {} /\ a.unresolved = {}
<1>1. CASE b = None BY <1>1 DEF SourceStatus
<1>2. CASE b # None
  <2>1. s = StatusOfSupported(src[b], sig, a, query, hybrid) BY <1>2 DEF SourceStatus
  <2>2. UncontestedStatus(src[b]) \notin {"stale_source", "stale_or_version_conflicted"}
    BY DEF UncontestedStatus, IsStale, StaleWords
  <2> QED BY <1>2, <2>1, <2>2 DEF StatusOfSupported
<1> QED BY <1>1, <1>2

(* Of two sources that contradict each other's claim, the one that is not   *)
(* reported as contested by the other is above it, and then the other is    *)
(* contested by a stronger one: the two comparisons leave no gap.           *)
LEMMA WeakerMeansStronger ==
    ASSUME NEW src, NEW sig1, NEW sig2, NEW a, NEW b, a # b,
           NEW heard, a \in heard, b \in heard,
           a \in DOMAIN sig1, b \in DOMAIN sig1, a \in DOMAIN sig2, b \in DOMAIN sig2,
           a # None, b # None,
           ClaimConflict(sig1[b]), ClaimConflict(sig2[a]),
           ~sig1[a].lifecycle, ~sig2[b].lifecycle
    PROVE  \/ b \in Unresolved(src, sig1, a, heard)
           \/ a \in Stronger(src, sig2, b, heard, TRUE)
<1>1. b \in Conflicting(src, sig1, a, TRUE) BY DEF Conflicting
<1>2. a \in Conflicting(src, sig2, b, TRUE) BY DEF Conflicting
<1>3. CASE ~Weaker(src, sig1, a, b) BY <1>1, <1>3 DEF Unresolved
<1>4. CASE Weaker(src, sig1, a, b)
  <2>1. Related(src, sig2, b, a, TRUE) BY DEF Related
  <2>2. Outranks(src, a, b) \/ Later(src, a, b) BY <1>4 DEF Weaker, KnownLater, Later
  <2> QED BY <1>2, <2>1, <2>2 DEF Stronger
<1> QED BY <1>3, <1>4

-----------------------------------------------------------------------------
(* What a stage leaves to the next ones.                                   *)

\* What warrants a claim, and its citation, before relations are read.
WarrantedAtFirst(c) ==
    IF Judged THEN asked[c].verdict = "supported"
    ELSE /\ AllMatched(input.pooled[c]) \/ input.pooled[c].score >= 62
         /\ Profile.contradictions => ~Conflicts(input.pooled[c])

CitedAtFirst(c) ==
    \/ Cited(c) = None
    \/ c \in vouched
    \/ ~Judged /\ FullySupports(input.seen[c][Cited(c)], Cited(c) = verifs[c].best)

IsSupported(c) == verifs[c].verdict = "supported"
IsWellCited(c) == verifs[c].citation \in {"citation_ok", "claim_has_no_citation"}

FirstVerdicts ==
    stage \in {"judge", "cite", "relate"} /\ (stage = "judge" => ~Judged) =>
        \A c \in Claims : IsSupported(c) => WarrantedAtFirst(c)

FirstCitations ==
    stage = "relate" /\ Profile.citations => \A c \in Claims : IsWellCited(c) => CitedAtFirst(c)

LastVerdicts ==
    stage \in {"gaps", "abstain", "assess", "conclude", "done"} =>
        \A c \in Claims :
            /\ IsSupported(c) => Warranted(c)
            /\ Profile.citations /\ IsWellCited(c) => CitationHolds(c)

\* Nobody is told to abstain from an answer without a claim that gives a reason.
Abstains ==
    stage \in {"assess", "conclude", "done"} =>
        /\ abstention.partial => \E c \in Claims : ~IsSupported(c)
        /\ abstention.abstain =>
              \/ Contexts = {}
              \/ \E c \in Claims : ~IsSupported(c)
              \/ stage # "assess" /\ Profile.sources
                   /\ \E c \in Claims : IsUnsafe(c, StatusOf(c))

Assessed ==
    stage \in {"conclude", "done"} =>
        assessed = IF Profile.sources
                   THEN [c \in Claims |-> [stronger   |-> AssessmentOf(c).stronger,
                                           newer      |-> AssessmentOf(c).newer,
                                           unresolved |-> AssessmentOf(c).unresolved,
                                           status     |-> StatusOf(c)]]
                   ELSE [c \in Claims |-> NotAssessed]

Reported ==
    Done => report = [failures |-> Failures,
                      causes |-> IF Profile.causes THEN [c \in Claims |-> CauseOf(c)] ELSE None]

Inv == TypeOK /\ FirstVerdicts /\ FirstCitations /\ LastVerdicts /\ Abstains /\ Assessed /\ Reported

-----------------------------------------------------------------------------
LEMMA VerdictType ==
    ASSUME NEW m, NEW h, NEW mode, NEW checks PROVE Verdict(m, h, mode, checks) \in Verdicts
BY DEF Verdict, Verdicts

LEMMA StatusType ==
    ASSUME NEW k, NEW C, NEW v, NEW b, NEW y PROVE CitationStatus(k, C, v, b, y) \in CitationStatuses
BY DEF CitationStatus, CitationStatuses

LEMMA AbstentionType ==
    ASSUME NEW C, NEW K, NEW v, NEW n
    PROVE  Abstention(C, K, v, n) \in [abstain : BOOLEAN, partial : BOOLEAN]
BY DEF Abstention, NoAbstention

(* An answer all claims of which are supported by some context is given.   *)
LEMMA SupportedIsAnswered ==
    ASSUME NEW C, IsFiniteSet(C), NEW K, K # {}, NEW v, NEW n,
           \A c \in C : v[c] = "supported"
    PROVE  Abstention(C, K, v, n) = NoAbstention
<1> DEFINE Bad == {c \in C : v[c] \in {"unsupported", "contradicted", "unverifiable"}}
<1>1. CASE C = {} BY <1>1 DEF Abstention
<1>2. CASE C # {}
  <2>1. Bad = {} OBVIOUS
  <2>2. Cardinality(Bad) = 0 BY <2>1, FS_EmptySet
  <2>3. Cardinality(C) \in Nat /\ Cardinality(C) # 0 BY <1>2, FS_CardinalityType, FS_EmptySet
  <2>4. ~(2 * Cardinality(Bad) >= Cardinality(C)) BY <2>2, <2>3
  <2>5. {c \in C : v[c] = "supported"} # {} BY <1>2
  <2> QED BY <1>2, <2>1, <2>4, <2>5 DEF Abstention, NoAbstention
<1> QED BY <1>1, <1>2

(* A partial answer has a claim that is not supported.                     *)
LEMMA PartialHasGap ==
    ASSUME NEW C, NEW K, NEW v, NEW n, Abstention(C, K, v, n).partial
    PROVE  \E c \in C : v[c] # "supported"
BY DEF Abstention, NoAbstention

(* A claim counts as supported by a text only if the text has it.          *)
LEMMA SupportedByText ==
    ASSUME NEW m, NEW h, NEW mode, NEW checks, Verdict(m, h, mode, checks) = "supported"
    PROVE  /\ AllMatched(m) \/ m.score >= 62
           /\ checks => ~Conflicts(m)
BY DEF Verdict

-----------------------------------------------------------------------------
(* The invariant.                                                          *)

LEMMA InvInit == Init => Inv
<1> SUFFICES ASSUME Init PROVE Inv OBVIOUS
<1>1. TypeOK BY DEF Init, TypeOK, NoAbstention
<1> QED BY <1>1 DEF Init, Inv, FirstVerdicts, FirstCitations, LastVerdicts, Abstains, Assessed,
        Reported, Done

LEMMA InvClassify == Inv /\ Classify => Inv'
<1> SUFFICES ASSUME Inv, Classify PROVE Inv' OBVIOUS
<1> DEFINE W(c) == Verdict(input.pooled[c], Contexts # {}, EvidenceMode, Profile.contradictions)
<1>1. stage' = "judge" /\ input' = input /\ abstention' = abstention BY DEF Classify
<1>2. ASSUME NEW c \in Claims PROVE /\ IsVerification(verifs'[c]) /\ verifs'[c].verdict = W(c)
  <2>1. verifs'[c] = [verdict |-> W(c), best |-> Best(c), missing |-> Missing(input.pooled[c]),
                      detail |-> Missing(input.pooled[c]), citation |-> "claim_has_no_citation"]
    BY DEF Classify
  <2>2. W(c) \in Verdicts BY VerdictType
  <2> QED BY <2>1, <2>2 DEF IsVerification, CitationStatuses
<1>3. TypeOK' BY <1>1, <1>2 DEF Inv, TypeOK, Claims
<1>4. FirstVerdicts'
  <2>1. ASSUME NEW c \in Claims, W(c) = "supported", ~Judged PROVE WarrantedAtFirst(c)
    BY <2>1, SupportedByText DEF WarrantedAtFirst
  <2>2. ASSUME NEW c \in Claims PROVE WarrantedAtFirst(c)' <=> (~Judged => WarrantedAtFirst(c)) /\ (Judged => WarrantedAtFirst(c)')
    BY <1>1 DEF WarrantedAtFirst, Judged, Profile
  <2> QED BY <1>1, <1>2, <2>1, <2>2 DEF FirstVerdicts, IsSupported, Claims, Judged
<1> QED BY <1>1, <1>3, <1>4 DEF Inv, FirstCitations, LastVerdicts, Abstains, Assessed, Reported, Done

LEMMA InvJudgeClaims == Inv /\ JudgeClaims => Inv'
<1> SUFFICES ASSUME Inv, JudgeClaims PROVE Inv' OBVIOUS
<1>1. stage = "judge" /\ stage' = "cite" /\ input' = input /\ abstention' = abstention
  BY DEF JudgeClaims
<1>2. \A c \in Claims : IsVerification(verifs[c]) BY <1>1 DEF Inv, TypeOK
<1>3. CASE Judged
  <2>1. PICK said \in [Claims -> Answers] :
           /\ asked' = said
           /\ verifs' = [c \in Claims |->
                 [verifs[c] EXCEPT !.verdict = said[c].verdict,
                                   !.missing = \/ said[c].missing
                                               \/ said[c].verdict # "supported" /\ @]]
    BY <1>3 DEF JudgeClaims
  <2>2. ASSUME NEW c \in Claims
        PROVE  IsVerification(verifs'[c]) /\ verifs'[c].verdict = asked'[c].verdict
    <3>1. said[c].verdict \in Verdicts
      <4>1. said[c] \in Answers OBVIOUS
      <4> QED BY <4>1 DEF Answers, JudgeAnswers, Verdicts
    <3> DEFINE miss == said[c].missing \/ (said[c].verdict # "supported" /\ verifs[c].missing)
    <3>2. verifs'[c] = [verifs[c] EXCEPT !.verdict = said[c].verdict, !.missing = miss]
      BY <2>1 DEF IsVerification
    <3> HIDE DEF miss
    <3> QED BY <1>2, <2>1, <3>1, <3>2 DEF IsVerification
  <2>3. TypeOK' BY <1>1, <2>2 DEF Inv, TypeOK, Claims
  <2>4. FirstVerdicts' BY <1>1, <1>3, <2>2 DEF FirstVerdicts, IsSupported, WarrantedAtFirst, Claims, Judged
  <2> QED BY <1>1, <2>3, <2>4 DEF Inv, FirstCitations, LastVerdicts, Abstains, Assessed, Reported, Done
<1>4. CASE ~Judged
  <2>1. asked' = asked /\ verifs' = verifs BY <1>4 DEF JudgeClaims
  <2>2. TypeOK' BY <1>1, <1>2, <2>1 DEF Inv, TypeOK, Claims
  <2>3. FirstVerdicts'
    BY <1>1, <1>4, <2>1 DEF Inv, FirstVerdicts, IsSupported, WarrantedAtFirst, Claims, Judged, Profile
  <2> QED BY <1>1, <2>2, <2>3 DEF Inv, FirstCitations, LastVerdicts, Abstains, Assessed, Reported, Done
<1> QED BY <1>3, <1>4

LEMMA InvJudgeFails == Inv /\ JudgeFails => Inv'
<1> SUFFICES ASSUME Inv, JudgeFails PROVE Inv' OBVIOUS
<1>1. stage \in {"judge", "cite"} /\ stage' = "raised" BY DEF JudgeFails
<1>2. TypeOK' BY <1>1 DEF Inv, TypeOK, JudgeFails, Claims
<1> QED BY <1>1, <1>2 DEF Inv, FirstVerdicts, FirstCitations, LastVerdicts, Abstains, Assessed, Reported, Done

LEMMA InvCiteSources == Inv /\ CiteSources => Inv'
<1> SUFFICES ASSUME Inv, CiteSources PROVE Inv' OBVIOUS
<1>1. /\ stage = "cite" /\ stage' = "relate" /\ input' = input /\ asked' = asked
      /\ abstention' = abstention
  BY DEF CiteSources
<1>2. \A c \in Claims : IsVerification(verifs[c]) BY <1>1 DEF Inv, TypeOK
<1>3. PICK agreed \in SUBSET {c \in Claims : Judged /\ Cited(c) \in Contexts} :
        LET Supports(c) ==
              IF Judged THEN c \in agreed
              ELSE Cited(c) \in Contexts
                     /\ FullySupports(input.seen[c][Cited(c)], Cited(c) = verifs[c].best) IN
        IF Profile.citations
        THEN /\ vouched' = agreed
             /\ verifs' = [c \in Claims |-> [verifs[c] EXCEPT !.citation =
                   CitationStatus(Cited(c), Contexts, verifs[c].verdict, verifs[c].best, Supports(c))]]
        ELSE UNCHANGED <<vouched, verifs>>
  BY DEF CiteSources
<1> DEFINE Supports(c) ==
              IF Judged THEN c \in agreed
              ELSE Cited(c) \in Contexts
                     /\ FullySupports(input.seen[c][Cited(c)], Cited(c) = verifs[c].best)
           T(c) == CitationStatus(Cited(c), Contexts, verifs[c].verdict, verifs[c].best, Supports(c))
<1>4. ASSUME NEW c \in Claims
      PROVE  /\ IsVerification(verifs'[c])
             /\ verifs'[c].verdict = verifs[c].verdict /\ verifs'[c].best = verifs[c].best
             /\ Profile.citations => verifs'[c].citation = T(c)
  <2>1. T(c) \in CitationStatuses BY StatusType
  <2>2. CASE Profile.citations
    <3>1. verifs'[c] = [verifs[c] EXCEPT !.citation = T(c)] BY <1>3, <2>2
    <3> QED BY <1>2, <2>1, <3>1 DEF IsVerification
  <2>3. CASE ~Profile.citations BY <1>2, <1>3, <2>3
  <2> QED BY <2>2, <2>3
<1>5. TypeOK' BY <1>1, <1>4 DEF Inv, TypeOK, Claims
<1>6. FirstVerdicts'
  BY <1>1, <1>4 DEF Inv, FirstVerdicts, IsSupported, WarrantedAtFirst, Claims, Judged, Profile
<1>7. FirstCitations'
  <2>1. ASSUME NEW c \in Claims, Profile.citations, IsWellCited(c)' PROVE CitedAtFirst(c)'
    <3>1. T(c) \in {"citation_ok", "claim_has_no_citation"} BY <1>4, <2>1 DEF IsWellCited
    <3>2. Cited(c) = None \/ Supports(c) BY <3>1 DEF CitationStatus
    <3>3. vouched' = agreed BY <1>3, <2>1
    <3> QED BY <1>1, <1>4, <3>2, <3>3 DEF CitedAtFirst, Cited, Judged
  <2> QED BY <1>1, <2>1 DEF FirstCitations, Claims, Profile
<1> QED BY <1>1, <1>5, <1>6, <1>7 DEF Inv, LastVerdicts, Abstains, Assessed, Reported, Done

LEMMA InvRelate == Inv /\ Relate => Inv'
<1> SUFFICES ASSUME Inv, Relate PROVE Inv' OBVIOUS
<1>1. /\ stage = "relate" /\ stage' = "gaps" /\ input' = input /\ asked' = asked
      /\ vouched' = vouched /\ abstention' = abstention
  BY DEF Relate
<1>2. \A c \in Claims : IsVerification(verifs[c]) BY <1>1 DEF Inv, TypeOK
<1>3. ASSUME NEW c \in Claims, RelationOf(c) # None
      PROVE  LET r == RelationOf(c)
                 exact == input.cite[c].exact IN
             /\ IsVerification(verifs'[c])
             /\ verifs'[c].verdict = r.verdict /\ verifs'[c].best = verifs[c].best
             /\ r.source \in exact \/ verifs'[c].citation = verifs[c].citation
  <2> DEFINE r == RelationOf(c)
             exact == input.cite[c].exact
  <2>1. verifs'[c] = Refined(verifs[c], r, exact) BY <1>3 DEF Relate
  <2>2. r.verdict \in {"supported", "contradicted"}
    <3>1. input \in Inputs /\ c \in input.claims BY DEF Inv, TypeOK, Claims
    <3>2. r = input.relation[c] BY <1>3 DEF RelationOf
    <3> QED BY <1>3, <3>1, <3>2, InputsAssumption
  <2>3. IsVerification(verifs[c]) BY <1>2
  <2> HIDE DEF r, exact
  <2>4. /\ IsVerification(verifs'[c])
        /\ verifs'[c].verdict = r.verdict /\ verifs'[c].best = verifs[c].best
        /\ r.source \in exact \/ verifs'[c].citation = verifs[c].citation
    BY <2>1, <2>2, <2>3 DEF IsVerification, Refined, Verdicts, CitationStatuses
  <2> QED BY <2>4 DEF r, exact
<1>4. ASSUME NEW c \in Claims, RelationOf(c) = None PROVE verifs'[c] = verifs[c]
  BY <1>4 DEF Relate
<1>5. TypeOK' BY <1>1, <1>2, <1>3, <1>4 DEF Inv, TypeOK, Claims
<1>6. LastVerdicts'
  <2>1. ASSUME NEW c \in Claims
        PROVE  /\ RelationOf(c)' = RelationOf(c) /\ Cited(c)' = Cited(c)
               /\ WarrantedAtFirst(c)' <=> WarrantedAtFirst(c)
               /\ Judged' <=> Judged
    BY <1>1 DEF RelationOf, EvidenceMode, Judged, Cited, WarrantedAtFirst, Profile
  <2>2. ASSUME NEW c \in Claims, IsSupported(c)' PROVE Warranted(c)'
    <3>1. CASE RelationOf(c) # None
      BY <1>1, <1>3, <2>1, <2>2, <3>1 DEF IsSupported, Warranted
    <3>2. CASE RelationOf(c) = None
      <4>1. WarrantedAtFirst(c) BY <1>1, <1>4, <2>2, <3>2 DEF IsSupported, Inv, FirstVerdicts
      <4> QED BY <1>1, <2>1, <3>2, <4>1 DEF Warranted, WarrantedAtFirst
    <3> QED BY <3>1, <3>2
  <2>3. ASSUME NEW c \in Claims, Profile.citations, IsWellCited(c)' PROVE CitationHolds(c)'
    <3>1. CASE RelationOf(c) # None /\ RelationOf(c).source \in input.cite[c].exact
      BY <1>1, <2>1, <3>1 DEF CitationHolds
    <3>2. CASE RelationOf(c) = None \/ RelationOf(c).source \notin input.cite[c].exact
      <4>1. verifs'[c].citation = verifs[c].citation /\ verifs'[c].best = verifs[c].best
        BY <1>3, <1>4, <3>2
      <4>2. CitedAtFirst(c) BY <1>1, <2>3, <4>1 DEF Inv, FirstCitations, IsWellCited
      <4> QED BY <1>1, <2>1, <4>1, <4>2 DEF CitedAtFirst, CitationHolds
    <3> QED BY <3>1, <3>2
  <2> QED BY <1>1, <2>2, <2>3 DEF LastVerdicts, Claims, Profile
<1> QED BY <1>1, <1>5, <1>6 DEF Inv, FirstVerdicts, FirstCitations, Abstains, Assessed, Reported, Done

(* What the claims and the analysis found does not change any more.        *)
LEMMA SameGrounds ==
    ASSUME input' = input, asked' = asked, vouched' = vouched, NEW c \in Claims,
           verifs'[c].best = verifs[c].best
    PROVE  /\ Warranted(c)' <=> Warranted(c)
           /\ CitationHolds(c)' <=> CitationHolds(c)
BY DEF Warranted, CitationHolds, RelationOf, EvidenceMode, Judged, Profile, Cited

LEMMA InvRefineGaps == Inv /\ RefineGaps => Inv'
<1> SUFFICES ASSUME Inv, RefineGaps PROVE Inv' OBVIOUS
<1>1. /\ stage = "gaps" /\ stage' = "abstain" /\ input' = input /\ asked' = asked
      /\ vouched' = vouched /\ abstention' = abstention
  BY DEF RefineGaps
<1>2. \A c \in Claims : IsVerification(verifs[c]) BY <1>1 DEF Inv, TypeOK
<1>3. ASSUME NEW c \in Claims
      PROVE  /\ IsVerification(verifs'[c])
             /\ IsSupported(c)' => IsSupported(c)
             /\ verifs'[c].best = verifs[c].best /\ verifs'[c].citation = verifs[c].citation
  <2>1. verifs'[c] = [verifs[c] EXCEPT !.verdict = "unverifiable"] \/ verifs'[c] = verifs[c]
    BY DEF RefineGaps
  <2> QED BY <1>2, <2>1 DEF IsVerification, IsSupported, Verdicts
<1>4. TypeOK' BY <1>1, <1>3 DEF Inv, TypeOK, Claims
<1>5. LastVerdicts'
  <2>1. ASSUME NEW c \in Claims
        PROVE  /\ IsSupported(c)' => Warranted(c)'
               /\ Profile.citations /\ IsWellCited(c)' => CitationHolds(c)'
    <3>1. /\ Warranted(c)' <=> Warranted(c)
          /\ CitationHolds(c)' <=> CitationHolds(c)
      BY <1>1, <1>3, SameGrounds
    <3> QED BY <1>1, <1>3, <3>1 DEF Inv, LastVerdicts, IsWellCited
  <2> QED BY <1>1, <2>1 DEF LastVerdicts, Claims, Profile
<1> QED BY <1>1, <1>4, <1>5 DEF Inv, FirstVerdicts, FirstCitations, Abstains, Assessed, Reported, Done

(* The last three stages change no verification.                           *)
LEMMA VerdictsStay ==
    ASSUME Inv, UNCHANGED <<input, verifs, asked, vouched>>,
           stage \in {"abstain", "assess", "conclude"},
           stage' \in {"assess", "conclude", "done"},
           abstention' \in [abstain : BOOLEAN, partial : BOOLEAN]
    PROVE  TypeOK' /\ FirstVerdicts' /\ FirstCitations' /\ LastVerdicts'
<1>1. TypeOK' BY DEF Inv, TypeOK, Claims
<1>2. LastVerdicts'
  <2>1. ASSUME NEW c \in Claims
        PROVE  /\ IsSupported(c)' => Warranted(c)'
               /\ Profile.citations /\ IsWellCited(c)' => CitationHolds(c)'
    <3>1. /\ Warranted(c)' <=> Warranted(c)
          /\ CitationHolds(c)' <=> CitationHolds(c)
      BY SameGrounds
    <3> QED BY <3>1 DEF Inv, LastVerdicts, IsWellCited, IsSupported
  <2> QED BY <2>1 DEF LastVerdicts, Claims, Profile
<1> QED BY <1>1, <1>2 DEF FirstVerdicts, FirstCitations

LEMMA InvAbstain == Inv /\ Abstain => Inv'
<1> SUFFICES ASSUME Inv, Abstain PROVE Inv' OBVIOUS
<1>1. stage = "abstain" /\ stage' = "assess" /\ UNCHANGED <<input, verifs, asked, vouched>>
  BY DEF Abstain
<1> DEFINE A == Abstention(Claims, Contexts, VerdictOf, input.query.score)
<1>2. abstention' = A \/ abstention' = NoAbstention BY DEF Abstain
<1>3. abstention' \in [abstain : BOOLEAN, partial : BOOLEAN]
  <2>1. A \in [abstain : BOOLEAN, partial : BOOLEAN] BY AbstentionType
  <2>2. NoAbstention \in [abstain : BOOLEAN, partial : BOOLEAN] BY DEF NoAbstention
  <2> HIDE DEF A
  <2> QED BY <1>2, <2>1, <2>2
<1>4. \A c \in Claims : VerdictOf[c] = "supported" <=> IsSupported(c) BY DEF VerdictOf, IsSupported
<1>5. abstention'.partial => \E c \in Claims : ~IsSupported(c)
  <2>1. A.partial => \E c \in Claims : VerdictOf[c] # "supported" BY PartialHasGap
  <2> QED BY <1>2, <1>4, <2>1 DEF NoAbstention
<1>6. abstention'.abstain => Contexts = {} \/ \E c \in Claims : ~IsSupported(c)
  <2>1. input \in Inputs BY DEF Inv, TypeOK
  <2>2. IsFiniteSet(Claims) BY <2>1, InputsAssumption DEF Claims
  <2>3. Contexts # {} /\ (\A c \in Claims : VerdictOf[c] = "supported") => A = NoAbstention
    BY <2>2, SupportedIsAnswered
  <2> QED BY <1>2, <1>4, <2>3 DEF NoAbstention
<1>7. Abstains' BY <1>1, <1>5, <1>6 DEF Abstains, IsSupported, Claims, Contexts
<1> QED BY <1>1, <1>3, <1>7, VerdictsStay DEF Inv, Assessed, Reported, Done

LEMMA InvAssess == Inv /\ Assess => Inv'
<1> SUFFICES ASSUME Inv, Assess PROVE Inv' OBVIOUS
<1>1. stage = "assess" /\ stage' = "conclude" /\ UNCHANGED <<input, verifs, asked, vouched>>
  BY DEF Assess
<1>2. \A c \in Claims : /\ StatusOf(c)' = StatusOf(c) /\ AssessmentOf(c)' = AssessmentOf(c)
                        /\ IsUnsafe(c, StatusOf(c))' <=> IsUnsafe(c, StatusOf(c))
  BY <1>1 DEF StatusOf, AssessmentOf, Signals, Heard, EvidenceMode, Judged, Contexts, IsUnsafe, NeedsCurrent
<1> DEFINE Unsafe == \E c \in Claims : IsUnsafe(c, StatusOf(c))
<1>3. /\ abstention' \in [abstain : BOOLEAN, partial : BOOLEAN]
      /\ abstention'.partial = abstention.partial
      /\ abstention'.abstain => abstention.abstain \/ (Profile.sources /\ Unsafe)
  <2>1. abstention \in [abstain : BOOLEAN, partial : BOOLEAN] BY DEF Inv, TypeOK
  <2>2. CASE Profile.sources
    <3> DEFINE either == abstention.abstain \/ Unsafe
    <3>1. abstention' = [abstention EXCEPT !.abstain = either] BY <2>2 DEF Assess
    <3>2. either \in BOOLEAN BY <2>1
    <3> HIDE DEF either
    <3>3. abstention' \in [abstain : BOOLEAN, partial : BOOLEAN] /\ abstention'.partial = abstention.partial
          /\ abstention'.abstain = either
      BY <2>1, <3>1, <3>2
    <3> QED BY <2>2, <3>3 DEF either
  <2>3. CASE ~Profile.sources BY <2>1, <2>3 DEF Assess
  <2> QED BY <2>2, <2>3
<1>4. Abstains'
  <2>1. /\ abstention.partial => \E c \in Claims : ~IsSupported(c)
        /\ abstention.abstain => Contexts = {} \/ \E c \in Claims : ~IsSupported(c)
    BY <1>1 DEF Inv, Abstains
  <2>2. \A c \in Claims : IsSupported(c)' <=> IsSupported(c) BY <1>1 DEF IsSupported
  <2>3. Claims' = Claims /\ Contexts' = Contexts /\ Profile' = Profile
    BY <1>1 DEF Claims, Contexts, Profile
  <2> QED BY <1>1, <1>2, <1>3, <2>1, <2>2, <2>3 DEF Abstains
<1>5. Assessed' BY <1>1, <1>2 DEF Assess, Assessed, Claims, Profile
<1> QED BY <1>1, <1>3, <1>4, <1>5, VerdictsStay DEF Inv, Reported, Done

LEMMA InvConclude == Inv /\ Conclude => Inv'
<1> SUFFICES ASSUME Inv, Conclude PROVE Inv' OBVIOUS
<1>1. /\ stage = "conclude" /\ stage' = "done"
      /\ UNCHANGED <<input, verifs, asked, vouched, abstention, assessed>>
  BY DEF Conclude
<1>2. abstention \in [abstain : BOOLEAN, partial : BOOLEAN] BY DEF Inv, TypeOK
<1>3. \A c \in Claims : /\ StatusOf(c)' = StatusOf(c) /\ AssessmentOf(c)' = AssessmentOf(c)
                        /\ IsUnsafe(c, StatusOf(c))' <=> IsUnsafe(c, StatusOf(c))
                        /\ IsSupported(c)' <=> IsSupported(c)
  BY <1>1 DEF StatusOf, AssessmentOf, Signals, Heard, EvidenceMode, Judged, Contexts, IsUnsafe, NeedsCurrent,
              IsSupported
<1>4. Claims' = Claims /\ Contexts' = Contexts /\ Profile' = Profile
  BY <1>1 DEF Claims, Contexts, Profile
<1>5. Abstains' BY <1>1, <1>3, <1>4 DEF Inv, Abstains
<1>6. Assessed' BY <1>1, <1>3, <1>4 DEF Inv, Assessed
<1>7. Reported'
  <2>1. Failures' = Failures BY <1>1 DEF Failures, VerdictOf, Claims, Paired
  <2>2. ASSUME NEW c \in Claims PROVE CauseOf(c)' = CauseOf(c) BY <1>1 DEF CauseOf, Profile
  <2> QED BY <1>4, <2>1, <2>2 DEF Conclude, Reported
<1> QED BY <1>1, <1>2, <1>5, <1>6, <1>7, VerdictsStay DEF Inv

LEMMA InvStutter == Inv /\ UNCHANGED vars => Inv'
<1> SUFFICES ASSUME Inv, UNCHANGED vars PROVE Inv' OBVIOUS
<1>1. UNCHANGED <<input, stage, verifs, asked, vouched, abstention, assessed, report>> BY DEF vars
<1>2. Claims' = Claims /\ Contexts' = Contexts /\ Profile' = Profile /\ (Judged' <=> Judged)
  BY <1>1 DEF Claims, Contexts, Profile, Judged
<1>3. \A c \in Claims : /\ StatusOf(c)' = StatusOf(c) /\ AssessmentOf(c)' = AssessmentOf(c)
                        /\ IsUnsafe(c, StatusOf(c))' <=> IsUnsafe(c, StatusOf(c))
                        /\ IsSupported(c)' <=> IsSupported(c)
                        /\ IsWellCited(c)' <=> IsWellCited(c)
  BY <1>1 DEF StatusOf, AssessmentOf, Signals, Heard, EvidenceMode, Judged, Contexts, IsUnsafe, NeedsCurrent,
              IsSupported, IsWellCited
<1>4. ASSUME NEW c \in Claims
      PROVE  /\ Warranted(c)' <=> Warranted(c)
             /\ CitationHolds(c)' <=> CitationHolds(c)
             /\ WarrantedAtFirst(c)' <=> WarrantedAtFirst(c)
             /\ CitedAtFirst(c)' <=> CitedAtFirst(c)
             /\ CauseOf(c)' = CauseOf(c)
  BY <1>1 DEF CauseOf, Warranted, CitationHolds, WarrantedAtFirst, CitedAtFirst, RelationOf, EvidenceMode,
              Judged, Profile, Cited
<1>5. Failures' = Failures BY <1>1 DEF Failures, VerdictOf, Claims, Paired
<1>6. TypeOK' BY <1>1, <1>2 DEF Inv, TypeOK
<1>7. FirstVerdicts' /\ FirstCitations' /\ LastVerdicts'
  <2>1. FirstVerdicts' BY <1>1, <1>2, <1>3, <1>4 DEF Inv, FirstVerdicts
  <2>2. FirstCitations' BY <1>1, <1>2, <1>3, <1>4 DEF Inv, FirstCitations
  <2>3. LastVerdicts' BY <1>1, <1>2, <1>3, <1>4 DEF Inv, LastVerdicts
  <2> QED BY <2>1, <2>2, <2>3
<1>8. Abstains' BY <1>1, <1>2, <1>3 DEF Inv, Abstains
<1>9. Assessed' /\ Reported' BY <1>1, <1>2, <1>3, <1>4, <1>5 DEF Inv, Assessed, Reported, Done
<1> QED BY <1>6, <1>7, <1>8, <1>9 DEF Inv

THEOREM InvHolds == Spec => []Inv
<1>1. Inv /\ [Next]_vars => Inv'
  BY InvClassify, InvJudgeClaims, InvJudgeFails, InvCiteSources, InvRelate, InvRefineGaps, InvAbstain,
     InvAssess, InvConclude, InvStutter DEF Next
<1> QED BY <1>1, InvInit, PTL DEF Spec

(* The input and the verifications of every trace keep their shape.        *)
THEOREM VerifyTypes == Spec => []TypeOK
<1>1. Inv => TypeOK BY DEF Inv
<1> QED BY <1>1, InvHolds, PTL

-----------------------------------------------------------------------------
(* What the report of a finished trace is made of.                         *)
LEMMA DoneFacts ==
    ASSUME Inv, Done
    PROVE  /\ input.hybrid \in BOOLEAN
           /\ report.failures = Failures
           /\ Profile.causes => \A c \in Claims : report.causes[c] = CauseOf(c)
           /\ \A c \in Claims : IsVerification(verifs[c])
<1>1. input \in Inputs BY DEF Inv, TypeOK
<1> QED BY <1>1, InputsAssumption DEF Inv, TypeOK, Reported, Done

(* The status of each claim, with sources assessed and without.            *)
LEMMA StatusFacts ==
    ASSUME Inv, Done, NEW c \in Claims, IsSupported(c)
    PROVE  LET s == assessed[c].status IN
           /\ Profile.sources => s = StatusOf(c)
           /\ ~Profile.sources => s = "freshness_unknown"
           /\ s \notin {"stale_source", "stale_or_version_conflicted"}
           /\ s \notin {"grounded_but_conflicted", "grounded_but_stale"} => Uncontested(c)
<1>1. input.hybrid \in BOOLEAN BY DoneFacts
<1>2. CASE ~Profile.sources
  <2>1. assessed[c] = NotAssessed BY <1>2 DEF Inv, Assessed, Done
  <2> QED BY <1>2, <2>1 DEF NotAssessed, Uncontested
<1>3. CASE Profile.sources
  <2> DEFINE a == AssessmentOf(c)
  <2>1. assessed[c] = [stronger |-> a.stronger, newer |-> a.newer, unresolved |-> a.unresolved,
                       status |-> StatusOf(c)]
    BY <1>3 DEF Inv, Assessed, Done
  <2>2. a = Assessment(input.source, Signals(c), verifs[c].best, Heard(c), input.hybrid)
    BY DEF AssessmentOf
  <2>3. StatusOf(c) = SourceStatus("supported", input.source, Signals(c), verifs[c].best, a,
                                   input.query, input.hybrid)
    BY DEF StatusOf, IsSupported
  <2> HIDE DEF a
  <2>4. /\ StatusOf(c) \notin {"stale_source", "stale_or_version_conflicted"}
        /\ StatusOf(c) \notin {"grounded_but_conflicted", "grounded_but_stale"} =>
             \/ verifs[c].best = None
             \/ input.hybrid /\ TargetsHistorical(input.query, input.source[verifs[c].best])
             \/ a.stronger = {} /\ a.newer = {} /\ a.unresolved = {}
    BY <1>1, <2>2, <2>3, SupportedStatus
  <2> QED BY <1>3, <2>1, <2>4 DEF Uncontested
<1> QED BY <1>2, <1>3

(* A report without failures is earned: every claim and every citation is  *)
(* warranted and no source contests a claim (_verify_trace_with_profile).  *)
THEOREM ReportsAreEarned == Spec => []CleanBillIsEarned
<1>1. ASSUME Inv, Done, NoFailure PROVE CleanBillIsEarned
  <2>1. Failures = {} BY <1>1, DoneFacts DEF NoFailure
  <2> DEFINE v == VerdictOf
             t == [c \in Claims |-> verifs[c].citation]
             s == [c \in Claims |-> assessed[c].status]
  <2>2. VerdictFailures(Claims, v, t, abstention) = {} /\ SourceFailures(Claims, s, Paired) = {}
    BY <2>1, Zenon DEF Failures
  <2>3. \A c \in Claims : v[c] \in Verdicts BY <1>1, DoneFacts DEF VerdictOf, IsVerification
  <2> HIDE DEF v, t, s
  <2>4. /\ \A c \in Claims : v[c] = "supported" /\ t[c] \in {"citation_ok", "claim_has_no_citation"}
        /\ ~abstention.abstain
    BY <2>2, <2>3, NoVerdictFailure
  <2>5. ASSUME NEW c \in Claims
        PROVE  /\ Warranted(c)
               /\ Profile.citations => CitationHolds(c)
               /\ Uncontested(c)
    <3>1. IsSupported(c) /\ IsWellCited(c)
      BY <2>4 DEF IsSupported, IsWellCited, v, t, VerdictOf
    <3>2. s[c] \notin {"grounded_but_conflicted", "grounded_but_stale"} BY <2>2, NoSourceFailure
    <3>3. s[c] = assessed[c].status BY DEF s
    <3>4. Uncontested(c) BY <1>1, <3>1, <3>2, <3>3, StatusFacts
    <3> QED BY <1>1, <3>1, <3>4 DEF Inv, LastVerdicts, Done
  <2> QED BY <2>4, <2>5 DEF CleanBillIsEarned
<1>2. Inv => CleanBillIsEarned BY <1>1 DEF CleanBillIsEarned
<1> QED BY <1>2, InvHolds, PTL

(* Failures of the trace and root causes of its claims agree (_diagnostics  *)
(* and diagnose_claim), marked sources aside.                               *)
THEOREM CausesAgree == Spec => []CausesMatchFailures
<1> DEFINE t == [c \in Claims |-> verifs[c].citation]
           s == [c \in Claims |-> assessed[c].status]
<1>1. ASSUME Inv, Done, Profile.causes, NoFailure, NEW c \in Claims
      PROVE  report.causes[c] = "no_failure_detected" \/ MarkedConflicting(c)
  <2>1. Failures = {} BY <1>1, DoneFacts DEF NoFailure
  <2>2. VerdictFailures(Claims, VerdictOf, t, abstention) = {} /\ SourceFailures(Claims, s, Paired) = {}
    BY <2>1, Zenon DEF Failures
  <2>3. \A d \in Claims : VerdictOf[d] \in Verdicts BY <1>1, DoneFacts DEF VerdictOf, IsVerification
  <2> HIDE DEF t, s
  <2>4. VerdictOf[c] = "supported" /\ t[c] \in {"citation_ok", "claim_has_no_citation"}
    BY <2>2, <2>3, NoVerdictFailure
  <2>5. s[c] \notin {"grounded_but_conflicted", "grounded_but_stale", "grounded_by_low_authority_source"}
    BY <2>2, NoSourceFailure
  <2>6. /\ verifs[c].verdict = "supported" /\ IsSupported(c)
        /\ verifs[c].citation \in {"citation_ok", "claim_has_no_citation"}
        /\ s[c] = assessed[c].status
    BY <2>4 DEF VerdictOf, IsSupported, t, s
  <2>7. assessed[c].status \notin {"stale_source", "stale_or_version_conflicted"}
    BY <1>1, <2>6, StatusFacts
  <2>8. CASE assessed[c].status = "conflicting_source" BY <2>8 DEF MarkedConflicting
  <2>9. CASE assessed[c].status # "conflicting_source"
    <3>1. CauseOf(c) = "no_failure_detected" BY <2>5, <2>6, <2>7, <2>9, Causeless DEF CauseOf
    <3> QED BY <1>1, <3>1, DoneFacts
  <2> QED BY <2>8, <2>9
<1>2. ASSUME Inv, Done, Profile.causes, \A c \in Claims : report.causes[c] = "no_failure_detected"
      PROVE  NoFailure \/ Contexts = {} \/ \E c \in Claims : MarkedIncomplete(c)
  <2>1. SUFFICES ASSUME Contexts # {}, \A c \in Claims : ~MarkedIncomplete(c) PROVE Failures = {}
    BY <1>2, DoneFacts DEF NoFailure
  <2>2. ASSUME NEW c \in Claims
        PROVE  /\ verifs[c].verdict = "supported" /\ IsSupported(c)
               /\ verifs[c].citation \in {"citation_ok", "claim_has_no_citation"}
               /\ assessed[c].status \notin {"grounded_but_conflicted", "grounded_but_stale",
                                            "grounded_by_low_authority_source"}
    <3>1. CauseOf(c) = "no_failure_detected" BY <1>2, DoneFacts
    <3>2. verifs[c].verdict \in Verdicts /\ verifs[c].citation \in CitationStatuses
      BY <1>2, DoneFacts DEF IsVerification
    <3> QED BY <3>1, <3>2, NoCause DEF CauseOf, IsSupported
  <2>3. ~abstention.partial BY <1>2, <2>2 DEF Inv, Abstains, Done
  <2>4. ~abstention.abstain
    <3>1. ASSUME NEW c \in Claims, Profile.sources, IsUnsafe(c, StatusOf(c)) PROVE FALSE
      <4>1. assessed[c].status = StatusOf(c) BY <1>2, <2>2, <3>1, StatusFacts
      <4>2. StatusOf(c) \in {"grounded_but_conflicted", "grounded_but_stale", "incomplete"}
        BY <3>1 DEF IsUnsafe
      <4> QED BY <2>1, <2>2, <4>1, <4>2 DEF MarkedIncomplete
    <3> QED BY <1>2, <2>1, <2>2, <3>1 DEF Inv, Abstains, Done
  <2>5. VerdictFailures(Claims, VerdictOf, t, abstention) = {}
    <3>1. \A c \in Claims : VerdictOf[c] = "supported" /\ t[c] \in {"citation_ok", "claim_has_no_citation"}
      BY <2>2 DEF VerdictOf
    <3> HIDE DEF t
    <3> QED BY <2>3, <2>4, <3>1, AllSupported
  <2>6. SourceFailures(Claims, s, Paired) = {}
    <3>1. \A c \in Claims : s[c] \notin {"grounded_but_conflicted", "grounded_but_stale",
                                        "grounded_by_low_authority_source"}
      BY <2>2
    <3> HIDE DEF s
    <3> QED BY <3>1, SoundSources
  <2> QED BY <2>5, <2>6, Zenon DEF Failures
<1>3. Inv => CausesMatchFailures BY <1>1, <1>2 DEF CausesMatchFailures
<1> QED BY <1>3, InvHolds, PTL

(* Hybrid reasoning reports two sources that disagree, whatever their       *)
(* authority, dates and versions (_stronger_conflicts, _unresolved_conflicts). *)
THEOREM DisagreementIsReported == Spec => []NoSilentDisagreement
<1>1. ASSUME Inv, Done, input.hybrid, Profile.sources, NEW c \in Claims, NEW d \in Claims,
             Disagree(c, d), IsPlain(c), IsPlain(d)
      PROVE  report.failures \cap {"source_conflict", "stale_source"} # {}
  <2> DEFINE a == verifs[c].best
             b == verifs[d].best
  <2>1. /\ IsSupported(c) /\ IsSupported(d)
        /\ a \in Contexts /\ b \in Contexts /\ a # b
        /\ ClaimConflict(Signals(c)[b]) /\ ClaimConflict(Signals(d)[a])
    BY <1>1 DEF Disagree, IsSupported
  <2>2. Heard(c) = Contexts /\ Heard(d) = Contexts BY <1>1 DEF IsPlain, Heard
  <2>3. ~Signals(c)[a].lifecycle /\ ~Signals(d)[b].lifecycle BY <1>1, <2>1 DEF IsPlain, Signals
  <2>4. DOMAIN Signals(c) = Contexts /\ DOMAIN Signals(d) = Contexts BY DEF Signals
  <2>5. a # None /\ b # None
    <3>1. input \in Inputs BY <1>1 DEF Inv, TypeOK
    <3> QED BY <2>1, <3>1, InputsAssumption DEF Contexts
  <2>6. \/ b \in Unresolved(input.source, Signals(c), a, Contexts)
        \/ a \in Stronger(input.source, Signals(d), b, Contexts, TRUE)
    <3> HIDE DEF a, b
    <3> QED BY <2>1, <2>3, <2>4, <2>5, WeakerMeansStronger
  <2>7. input.hybrid = TRUE BY <1>1, DoneFacts
  <2>8. AssessmentOf(c).unresolved # {} \/ AssessmentOf(d).stronger # {}
    BY <2>2, <2>6, <2>7 DEF AssessmentOf, Assessment
  <2>9. ~Uncontested(c) \/ ~Uncontested(d)
    <3>1. /\ assessed[c].unresolved = AssessmentOf(c).unresolved
          /\ assessed[d].stronger = AssessmentOf(d).stronger
      BY <1>1 DEF Inv, Assessed, Done
    <3> QED BY <1>1, <2>5, <2>8, <3>1 DEF Uncontested, IsPlain
  <2>10. PICK e \in {c, d} : assessed[e].status \in {"grounded_but_conflicted", "grounded_but_stale"}
    BY <1>1, <2>1, <2>9, StatusFacts
  <2>11. Failures \cap {"source_conflict", "stale_source"} # {}
    <3> DEFINE s == [x \in Claims |-> assessed[x].status]
    <3>1. e \in Claims /\ s[e] = assessed[e].status BY <2>10
    <3> HIDE DEF s
    <3>2. SourceFailures(Claims, s, Paired) \cap {"source_conflict", "stale_source"} # {}
      BY <2>10, <3>1 DEF SourceFailures
    <3> QED BY <3>2 DEF Failures, s
  <2> QED BY <1>1, <2>11, DoneFacts
<1>2. Inv => NoSilentDisagreement BY <1>1 DEF NoSilentDisagreement
<1> QED BY <1>2, InvHolds, PTL
-----------------------------------------------------------------------------
(* The three verifiers next to each other: a behaviour is one of them.     *)

ScenarioInv ==
    /\ scenario = "selective" => Core!CoreInv
    /\ scenario = "local" => Local!LocalInv

LEMMA ScenarioStarts == MCInit => ScenarioInv
<1> SUFFICES ASSUME MCInit PROVE ScenarioInv
  OBVIOUS
<1>1. scenario = "selective" => Core!CoreInv
  <2>1. scenario = "selective" => Core!Init
    BY DEF MCInit
  <2> QED
    BY <2>1, Core!CoreStarts, CoreAssumption
<1>2. scenario = "local" => Local!LocalInv
  <2>1. scenario = "local" => Local!Init
    BY DEF MCInit
  <2> QED
    BY <2>1, Local!LocalStarts, LocalAssumption
<1> QED
  BY <1>1, <1>2 DEF ScenarioInv

LEMMA ScenarioMoves ==
    ASSUME ScenarioInv, [Profiled \/ Selective \/ LocalStep]_<<scenario, vars, coreVars, localVars>>
    PROVE  ScenarioInv'
<1>1. scenario' = scenario
  BY DEF Profiled, Selective, LocalStep
<1>2. ASSUME scenario = "selective" PROVE Core!CoreInv'
  <2>1. [Core!Next]_(Core!vars)
    BY <1>2 DEF Profiled, Selective, LocalStep, coreVars, Core!vars
  <2>2. Core!CoreInv
    BY <1>2 DEF ScenarioInv
  <2> QED
    BY <2>1, <2>2, Core!CoreMoves, CoreAssumption
<1>3. ASSUME scenario = "local" PROVE Local!LocalInv'
  <2>1. [Local!Next]_(Local!vars)
    BY <1>3 DEF Profiled, Selective, LocalStep, localVars, Local!vars
  <2>2. Local!LocalInv
    BY <1>3 DEF ScenarioInv
  <2> QED
    BY <2>1, <2>2, Local!LocalMoves, LocalAssumption
<1> QED
  BY <1>1, <1>2, <1>3 DEF ScenarioInv

LEMMA ScenarioInvHolds == MCSpec => []ScenarioInv
BY ScenarioStarts, ScenarioMoves, PTL DEF MCSpec

\* A claim shown green, or supported without review, is warranted: for all traces and
\* cases, all scores a model may give and all limits of the selection.
THEOREM GreenClaimsAreEarned == MCSpec => []GreenClaimIsEarned
<1>1. ASSUME ScenarioInv PROVE GreenClaimIsEarned
  <2>1. scenario = "selective" => Core!GreenClaimIsEarned
    BY <1>1, Core!CoreInvIsEnough, CoreAssumption DEF ScenarioInv
  <2>2. scenario = "local" => Local!AutomaticSupportIsEarned /\ Local!CoveredPartsAreEarned
    BY <1>1, Local!SupportIsBacked, Local!CoverIsEarned, LocalAssumption DEF ScenarioInv
  <2> QED
    BY <2>1, <2>2 DEF GreenClaimIsEarned
<1>2. ScenarioInv => GreenClaimIsEarned
  BY <1>1
<1> QED
  BY <1>2, ScenarioInvHolds, PTL

\* What the text leaves open is decided by a model that is sure, or by nothing.
THEOREM OpenIsClosed == MCSpec => []NliFailsClosed
<1>1. ASSUME ScenarioInv PROVE NliFailsClosed
  <2>1. scenario = "selective" => Core!NliFailsClosed
    BY <1>1, Core!CoreInvIsEnough, CoreAssumption DEF ScenarioInv
  <2>2. scenario = "local" => Local!UnsureModelDecidesNothing
    BY <1>1, Local!CautionHolds, LocalAssumption DEF ScenarioInv
  <2> QED
    BY <2>1, <2>2 DEF NliFailsClosed
<1>2. ScenarioInv => NliFailsClosed
  BY <1>1
<1> QED
  BY <1>2, ScenarioInvHolds, PTL

=============================================================================
