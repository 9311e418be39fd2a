-------------------------- MODULE LocalJudgesProofs --------------------------
(***************************************************************************)
(* Proofs about LocalJudges, for all cases and scores of the model: what   *)
(* the judges support without review is warranted, part by part, and a     *)
(* model that is unsure decides nothing.  The inductive invariant LocalInv *)
(* carries what each assessment rests on to the verdict on the claim.      *)
(***************************************************************************)
EXTENDS LocalJudges, FiniteSetTheorems, WellFoundedInduction, SequenceTheorems, TLAPS

-----------------------------------------------------------------------------
(* Least and greatest.                                                     *)

LEMMA LeastNatural ==
    ASSUME NEW S \in SUBSET Nat, S # {}
    PROVE  \E x \in S : \A y \in S : x <= y
<1> DEFINE R == OpToRel(<, Nat)
<1>1. IsWellFoundedOn(R, Nat)
  BY NatLessThanWellFounded
<1> HIDE DEF R
<1>2. PICK x \in S : \A y \in S : ~(<<y, x>> \in R)
  BY <1>1, WFMin
<1>3. ASSUME NEW y \in S PROVE x <= y
  <2>1. ~(<<y, x>> \in R)
    BY <1>2
  <2>2. ~(y < x)
    BY <2>1 DEF R, OpToRel
  <2> QED
    BY <2>2
<1> QED
  BY <1>3

LEMMA MinIs ==
    ASSUME NEW S \in SUBSET Nat, S # {}
    PROVE  Min(S) \in S /\ \A y \in S : Min(S) <= y
BY LeastNatural, Zenon DEF Min

LEMMA GreatestPercent ==
    ASSUME NEW S \in SUBSET (0..100), S # {}
    PROVE  \E x \in S : \A y \in S : x >= y
<1> DEFINE T == {100 - x : x \in S}
<1>1. T \in SUBSET Nat /\ T # {}
  <2>1. \A x \in S : 100 - x \in Nat
    OBVIOUS
  <2> QED
    BY <2>1
<1>2. PICK m \in T : \A y \in T : m <= y
  BY <1>1, LeastNatural
<1>3. PICK x \in S : m = 100 - x
  BY <1>2
<1>4. ASSUME NEW y \in S PROVE x >= y
  <2>1. 100 - y \in T
    OBVIOUS
  <2>2. m <= 100 - y
    BY <1>2, <2>1
  <2> QED
    BY <1>3, <2>2
<1> QED
  BY <1>4

LEMMA MaxIs ==
    ASSUME NEW S \in SUBSET (0..100), S # {}
    PROVE  Max(S) \in S /\ \A y \in S : Max(S) >= y
BY GreatestPercent, Zenon DEF Max
-----------------------------------------------------------------------------
(* What is assessed: one case, from its start on.                          *)

Rows == [label : Labels, score : Scores]

OfWords == {"no_selected_evidence", "deterministic_support", "unconfirmed_legacy_conflict",
            "insufficient_support", "deterministic_atom_support", "related_but_not_entailed"}
OfModel == {"nli_detected_conflicting_evidence", "local_nli_entailment",
            "nli_contradiction_not_confirmed_by_local_relation", "local_nli_contradiction",
            "local_nli_neutral", "local_nli_below_acceptance_threshold"}
Reasons == OfRules \cup OfWords \cup OfModel

PartKinds ==
    [verdict : {"supported", "contradicted", "unsupported", "unverifiable"}, confidence : Nat,
     reason : Reasons, conflict : BOOLEAN, heard : Seq(Rows)]
RequirementKinds == [status : Statuses, confidence : Nat]
Kinds == IF ByQuality THEN PartKinds ELSE RequirementKinds

ResultKinds ==
    [verdict : Verdicts, review : BOOLEAN, automatic : BOOLEAN, parts : Seq(Kinds)]

LocalTypes ==
    /\ case \in Cases
    /\ answers \in Seq(Rows)
    /\ assessments \in Seq(Kinds)
    /\ results \in Seq(ResultKinds)
    /\ failed \in BOOLEAN

\* None of the texts speaks against the statement, nor two against each other.
Unopposed(s, texts) == (\A t \in texts : ~Opposes(s, t)) /\ ~PolarityConflict(s, texts)

\* What the support of part p of claim c rests on.
Backed(c, p, a) ==
    /\ a.confidence >= 80 =>
          \/ IsEntailed(a, 80)
          \/ /\ ~case.model
             /\ \E k \in Bears(c.whole, c.score[0]) : c.seen[p][k].matched > 0 \/ c.seen[p][k].score >= 62
    /\ case.rules => Unopposed(c.parts[p], {case.texts[k] : k \in Chosen(c, p)})

Sure(a, label, score) == \E i \in DOMAIN a.heard : a.heard[i].label = label /\ a.heard[i].score >= score

\* What the model decides it is sure of.
Cautious(a) ==
    a.heard # <<>> /\ a.reason \notin OfRules =>
        /\ a.verdict = "supported" => IsEntailed(a, 70)
        /\ a.verdict = "contradicted" => Sure(a, "contradiction", 80) /\ ~Sure(a, "entailment", 70)
        /\ a.verdict = "unsupported" => Sure(a, "neutral", 70) \/ Sure(a, "contradiction", 80)

PartHolds(c, p, a) ==
    IF ByQuality THEN (a.verdict = "supported" => Backed(c, p, a)) /\ Cautious(a)
    ELSE a.status = "covered" => Chosen(c, p) # {}

\* What is supported without review is so in each of its parts.
ClaimHolds(c, r) ==
    /\ Len(r.parts) = Len(Parts(c))
    /\ \A p \in DOMAIN r.parts : \A a \in {r.parts[p]} :
          /\ PartHolds(c, p, a)
          /\ ByQuality /\ r.verdict = "supported" => a.verdict = "supported"
          /\ ByQuality /\ r.automatic => a.verdict = "supported" /\ a.confidence >= 80
          /\ ~ByQuality /\ r.automatic => a.status = "covered" /\ a.confidence >= 75
    /\ r.automatic => r.parts # <<>>

LocalInv ==
    /\ LocalTypes
    /\ answers # <<>> => ByQuality /\ case.model
    /\ Len(results) <= Len(case.claims)
    /\ assessments # <<>> => Len(results) < Len(case.claims) /\ Len(assessments) <= Len(Parts(Claim))
    /\ \A c \in {Claim} : \A p \in DOMAIN assessments : \A a \in {assessments[p]} : PartHolds(c, p, a)
    /\ \A n \in DOMAIN results : \A c \in {case.claims[n]} : \A r \in {results[n]} : ClaimHolds(c, r)

-----------------------------------------------------------------------------
(* The texts of a claim.                                                   *)

LEMMA RelevanceIs ==
    ASSUME NEW s, NEW t, NEW score \in 0..100
    PROVE  Relevance(s, t, score) \in 0..100
<1> DEFINE B == {bonus \in {40, 45, 55} :
            \/ bonus = 45 /\ ExplicitAbsence(s, t)
            \/ bonus = 55 /\ NumericConflict(s, t)
            \/ bonus = 40 /\ (PossibleNegation(s, t) \/ UniversalQualified(s, t))}
<1>1. B \subseteq {40, 45, 55}
  OBVIOUS
<1>2. Relevance(s, t, score) = Max({score} \cup B)
  BY DEF Relevance
<1> HIDE DEF B
<1>3. {score} \cup B \in SUBSET (0..100) /\ {score} \cup B # {}
  BY <1>1
<1> QED
  BY <1>2, <1>3, MaxIs

\* Of texts that are compared by score, then relevance, then place, one is the best.
LEMMA BestIs ==
    ASSUME NEW c, NEW seen, NEW chosen \in SUBSET DOMAIN case.texts, chosen # {},
           DOMAIN case.texts \subseteq Nat,
           \A k \in chosen : seen[k].score \in 0..100 /\ c.score[0][k] \in 0..100
    PROVE  BestOf(c, seen, chosen) \in chosen
<1> DEFINE R(k) == Relevance(c.whole, case.texts[k], c.score[0][k])
           Score(k) == seen[k].score
           Scored == {Score(k) : k \in chosen}
           Tops == {k \in chosen : \A j \in chosen : Score(k) >= Score(j)}
           Ranked == {R(k) : k \in Tops}
           Leads == {k \in Tops : \A j \in Tops : R(k) >= R(j)}
<1>1. \A k \in chosen : R(k) \in 0..100 /\ Score(k) \in 0..100
  BY RelevanceIs
<1> HIDE DEF R, Score
<1>2. Tops # {}
  <2>1. Scored \in SUBSET (0..100) /\ Scored # {}
    BY <1>1
  <2>2. PICK x \in Scored : \A y \in Scored : x >= y
    BY <2>1, GreatestPercent
  <2>3. PICK k \in chosen : x = Score(k)
    BY <2>2
  <2> QED
    BY <2>2, <2>3
<1>3. Leads # {}
  <2>1. Ranked \in SUBSET (0..100) /\ Ranked # {}
    BY <1>1, <1>2
  <2>2. PICK x \in Ranked : \A y \in Ranked : x >= y
    BY <2>1, GreatestPercent
  <2>3. PICK k \in Tops : x = R(k)
    BY <2>2
  <2> QED
    BY <2>2, <2>3
<1>4. PICK k \in Leads : \A j \in Leads : k <= j
  <2>1. Leads \in SUBSET Nat
    OBVIOUS
  <2> QED
    BY <1>3, <2>1, LeastNatural
<1>5. ASSUME NEW j \in chosen \ {k}
      PROVE  Score(j) < Score(k) \/ (Score(j) = Score(k) /\ (R(k) > R(j) \/ (R(k) = R(j) /\ k < j)))
  <2>1. Score(k) >= Score(j) /\ k \in Tops /\ k \in Nat /\ j \in Nat
    BY <1>4
  <2>2. CASE Score(j) = Score(k)
    <3>1. j \in Tops
      BY <2>1, <2>2
    <3>2. R(k) >= R(j)
      BY <1>4, <3>1
    <3>3. R(k) = R(j) => k < j
      <4>1. R(k) = R(j) => j \in Leads
        BY <1>4, <3>1
      <4> QED
        BY <1>4, <2>1, <4>1
    <3> QED
      BY <1>1, <2>1, <2>2, <3>2, <3>3
  <2> QED
    BY <1>1, <2>1, <2>2
<1>6. \E b \in chosen : \A j \in chosen \ {b} :
         \/ seen[j].score < seen[b].score
         \/ seen[j].score = seen[b].score /\ IsAhead(c.whole, c.score[0], b, j)
  BY <1>4, <1>5 DEF IsAhead, R, Score
<1> QED
  BY <1>6, Zenon DEF BestOf

\* Texts that are few enough are all selected.
LEMMA SelectsAll ==
    ASSUME NEW s, NEW score, NEW limit \in Nat, IsFiniteSet(DOMAIN case.texts),
           Cardinality(Bears(s, score)) <= limit,
           \A k \in DOMAIN case.texts : score[k] \in 0..100, DOMAIN case.texts \subseteq Nat
    PROVE  Select(s, score, limit) = Bears(s, score)
<1>1. Bears(s, score) \subseteq DOMAIN case.texts
  BY DEF Bears
<1>2. IsFiniteSet(Bears(s, score)) /\ Cardinality(Bears(s, score)) \in Nat
  BY <1>1, FS_Subset, FS_CardinalityType
<1>3. ASSUME NEW k \in Bears(s, score)
      PROVE  Cardinality({j \in Bears(s, score) : IsAhead(s, score, j, k)}) < limit
  <2> DEFINE Before == {j \in Bears(s, score) : IsAhead(s, score, j, k)}
  <2>1. k \notin Before
    <3>1. Relevance(s, case.texts[k], score[k]) \in 0..100 /\ k \in Nat
      BY <1>1, RelevanceIs
    <3> QED
      BY <3>1 DEF IsAhead
  <2>2. Before \in SUBSET Bears(s, score) /\ Before # Bears(s, score)
    BY <2>1
  <2> HIDE DEF Before
  <2>3. Cardinality(Before) < Cardinality(Bears(s, score)) /\ Cardinality(Before) \in Nat
    BY <1>2, <2>2, FS_Subset, FS_CardinalityType
  <2>4. Cardinality(Before) < limit
    BY <1>2, <2>3
  <2> QED
    BY <2>4 DEF Before
<1> QED
  BY <1>3 DEF Select

-----------------------------------------------------------------------------
(* The assessment of a part.                                               *)

LEMMA AssessedIs ==
    ASSUME NEW v \in {"supported", "contradicted", "unsupported", "unverifiable"},
           NEW n \in Nat, NEW reason \in Reasons
    PROVE  /\ Assessed(v, n, reason) \in PartKinds
           /\ Assessed(v, n, reason).verdict = v /\ Assessed(v, n, reason).confidence = n
           /\ Assessed(v, n, reason).reason = reason /\ Assessed(v, n, reason).heard = <<>>
<1> DEFINE H == Seq(Rows)
<1>1. <<>> \in H
  OBVIOUS
<1> HIDE DEF H
<1> QED
  BY <1>1 DEF Assessed, PartKinds, H

LEMMA DisputedIs ==
    ASSUME NEW reason \in Reasons
    PROVE  LET a == [Assessed("unverifiable", 70, reason) EXCEPT !.conflict = TRUE] IN
           a \in PartKinds /\ a.verdict = "unverifiable" /\ a.reason = reason /\ a.heard = <<>>
<1> DEFINE H == Seq(Rows)
<1>1. <<>> \in H
  OBVIOUS
<1> HIDE DEF H
<1> QED
  BY <1>1 DEF Assessed, PartKinds, H

\* Where no rule speaks nothing is opposed; a rule supports nothing.
LEMMA RulesSpeak ==
    ASSUME NEW s, NEW texts, None \notin Verdicts
    PROVE  LET r == ByRules(s, texts) IN
           /\ r.verdict = None => Unopposed(s, texts)
           /\ r.verdict # None => r \in PartKinds /\ r.reason \in OfRules /\ r.verdict # "supported"
           /\ r.heard = <<>>
<1> DEFINE r == ByRules(s, texts)
<1>1. \A v \in {"contradicted", "unsupported", "unverifiable"} : v # None
  BY DEF Verdicts
<1> SUFFICES /\ r.verdict = None => Unopposed(s, texts)
             /\ r.verdict # None => r \in PartKinds /\ r.reason \in OfRules /\ r.verdict # "supported"
             /\ r.heard = <<>>
  OBVIOUS
<1> HIDE DEF r
<1>2. CASE \E t \in texts : NumericConflict(s, t)
  <2>1. r = Assessed("contradicted", 96, "numeric_value_conflict")
    BY <1>2 DEF r, ByRules
  <2> QED
    BY <1>1, <2>1, AssessedIs DEF OfRules, Reasons
<1>3. CASE ~(\E t \in texts : NumericConflict(s, t)) /\ PolarityConflict(s, texts)
  <2>1. r = [Assessed("unverifiable", 70, "conflicting_selected_evidence") EXCEPT !.conflict = TRUE]
    BY <1>3 DEF r, ByRules
  <2>2. "conflicting_selected_evidence" \in Reasons
    BY DEF OfRules, Reasons
  <2>3. /\ r \in PartKinds /\ r.verdict = "unverifiable" /\ r.heard = <<>>
        /\ r.reason = "conflicting_selected_evidence"
    BY <2>1, <2>2, DisputedIs, Zenon
  <2> QED
    BY <1>1, <2>3 DEF OfRules
<1>4. CASE /\ ~(\E t \in texts : NumericConflict(s, t)) /\ ~PolarityConflict(s, texts)
           /\ \E t \in texts : ExplicitAbsence(s, t)
  <2>1. r = Assessed("unsupported", 94, "evidence_explicitly_omits_asserted_detail")
    BY <1>4 DEF r, ByRules
  <2> QED
    BY <1>1, <2>1, AssessedIs DEF OfRules, Reasons
<1>5. CASE /\ ~(\E t \in texts : NumericConflict(s, t)) /\ ~PolarityConflict(s, texts)
           /\ ~(\E t \in texts : ExplicitAbsence(s, t))
  <2>1. CASE \E t \in texts : ApproximateForExact(s, t)
    <3>1. r = Assessed("unverifiable", 70, "approximate_evidence_for_exact_claim")
      BY <1>5, <2>1 DEF r, ByRules
    <3> QED
      BY <1>1, <3>1, AssessedIs DEF OfRules, Reasons
  <2>2. CASE ~(\E t \in texts : ApproximateForExact(s, t)) /\ \E t \in texts : UniversalExcluded(s, t)
    <3>1. r = Assessed("contradicted", 94, "explicit_universal_exclusion")
      BY <1>5, <2>2 DEF r, ByRules
    <3> QED
      BY <1>1, <3>1, AssessedIs DEF OfRules, Reasons
  <2>3. CASE /\ ~(\E t \in texts : ApproximateForExact(s, t)) /\ ~(\E t \in texts : UniversalExcluded(s, t))
             /\ \E t \in texts : UniversalQualified(s, t)
    <3>1. r = Assessed("unverifiable", 72, "qualified_evidence_for_universal_claim")
      BY <1>5, <2>3 DEF r, ByRules
    <3> QED
      BY <1>1, <3>1, AssessedIs DEF OfRules, Reasons
  <2>4. CASE /\ ~(\E t \in texts : ApproximateForExact(s, t)) /\ ~(\E t \in texts : UniversalExcluded(s, t))
             /\ ~(\E t \in texts : UniversalQualified(s, t))
             /\ \E t \in texts : NegationConflict(s, t)
    <3>1. r = Assessed("contradicted", 94, "explicit_negation_conflict")
      BY <1>5, <2>4 DEF r, ByRules
    <3> QED
      BY <1>1, <3>1, AssessedIs DEF OfRules, Reasons
  <2>5. CASE /\ ~(\E t \in texts : ApproximateForExact(s, t)) /\ ~(\E t \in texts : UniversalExcluded(s, t))
             /\ ~(\E t \in texts : UniversalQualified(s, t))
             /\ ~(\E t \in texts : NegationConflict(s, t))
    <3>1. r = Assessed(None, 0, None)
      BY <1>5, <2>5 DEF r, ByRules
    <3>2. Unopposed(s, texts)
      BY <1>5, <2>5 DEF Unopposed, Opposes
    <3> QED
      BY <3>1, <3>2 DEF Assessed
  <2> QED
    BY <2>1, <2>2, <2>3, <2>4, <2>5
<1> QED
  BY <1>2, <1>3, <1>4, <1>5

LEMMA WordsSpeak ==
    ASSUME NEW m \in Matches
    PROVE  /\ ByWords(m) \in PartKinds /\ ByWords(m).heard = <<>>
           /\ ByWords(m).verdict = "supported" => m.matched > 0 \/ m.score >= 62
<1>1. Verdict(m, TRUE, "semantic", TRUE) = "supported" => m.matched > 0 \/ m.score >= 62
  BY DEF Verdict, AllMatched, Missing, Matches
<1>2. ByWords(m) \in {Assessed("supported", 82, "deterministic_support"),
                      Assessed("unsupported", 80, "unconfirmed_legacy_conflict"),
                      Assessed("unsupported", 80, "insufficient_support"),
                      Assessed("supported", 80, "deterministic_atom_support"),
                      Assessed("unsupported", 80, "related_but_not_entailed")}
  BY DEF ByWords
<1>3. ByWords(m) \in PartKinds /\ ByWords(m).heard = <<>>
  BY <1>2, AssessedIs DEF Reasons, OfWords
<1>4. ByWords(m).verdict = "supported" => m.matched > 0 \/ m.score >= 62
  BY <1>1 DEF ByWords, Assessed
<1> QED
  BY <1>3, <1>4

\* Support by rules and words: a text has it, and none that was selected opposes it.
LEMMA TextsSpeak ==
    ASSUME NEW c, NEW p, NEW chosen \in SUBSET DOMAIN case.texts,
           None \notin Verdicts, DOMAIN case.texts \subseteq Nat,
           \A k \in chosen : c.seen[p][k] \in Matches /\ c.score[0][k] \in 0..100
    PROVE  LET d == Deterministic(c, p, chosen) IN
           /\ d \in PartKinds /\ d.heard = <<>>
           /\ d.reason \notin OfRules => (case.rules => Unopposed(c.parts[p], {case.texts[k] : k \in chosen}))
           /\ d.verdict = "supported" =>
                 /\ d.reason \notin OfRules
                 /\ \E k \in chosen : c.seen[p][k].matched > 0 \/ c.seen[p][k].score >= 62
<1> DEFINE d == Deterministic(c, p, chosen)
           texts == {case.texts[k] : k \in chosen}
           ruled == ByRules(c.parts[p], texts)
           best == BestOf(c, c.seen[p], chosen)
<1>1. CASE chosen = {}
  <2>1. d = Assessed("unsupported", 95, "no_selected_evidence")
    BY <1>1 DEF Deterministic
  <2>2. Unopposed(c.parts[p], texts)
    BY <1>1 DEF Unopposed, PolarityConflict
  <2> HIDE DEF d, texts
  <2>4. d \in PartKinds /\ d.heard = <<>> /\ d.verdict # "supported"
    BY <2>1, AssessedIs DEF Reasons, OfWords
  <2> QED
    BY <2>2, <2>4 DEF d, texts
<1>2. CASE chosen # {} /\ case.rules /\ ruled.verdict # None
  <2>1. d = ruled
    BY <1>2 DEF Deterministic
  <2> HIDE DEF d, texts
  <2>2. d \in PartKinds /\ d.heard = <<>> /\ d.reason \in OfRules /\ d.verdict # "supported"
    BY <1>2, <2>1, RulesSpeak
  <2> QED
    BY <2>2 DEF d, texts
<1>3. CASE chosen # {} /\ ~(case.rules /\ ruled.verdict # None)
  <2>1. d = ByWords(c.seen[p][best])
    BY <1>3 DEF Deterministic
  <2>2. \A k \in chosen : c.seen[p][k].score \in 0..100 /\ c.score[0][k] \in 0..100
    BY DEF Matches
  <2>3. best \in chosen
    BY <1>3, <2>2, BestIs
  <2>4. case.rules => Unopposed(c.parts[p], texts)
    <3> HIDE DEF texts
    <3> QED
      BY <1>3, RulesSpeak
  <2> HIDE DEF d, texts, best
  <2>5. c.seen[p][best] \in Matches
    BY <2>3
  <2>6. /\ d \in PartKinds /\ d.heard = <<>>
        /\ d.verdict = "supported" => c.seen[p][best].matched > 0 \/ c.seen[p][best].score >= 62
    BY <2>1, <2>5, WordsSpeak
  <2>7. d.verdict = "supported" => d.reason \notin OfRules
    BY <2>1 DEF ByWords, Assessed, OfRules
  <2> QED
    BY <2>3, <2>4, <2>6, <2>7 DEF d, texts
<1> QED
  BY <1>1, <1>2, <1>3

LEMMA HighestIs ==
    ASSUME NEW rows \in Seq(Rows), Scores \subseteq 0..100, NEW I \in SUBSET DOMAIN rows, I # {}
    PROVE  /\ Highest(rows, I) \in 0..100
           /\ \E i \in I : Highest(rows, I) = rows[i].score
           /\ \A i \in I : Highest(rows, I) >= rows[i].score
<1> DEFINE S == {rows[i].score : i \in I}
<1>1. \A i \in I : rows[i] \in Rows
  OBVIOUS
<1>2. S \in SUBSET (0..100) /\ S # {}
  BY <1>1 DEF Rows
<1>3. Max(S) \in S /\ \A y \in S : Max(S) >= y
  <2> HIDE DEF S
  <2> QED
    BY <1>2, MaxIs
<1> QED
  BY <1>2, <1>3 DEF Highest

\* The model decides with answers it is sure of, and keeps them.
LEMMA ModelSpeaks ==
    ASSUME NEW d \in PartKinds, NEW rows \in Seq(Rows), rows # <<>>, Scores \subseteq 0..100
    PROVE  LET a == [WithModel(d, rows) EXCEPT !.heard = rows] IN
           /\ a \in PartKinds
           /\ Cautious(a)
           /\ a.verdict = "supported" =>
                 \/ d.reason \in OfRules /\ d.verdict = "supported"
                 \/ d.reason \notin OfRules /\ (a.confidence >= 80 => IsEntailed(a, 80))
<1> DEFINE w == WithModel(d, rows)
           a == [w EXCEPT !.heard = rows]
           entailing == Accepted(rows, "entailment")
           contradicting == Accepted(rows, "contradiction")
           neutral == Accepted(rows, "neutral")
           Wanted ==
             /\ w \in PartKinds
             /\ w.reason \notin OfRules =>
                  /\ w.verdict = "supported" =>
                       /\ entailing # {} /\ contradicting = {}
                       /\ \E i \in entailing : w.confidence = rows[i].score
                  /\ w.verdict = "contradicted" => contradicting # {} /\ entailing = {}
                  /\ w.verdict = "unsupported" => neutral # {} \/ contradicting # {}
             /\ w.verdict = "supported" => (d.reason \in OfRules /\ d.verdict = "supported")
                                            \/ (d.reason \notin OfRules /\ w.reason \notin OfRules)
<1>1. /\ entailing \in SUBSET DOMAIN rows
      /\ contradicting \in SUBSET DOMAIN rows
      /\ neutral \in SUBSET DOMAIN rows
  BY DEF Accepted
<1>2. DOMAIN rows # {}
  <2>1. Len(rows) \in Nat /\ DOMAIN rows = 1..Len(rows) /\ Len(rows) # 0
    BY EmptySeq
  <2>2. 1 \in DOMAIN rows
    BY <2>1
  <2> QED
    BY <2>2
<1>3. \A r \in Reasons : r \in OfRules \/ r \in OfWords \/ r \in OfModel
  BY DEF Reasons
<1>4. \A r \in OfModel : r \in Reasons /\ r \notin OfRules
  BY DEF Reasons, OfRules, OfModel
<1>5. Wanted
  <2> HIDE DEF entailing, contradicting, neutral
  <2>1. CASE d.reason \in OfRules
    <3>1. w = d
      BY <2>1 DEF WithModel
    <3> QED
      BY <2>1, <3>1
  <2>2. CASE d.reason \notin OfRules /\ entailing # {} /\ contradicting # {}
    <3>1. w = [Assessed("unverifiable", 70, "nli_detected_conflicting_evidence") EXCEPT !.conflict = TRUE]
      BY <2>2 DEF WithModel, entailing, contradicting
    <3>2. "nli_detected_conflicting_evidence" \in Reasons
      BY <1>4 DEF OfModel
    <3>3. w \in PartKinds /\ w.verdict = "unverifiable"
      BY <3>1, <3>2, DisputedIs, Zenon
    <3> QED
      BY <3>3
  <2>3. CASE d.reason \notin OfRules /\ entailing # {} /\ contradicting = {}
    <3>1. PICK best \in 0..100 : best = Highest(rows, entailing) /\ \E i \in entailing : best = rows[i].score
      BY <1>1, <2>3, HighestIs, Zenon
    <3>2. WithModel(d, rows) = Assessed("supported", best, "local_nli_entailment")
      BY <2>3, <3>1 DEF WithModel, entailing, contradicting
    <3>3. "local_nli_entailment" \in Reasons /\ "local_nli_entailment" \notin OfRules
      BY <1>4 DEF OfModel
    <3>4. LET v == Assessed("supported", best, "local_nli_entailment") IN
          /\ v \in PartKinds /\ v.verdict = "supported" /\ v.confidence = best
          /\ v.reason = "local_nli_entailment"
      <4>1. best \in Nat
        OBVIOUS
      <4> QED
        BY <3>3, <4>1, AssessedIs, SMTT(30)
    <3> QED
      BY <2>3, <3>1, <3>2, <3>3, <3>4
  <2>4. CASE d.reason \notin OfRules /\ entailing = {} /\ contradicting # {}
    <3>1. PICK most \in 0..100 : most = Highest(rows, contradicting)
      BY <1>1, <2>4, HighestIs, Zenon
    <3>2. CASE d.verdict = "unsupported"
      <4>1. PICK least \in Nat : least = Min({94, most})
        <5>1. {94, most} \in SUBSET Nat /\ {94, most} # {}
          OBVIOUS
        <5>2. Min({94, most}) \in {94, most}
          BY <5>1, MinIs, Zenon
        <5> QED
          BY <5>1, <5>2, Zenon
      <4>2. WithModel(d, rows) = Assessed("unsupported", least,
                                          "nli_contradiction_not_confirmed_by_local_relation")
        BY <2>4, <3>1, <3>2, <4>1 DEF WithModel, entailing, contradicting
      <4>3. "nli_contradiction_not_confirmed_by_local_relation" \in Reasons
        BY <1>4 DEF OfModel
      <4>4. LET v == Assessed("unsupported", least, "nli_contradiction_not_confirmed_by_local_relation") IN
            v \in PartKinds /\ v.verdict = "unsupported"
        <5>1. least \in Nat
          OBVIOUS
        <5> QED
          BY <4>3, <5>1, AssessedIs, SMTT(30)
      <4> QED
        BY <2>4, <4>2, <4>4
    <3>3. CASE d.verdict # "unsupported"
      <4>1. WithModel(d, rows) = Assessed("contradicted", most, "local_nli_contradiction")
        BY <2>4, <3>1, <3>3 DEF WithModel, entailing, contradicting
      <4>2. "local_nli_contradiction" \in Reasons
        BY <1>4 DEF OfModel
      <4>3. LET v == Assessed("contradicted", most, "local_nli_contradiction") IN
            v \in PartKinds /\ v.verdict = "contradicted"
        <5>1. most \in Nat
          OBVIOUS
        <5> QED
          BY <4>2, <5>1, AssessedIs, SMTT(30)
      <4> QED
        BY <2>4, <4>1, <4>3
    <3> QED
      BY <3>2, <3>3
  <2>5. CASE d.reason \notin OfRules /\ entailing = {} /\ contradicting = {} /\ neutral # {}
    <3>1. PICK most \in 0..100 : most = Highest(rows, neutral)
      BY <1>1, <2>5, HighestIs, Zenon
    <3>2. WithModel(d, rows) = Assessed("unsupported", most, "local_nli_neutral")
      BY <2>5, <3>1 DEF WithModel, entailing, contradicting, neutral
    <3>3. "local_nli_neutral" \in Reasons
      BY <1>4 DEF OfModel
    <3>4. LET v == Assessed("unsupported", most, "local_nli_neutral") IN
          v \in PartKinds /\ v.verdict = "unsupported"
      <4>1. most \in Nat
        OBVIOUS
      <4> QED
        BY <3>3, <4>1, AssessedIs, SMTT(30)
    <3> QED
      BY <2>5, <3>2, <3>4
  <2>6. CASE d.reason \notin OfRules /\ entailing = {} /\ contradicting = {} /\ neutral = {}
    <3>1. PICK most \in 0..100 : most = Highest(rows, DOMAIN rows)
      BY <1>2, HighestIs, Zenon
    <3>2. WithModel(d, rows) = Assessed("unverifiable", most, "local_nli_below_acceptance_threshold")
      BY <2>6, <3>1 DEF WithModel, entailing, contradicting, neutral
    <3>3. "local_nli_below_acceptance_threshold" \in Reasons
      BY <1>4 DEF OfModel
    <3>4. LET v == Assessed("unverifiable", most, "local_nli_below_acceptance_threshold") IN
          v \in PartKinds /\ v.verdict = "unverifiable"
      <4>1. most \in Nat
        OBVIOUS
      <4> QED
        BY <3>3, <4>1, AssessedIs, SMTT(30)
    <3> QED
      BY <3>2, <3>4
  <2> QED
    BY <2>1, <2>2, <2>3, <2>4, <2>5, <2>6
<1>6. /\ \A i \in entailing : rows[i].label = "entailment" /\ rows[i].score >= 70
      /\ \A i \in contradicting : rows[i].label = "contradiction" /\ rows[i].score >= 80
      /\ \A i \in neutral : rows[i].label = "neutral" /\ rows[i].score >= 70
      /\ \A i \in DOMAIN rows : rows[i].label = "contradiction" /\ rows[i].score >= 80 => i \in contradicting
      /\ \A i \in DOMAIN rows : rows[i].label = "entailment" /\ rows[i].score >= 70 => i \in entailing
  BY DEF Accepted
<1> HIDE DEF w, entailing, contradicting, neutral
<1>7. /\ a \in PartKinds /\ a.verdict = w.verdict /\ a.confidence = w.confidence
      /\ a.reason = w.reason /\ a.heard = rows
  <2> DEFINE H == Seq(Rows)
  <2>1. rows \in H
    OBVIOUS
  <2>2. w \in PartKinds
    BY <1>5
  <2> HIDE DEF H
  <2> QED
    BY <2>1, <2>2 DEF PartKinds, H
<1> HIDE DEF a
<1>8. \A n \in {70, 80} : w.verdict = "supported" /\ w.reason \notin OfRules /\ (n = 80 => w.confidence >= 80)
                            => IsEntailed(a, n)
  BY <1>1, <1>5, <1>6, <1>7 DEF IsEntailed
<1>9. Cautious(a)
  BY <1>1, <1>5, <1>6, <1>7, <1>8 DEF Cautious, Sure
<1> QED
  BY <1>5, <1>7, <1>8, <1>9 DEF a, w

-----------------------------------------------------------------------------
(* The claims of a case, their parts and the texts chosen for them.        *)

LEMMA PartsAre ==
    ASSUME Promises, case \in Cases, NEW n \in DOMAIN case.claims, NEW c, c = case.claims[n]
    PROVE  /\ IsFiniteSet(DOMAIN case.texts) /\ DOMAIN case.texts \subseteq Nat
           /\ Len(c.parts) \in Nat /\ DOMAIN c.parts = 1..Len(c.parts)
           /\ Len(Parts(c)) \in Nat /\ DOMAIN Parts(c) = 1..Len(Parts(c))
           /\ Len(Parts(c)) <= Len(c.parts)
           /\ ByQuality => Parts(c) = c.parts
           /\ \A k \in DOMAIN case.texts :
                 /\ \A p \in DOMAIN c.parts : c.seen[p][k] \in Matches
                 /\ \A p \in 0..Len(c.parts) : c.score[p][k] \in 0..100
<1>1. IsCase(case)
  BY DEF Promises
<1>2. /\ IsFiniteSet(DOMAIN case.texts) /\ DOMAIN case.texts \subseteq Nat
      /\ Len(c.parts) \in Nat /\ DOMAIN c.parts = 1..Len(c.parts)
      /\ \A k \in DOMAIN case.texts :
            /\ \A p \in DOMAIN c.parts : c.seen[p][k] \in Matches
            /\ \A p \in 0..Len(c.parts) : c.score[p][k] \in 0..100
  BY <1>1 DEF IsCase
<1>3. PICK k \in Nat : k = Min({MaxRequirements, Len(c.parts)}) /\ k <= Len(c.parts)
  <2>1. {MaxRequirements, Len(c.parts)} \in SUBSET Nat /\ {MaxRequirements, Len(c.parts)} # {}
    BY <1>2 DEF Promises
  <2>2. /\ Min({MaxRequirements, Len(c.parts)}) \in {MaxRequirements, Len(c.parts)}
        /\ \A y \in {MaxRequirements, Len(c.parts)} : Min({MaxRequirements, Len(c.parts)}) <= y
    BY <2>1, MinIs, Zenon
  <2> QED
    BY <2>1, <2>2, Zenon
<1>4. PICK S : S = {c.parts[i] : i \in 1..k}
  OBVIOUS
<1>5. /\ SubSeq(c.parts, 1, k) \in Seq(S)
      /\ Len(SubSeq(c.parts, 1, k)) = IF 1 <= k THEN k - 1 + 1 ELSE 0
  <2>1. \A i \in 1..k : c.parts[i] \in S
    BY <1>4
  <2> QED
    BY <2>1, SubSeqProperties
<1>6. Len(SubSeq(c.parts, 1, k)) = k /\ DOMAIN SubSeq(c.parts, 1, k) = 1..k
  BY <1>3, <1>5
<1>7. Parts(c) = IF ByQuality THEN c.parts ELSE SubSeq(c.parts, 1, k)
  BY <1>3 DEF Parts
<1>8. CASE ByQuality
  <2>1. Parts(c) = c.parts
    BY <1>7, <1>8
  <2>2. Len(Parts(c)) = Len(c.parts) /\ Len(c.parts) <= Len(c.parts)
    BY <1>2, <2>1
  <2> QED
    BY <1>2, <2>1, <2>2, Zenon
<1>9. CASE ~ByQuality
  <2>1. Parts(c) = SubSeq(c.parts, 1, k)
    BY <1>7, <1>9
  <2>2. Len(Parts(c)) = k /\ DOMAIN Parts(c) = 1..Len(Parts(c))
    BY <1>6, <2>1
  <2> QED
    BY <1>2, <1>3, <1>9, <2>2
<1> QED
  BY <1>8, <1>9

LEMMA ChosenAre ==
    ASSUME NEW c, NEW p, IsFiniteSet(DOMAIN case.texts)
    PROVE  /\ Chosen(c, p) \in SUBSET DOMAIN case.texts
           /\ ByQuality => Chosen(c, p) \subseteq Bears(c.whole, c.score[0])
           /\ Cardinality(Chosen(c, p)) \in Nat
           /\ Cardinality(Chosen(c, p)) = 0 <=> Chosen(c, p) = {}
<1>1. /\ Chosen(c, p) \in SUBSET DOMAIN case.texts
      /\ ByQuality => Chosen(c, p) \subseteq Bears(c.whole, c.score[0])
  BY DEF Chosen, Select, Bears
<1>2. IsFiniteSet(Chosen(c, p))
  BY <1>1, FS_Subset
<1> QED
  BY <1>1, <1>2, FS_CardinalityType, FS_EmptySet

LEMMA SameCase ==
    ASSUME case' = case
    PROVE  /\ ByQuality' = ByQuality
           /\ \A c : Parts(c)' = Parts(c)
           /\ \A c, p : Chosen(c, p)' = Chosen(c, p)
           /\ \A c, p, a : PartHolds(c, p, a)' = PartHolds(c, p, a)
           /\ \A c, r : ClaimHolds(c, r)' = ClaimHolds(c, r)
<1>1. ByQuality' = ByQuality
  BY DEF ByQuality
<1>2. ASSUME NEW c PROVE Parts(c)' = Parts(c)
  BY <1>1 DEF Parts
<1>3. ASSUME NEW s, NEW score PROVE Bears(s, score)' = Bears(s, score)
  BY DEF Bears
<1>4. ASSUME NEW s, NEW score, NEW limit PROVE Select(s, score, limit)' = Select(s, score, limit)
  BY <1>3 DEF Select, IsAhead
<1>5. ASSUME NEW c, NEW p PROVE Chosen(c, p)' = Chosen(c, p)
  BY <1>1, <1>4 DEF Chosen
<1>6. ASSUME NEW c, NEW p, NEW a PROVE PartHolds(c, p, a)' = PartHolds(c, p, a)
  <2>1. Backed(c, p, a)' = Backed(c, p, a)
    BY <1>3, <1>5 DEF Backed
  <2> QED
    BY <1>1, <1>5, <2>1 DEF PartHolds
<1>7. ASSUME NEW c, NEW r PROVE ClaimHolds(c, r)' = ClaimHolds(c, r)
  BY <1>1, <1>2, <1>6 DEF ClaimHolds
<1> QED
  BY <1>1, <1>2, <1>5, <1>6, <1>7

\* The assessment of a part has what its verdict takes.
LEMMA PartEarned ==
    ASSUME Promises, case \in Cases, ByQuality, NEW n \in DOMAIN case.claims,
           NEW c, c = case.claims[n], NEW p \in DOMAIN c.parts, NEW rows \in Seq(Rows),
           case.model => Len(rows) = Cardinality(Chosen(c, p)),
           NEW d, d = Deterministic(c, p, Chosen(c, p)),
           NEW a, a = IF rows = <<>> THEN d ELSE [WithModel(d, rows) EXCEPT !.heard = rows]
    PROVE  a \in PartKinds /\ PartHolds(c, p, a)
<1>1. /\ IsFiniteSet(DOMAIN case.texts) /\ DOMAIN case.texts \subseteq Nat
      /\ 0 \in 0..Len(c.parts)
      /\ \A k \in DOMAIN case.texts : c.seen[p][k] \in Matches /\ c.score[0][k] \in 0..100
  <2>1. /\ IsFiniteSet(DOMAIN case.texts) /\ DOMAIN case.texts \subseteq Nat /\ Len(c.parts) \in Nat
        /\ \A k \in DOMAIN case.texts :
              /\ \A q \in DOMAIN c.parts : c.seen[q][k] \in Matches
              /\ \A q \in 0..Len(c.parts) : c.score[q][k] \in 0..100
    BY PartsAre, Zenon
  <2>2. 0 \in 0..Len(c.parts)
    BY <2>1
  <2> QED
    BY <2>1, <2>2
<1>2. PICK chosen \in SUBSET DOMAIN case.texts : chosen = Chosen(c, p)
  BY <1>1, ChosenAre
<1>3. None \notin Verdicts /\ Scores \subseteq 0..100
  BY DEF Promises
<1>4. /\ d \in PartKinds /\ d.heard = <<>>
      /\ d.reason \notin OfRules =>
            (case.rules => Unopposed(c.parts[p], {case.texts[k] : k \in chosen}))
      /\ d.verdict = "supported" =>
            /\ d.reason \notin OfRules
            /\ \E k \in chosen : c.seen[p][k].matched > 0 \/ c.seen[p][k].score >= 62
  BY <1>1, <1>2, <1>3, TextsSpeak
<1>5. CASE rows = <<>>
  <2>1. a = d
    BY <1>5
  <2>2. case.model => chosen = {}
    BY <1>1, <1>2, <1>5, ChosenAre
  <2>3. chosen \subseteq Bears(c.whole, c.score[0])
    BY <1>1, <1>2, ChosenAre
  <2>4. a.verdict = "supported" => Backed(c, p, a)
    BY <1>2, <1>4, <2>1, <2>2, <2>3 DEF Backed
  <2>5. Cautious(a)
    BY <1>4, <2>1 DEF Cautious
  <2> QED
    BY <1>4, <2>1, <2>4, <2>5 DEF PartHolds
<1>6. CASE rows # <<>>
  <2>1. a = [WithModel(d, rows) EXCEPT !.heard = rows]
    BY <1>6
  <2>2. /\ a \in PartKinds /\ Cautious(a)
        /\ a.verdict = "supported" =>
              \/ d.reason \in OfRules /\ d.verdict = "supported"
              \/ d.reason \notin OfRules /\ (a.confidence >= 80 => IsEntailed(a, 80))
    BY <1>3, <1>4, <1>6, <2>1, ModelSpeaks
  <2>3. a.verdict = "supported" => Backed(c, p, a)
    BY <1>2, <1>4, <2>2 DEF Backed
  <2> QED
    BY <2>2, <2>3 DEF PartHolds
<1> QED
  BY <1>5, <1>6

LEMMA CoverageIs ==
    ASSUME NEW e \in 0..100, NEW x \in 0..100, e + x <= 100
    PROVE  Coverage(e, x) \in RequirementKinds
<1>1. PICK most \in 0..100 : most = Max({100 - e - x, 100 - e})
  <2>1. {100 - e - x, 100 - e} \in SUBSET (0..100) /\ {100 - e - x, 100 - e} # {}
    OBVIOUS
  <2>2. Max({100 - e - x, 100 - e}) \in {100 - e - x, 100 - e}
    BY <2>1, MaxIs, Zenon
  <2> QED
    BY <2>1, <2>2, Zenon
<1> QED
  BY <1>1 DEF Coverage, RequirementKinds, Statuses

-----------------------------------------------------------------------------
(* The verdict on a claim.                                                 *)

LEMMA LowestIs ==
    ASSUME NEW A, A # {}, \A a \in A : a.confidence \in Nat
    PROVE  Lowest(A) \in Nat /\ \A a \in A : a.confidence >= Lowest(A)
<1>1. PICK S : S = {a.confidence : a \in A}
  OBVIOUS
<1>2. S \in SUBSET Nat /\ S # {}
  BY <1>1
<1>3. Min(S) \in S /\ \A y \in S : Min(S) <= y
  BY <1>2, MinIs
<1>4. Lowest(A) = Min(S)
  BY <1>1 DEF Lowest
<1>5. ASSUME NEW a \in A PROVE a.confidence >= Min(S)
  <2>1. a.confidence \in S
    BY <1>1
  <2> QED
    BY <1>2, <1>3, <2>1
<1> QED
  BY <1>2, <1>3, <1>4, <1>5

\* A claim is supported when each of its parts is, and no more surely than each.
LEMMA AggregateIs ==
    ASSUME NEW s \in Seq(PartKinds)
    PROVE  /\ Aggregate(s).verdict \in Verdicts
           /\ Aggregate(s).verdict = "supported" =>
                 /\ s # <<>> /\ Aggregate(s).confidence \in Nat
                 /\ \A i \in DOMAIN s : s[i].verdict = "supported"
                                        /\ s[i].confidence >= Aggregate(s).confidence
<1>1. PICK A : A = Each(s)
  OBVIOUS
<1>2. /\ \A i \in DOMAIN s : s[i] \in A
      /\ \A a \in A : a \in PartKinds
  BY <1>1 DEF Each
<1>3. \A a \in A : a.confidence \in Nat
  BY <1>2 DEF PartKinds
<1>4. Aggregate(s).verdict \in Verdicts
  BY DEF Aggregate, Verdicts
<1>5. ASSUME Aggregate(s).verdict = "supported"
      PROVE  A # {} /\ {a \in A : a.verdict = "supported"} = A /\ Aggregate(s).confidence = Lowest(A)
  BY <1>1, <1>5 DEF Aggregate
<1>6. ASSUME Aggregate(s).verdict = "supported"
      PROVE  /\ s # <<>> /\ Aggregate(s).confidence \in Nat
             /\ \A i \in DOMAIN s : s[i].verdict = "supported"
                                    /\ s[i].confidence >= Aggregate(s).confidence
  <2>1. A # {} /\ (\A a \in A : a.verdict = "supported") /\ Aggregate(s).confidence = Lowest(A)
    BY <1>5, <1>6
  <2>2. Lowest(A) \in Nat /\ \A a \in A : a.confidence >= Lowest(A)
    BY <1>3, <2>1, LowestIs
  <2>3. s # <<>>
    BY <1>1, <2>1 DEF Each
  <2> QED
    BY <1>2, <2>1, <2>2, <2>3
<1> QED
  BY <1>4, <1>6

LEMMA AggregateCoverageIs ==
    ASSUME NEW s \in Seq(RequirementKinds)
    PROVE  /\ AggregateCoverage(s).verdict \in Verdicts
           /\ AggregateCoverage(s).verdict = "supported" =>
                 /\ s # <<>> /\ AggregateCoverage(s).confidence \in Nat
                 /\ \A i \in DOMAIN s : s[i].status = "covered"
                                        /\ s[i].confidence >= AggregateCoverage(s).confidence
<1>1. PICK C : C = Each(s)
  OBVIOUS
<1>2. /\ \A i \in DOMAIN s : s[i] \in C
      /\ \A c \in C : c \in RequirementKinds
  BY <1>1 DEF Each
<1>3. \A c \in C : c.confidence \in Nat
  BY <1>2 DEF RequirementKinds
<1>4. AggregateCoverage(s).verdict \in Verdicts
  BY DEF AggregateCoverage, Verdicts
<1>5. ASSUME AggregateCoverage(s).verdict = "supported"
      PROVE  /\ C # {} /\ {c \in C : c.status = "covered"} = C
             /\ AggregateCoverage(s).confidence = Lowest(C)
  BY <1>1, <1>5 DEF AggregateCoverage
<1>6. ASSUME AggregateCoverage(s).verdict = "supported"
      PROVE  /\ s # <<>> /\ AggregateCoverage(s).confidence \in Nat
             /\ \A i \in DOMAIN s : s[i].status = "covered"
                                    /\ s[i].confidence >= AggregateCoverage(s).confidence
  <2>1. /\ C # {} /\ (\A c \in C : c.status = "covered")
        /\ AggregateCoverage(s).confidence = Lowest(C)
    BY <1>5, <1>6
  <2>2. Lowest(C) \in Nat /\ \A c \in C : c.confidence >= Lowest(C)
    BY <1>3, <2>1, LowestIs
  <2>3. s # <<>>
    BY <1>1, <2>1 DEF Each
  <2> QED
    BY <1>2, <2>1, <2>2, <2>3
<1> QED
  BY <1>4, <1>6

-----------------------------------------------------------------------------
(* The invariant at the start, and through every step.                     *)

LEMMA LocalStarts == Promises /\ Init => LocalInv
<1> SUFFICES ASSUME Promises, Init PROVE LocalInv
  OBVIOUS
<1>1. case \in Cases /\ answers = <<>> /\ assessments = <<>> /\ results = <<>> /\ failed = FALSE
  BY DEF Init
<1>2. Len(case.claims) \in Nat
  BY <1>1 DEF Promises, IsCase
<1>3. answers \in Seq(Rows) /\ assessments \in Seq(Kinds) /\ results \in Seq(ResultKinds)
  <2>1. \A S : <<>> \in Seq(S)
    OBVIOUS
  <2> QED
    BY <1>1, <2>1, Zenon
<1>4. LocalTypes
  BY <1>1, <1>3, Zenon DEF LocalTypes
<1> QED
  BY <1>1, <1>2, <1>4 DEF LocalInv

LEMMA ClaimIs ==
    ASSUME Promises, LocalInv, Working
    PROVE  /\ case \in Cases /\ Len(results) \in Nat /\ Len(case.claims) \in Nat
           /\ Len(results) + 1 \in DOMAIN case.claims /\ Claim = case.claims[Len(results) + 1]
<1>1. case \in Cases /\ Len(results) \in Nat
  BY DEF LocalInv, LocalTypes
<1>2. Len(case.claims) \in Nat /\ DOMAIN case.claims = 1..Len(case.claims)
  BY <1>1 DEF Promises, IsCase
<1> QED
  BY <1>1, <1>2 DEF Working, Claim

LEMMA StepStutters ==
    ASSUME LocalInv, case' = case, assessments' = assessments, results' = results,
           answers' \in Seq(Rows), answers' # <<>> => ByQuality /\ case.model, failed' \in BOOLEAN
    PROVE  LocalInv'
<1>1. Kinds' = Kinds
  BY DEF Kinds, ByQuality
<1>2. ResultKinds' = ResultKinds
  BY <1>1, Zenon DEF ResultKinds
<1>3. LocalTypes'
  BY <1>1, <1>2, Zenon DEF LocalInv, LocalTypes
<1>4. Claim' = Claim
  BY DEF Claim
<1>5. ASSUME NEW c \in {Claim'}, NEW p \in DOMAIN assessments', NEW a \in {assessments'[p]}
      PROVE  PartHolds(c, p, a)'
  <2>1. PartHolds(c, p, a)
    BY <1>4, <1>5 DEF LocalInv
  <2> QED
    BY <2>1, SameCase
<1>6. ASSUME NEW n \in DOMAIN results', NEW c \in {case'.claims[n]}, NEW r \in {results'[n]}
      PROVE  ClaimHolds(c, r)'
  <2>1. ClaimHolds(c, r)
    BY <1>6 DEF LocalInv
  <2> QED
    BY <2>1, SameCase
<1>7. /\ answers' # <<>> => ByQuality' /\ case'.model
      /\ Len(results') <= Len(case'.claims)
      /\ assessments' # <<>> => Len(results') < Len(case'.claims) /\ Len(assessments') <= Len(Parts(Claim)')
  BY <1>4, SameCase DEF LocalInv, Parts
<1> QED
  BY <1>3, <1>5, <1>6, <1>7 DEF LocalInv
LEMMA StepAsks == Promises /\ LocalInv /\ AskAboutText => LocalInv'
<1> SUFFICES ASSUME Promises, LocalInv, AskAboutText PROVE LocalInv'
  OBVIOUS
<1>1. /\ case' = case /\ assessments' = assessments /\ results' = results /\ failed' = failed
      /\ ByQuality /\ case.model
  BY DEF AskAboutText
<1>2. PICK label \in Labels, score \in Scores : answers' = Append(answers, [label |-> label, score |-> score])
  BY DEF AskAboutText
<1>3. PICK row \in Rows : row = [label |-> label, score |-> score]
  BY DEF Rows
<1>4. answers \in Seq(Rows) /\ failed \in BOOLEAN
  BY DEF LocalInv, LocalTypes
<1>5. answers' \in Seq(Rows)
  BY <1>2, <1>3, <1>4, AppendProperties
<1> QED
  BY <1>1, <1>4, <1>5, StepStutters

LEMMA StepFails == Promises /\ LocalInv /\ ModelFails => LocalInv'
<1> SUFFICES ASSUME Promises, LocalInv, ModelFails PROVE LocalInv'
  OBVIOUS
<1>1. /\ case' = case /\ answers' = answers /\ assessments' = assessments /\ results' = results
      /\ failed' \in BOOLEAN
  BY DEF ModelFails
<1>2. answers \in Seq(Rows) /\ (answers # <<>> => ByQuality /\ case.model)
  BY DEF LocalInv, LocalTypes
<1> QED
  BY <1>1, <1>2, StepStutters

\* A step that assesses the next part keeps the invariant if the assessment holds.
LEMMA StepOfPart ==
    ASSUME Promises, LocalInv, InPart, case' = case, results' = results, failed' = failed,
           answers' = <<>>, NEW a \in Kinds, assessments' = Append(assessments, a),
           NEW claim, claim = Claim, NEW part, part = Part, PartHolds(claim, part, a)
    PROVE  LocalInv'
<1>1. /\ assessments \in Seq(Kinds) /\ Len(assessments) \in Nat /\ DOMAIN assessments = 1..Len(assessments)
      /\ case \in Cases /\ results \in Seq(ResultKinds) /\ failed \in BOOLEAN
  BY DEF LocalInv, LocalTypes
<1>2. /\ assessments' \in Seq(Kinds) /\ Len(assessments') = Len(assessments) + 1
      /\ DOMAIN assessments' = 1..(Len(assessments) + 1)
      /\ \A i \in DOMAIN assessments : assessments'[i] = assessments[i]
      /\ assessments'[Len(assessments) + 1] = a
  BY <1>1, AppendProperties
<1>3. Kinds' = Kinds
  BY DEF Kinds, ByQuality
<1>4. ResultKinds' = ResultKinds
  BY <1>3, Zenon DEF ResultKinds
<1>5. <<>> \in Seq(Rows)
  OBVIOUS
<1>6. LocalTypes'
  BY <1>1, <1>2, <1>3, <1>4, <1>5, Zenon DEF LocalTypes
<1>7. Claim' = Claim
  BY DEF Claim
<1>8. ASSUME NEW c \in {Claim'}, NEW p \in DOMAIN assessments', NEW b \in {assessments'[p]}
      PROVE  PartHolds(c, p, b)'
  <2>1. PartHolds(c, p, b)
    <3>1. CASE p = Len(assessments) + 1
      BY <1>2, <1>7, <1>8, <3>1 DEF Part
    <3>2. CASE p \in DOMAIN assessments
      BY <1>2, <1>7, <1>8, <3>2 DEF LocalInv
    <3> QED
      BY <1>1, <1>2, <3>1, <3>2
  <2> QED
    BY <2>1, SameCase
<1>9. ASSUME NEW n \in DOMAIN results', NEW c \in {case'.claims[n]}, NEW r \in {results'[n]}
      PROVE  ClaimHolds(c, r)'
  <2>1. ClaimHolds(c, r)
    BY <1>9 DEF LocalInv
  <2> QED
    BY <2>1, SameCase
<1>10. Len(results') < Len(case'.claims) /\ Len(assessments') <= Len(Parts(claim)) /\ Len(results') <= Len(case'.claims)
  <2>1. /\ Len(results) < Len(case.claims) /\ Len(assessments) < Len(Parts(claim))
    BY DEF InPart, Working
  <2>2. Len(results) \in Nat /\ Len(case.claims) \in Nat /\ Len(Parts(claim)) \in Nat
    <3>1. /\ case \in Cases /\ Len(results) \in Nat /\ Len(case.claims) \in Nat
          /\ Len(results) + 1 \in DOMAIN case.claims /\ Claim = case.claims[Len(results) + 1]
      BY ClaimIs DEF InPart
    <3> QED
      BY <3>1, PartsAre
  <2> QED
    BY <1>1, <1>2, <2>1, <2>2
<1>11. Len(Parts(Claim)') = Len(Parts(claim))
  BY <1>7, SameCase DEF Parts, ByQuality
<1> QED
  BY <1>6, <1>8, <1>9, <1>10, <1>11 DEF LocalInv

LEMMA StepAssesses == Promises /\ LocalInv /\ AssessPart => LocalInv'
<1> SUFFICES ASSUME Promises, LocalInv, AssessPart PROVE LocalInv'
  OBVIOUS
<1>1. PICK c : c = Claim
  OBVIOUS
<1>2. PICK p : p = Part
  OBVIOUS
<1>3. PICK d : d = Deterministic(c, p, Chosen(c, p))
  OBVIOUS
<1>4. PICK rows \in Seq(Rows) : rows = answers
  BY DEF LocalInv, LocalTypes
<1>5. PICK a : a = IF rows = <<>> THEN d ELSE [WithModel(d, rows) EXCEPT !.heard = rows]
  OBVIOUS
<1>6. /\ InPart /\ ByQuality /\ case' = case /\ results' = results /\ failed' = failed /\ answers' = <<>>
      /\ case.model => Len(rows) = Cardinality(Chosen(c, p))
      /\ assessments' = Append(assessments, a)
  BY <1>1, <1>2, <1>3, <1>4, <1>5 DEF AssessPart
<1>7. /\ case \in Cases /\ Len(results) + 1 \in DOMAIN case.claims /\ c = case.claims[Len(results) + 1]
  BY <1>1, <1>6, ClaimIs DEF InPart
<1>8. p \in DOMAIN c.parts
  <2>1. /\ Len(c.parts) \in Nat /\ DOMAIN c.parts = 1..Len(c.parts) /\ Parts(c) = c.parts
    BY <1>6, <1>7, PartsAre
  <2>2. Len(assessments) \in Nat /\ Len(assessments) < Len(Parts(c))
    BY <1>1, <1>6 DEF InPart, LocalInv, LocalTypes
  <2> QED
    BY <1>2, <2>1, <2>2 DEF Part
<1>9. a \in PartKinds /\ PartHolds(c, p, a)
  BY <1>3, <1>5, <1>6, <1>7, <1>8, PartEarned
<1>10. a \in Kinds
  BY <1>6, <1>9 DEF Kinds
<1> QED
  BY <1>1, <1>2, <1>6, <1>9, <1>10, StepOfPart

LEMMA StepCovers == Promises /\ LocalInv /\ AssessRequirement => LocalInv'
<1> SUFFICES ASSUME Promises, LocalInv, AssessRequirement PROVE LocalInv'
  OBVIOUS
<1>1. PICK c : c = Claim
  OBVIOUS
<1>2. PICK p : p = Part
  OBVIOUS
<1>3. /\ InPart /\ ~ByQuality /\ case' = case /\ results' = results /\ failed' = failed /\ answers' = answers
  BY DEF AssessRequirement
<1>4. answers' = <<>>
  BY <1>3 DEF LocalInv
<1>5. PICK a \in RequirementKinds :
         assessments' = Append(assessments, a) /\ (Chosen(c, p) = {} => a.status = "missing")
  <2>1. CASE Chosen(c, p) = {}
    <3>1. Uncovered \in RequirementKinds /\ Uncovered.status = "missing"
      BY DEF Uncovered, RequirementKinds, Statuses
    <3>2. assessments' = Append(assessments, Uncovered)
      BY <1>1, <1>2, <2>1 DEF AssessRequirement
    <3> QED
      BY <3>1, <3>2
  <2>2. CASE Chosen(c, p) # {}
    <3>1. PICK e \in Scores, x \in Scores : e + x <= 100 /\ assessments' = Append(assessments, Coverage(e, x))
      BY <1>1, <1>2, <2>2 DEF AssessRequirement
    <3>2. e \in 0..100 /\ x \in 0..100
      BY DEF Promises
    <3>3. Coverage(e, x) \in RequirementKinds
      BY <3>1, <3>2, CoverageIs
    <3> QED
      BY <2>2, <3>1, <3>3
  <2> QED
    BY <2>1, <2>2
<1>6. PartHolds(c, p, a)
  BY <1>3, <1>5 DEF PartHolds
<1>7. a \in Kinds
  BY <1>3, <1>5 DEF Kinds
<1> QED
  BY <1>1, <1>2, <1>3, <1>4, <1>5, <1>6, <1>7, StepOfPart

\* The verdict on a claim has what the verdicts on its parts have.
LEMMA VerdictEarned ==
    ASSUME NEW c, NEW s \in Seq(Kinds), Len(s) = Len(Parts(c)),
           \A p \in DOMAIN s : \A a \in {s[p]} : PartHolds(c, p, a),
           NEW v, v = IF ByQuality THEN Aggregate(s) ELSE AggregateCoverage(s),
           NEW review \in BOOLEAN, v.confidence < (IF ByQuality THEN 80 ELSE 75) => review,
           NEW r, r = [verdict |-> v.verdict, review |-> review,
                       automatic |-> v.verdict = "supported" /\ ~review, parts |-> s]
    PROVE  r \in ResultKinds /\ ClaimHolds(c, r)
<1>1. r.parts = s /\ r.verdict = v.verdict /\ (r.automatic => v.verdict = "supported" /\ ~review)
  OBVIOUS
<1>2. CASE ByQuality
  <2>1. s \in Seq(PartKinds) /\ v = Aggregate(s)
    BY <1>2 DEF Kinds
  <2>2. /\ v.verdict \in Verdicts
        /\ v.verdict = "supported" =>
              /\ s # <<>> /\ v.confidence \in Nat
              /\ \A i \in DOMAIN s : s[i].verdict = "supported" /\ s[i].confidence >= v.confidence
    BY <2>1, AggregateIs
  <2>3. \A i \in DOMAIN s : s[i].confidence \in Nat
    <3>1. \A a \in PartKinds : a.confidence \in Nat
      BY DEF PartKinds
    <3>2. \A i \in DOMAIN s : s[i] \in PartKinds
      BY <2>1
    <3> QED
      BY <3>1, <3>2
  <2>4. r.automatic => s # <<>> /\ v.confidence \in Nat /\ v.confidence >= 80
    BY <1>1, <1>2, <2>2
  <2>5. r \in ResultKinds
    BY <2>2 DEF ResultKinds
  <2>6. ClaimHolds(c, r)
    <3>1. ASSUME NEW p \in DOMAIN r.parts, NEW a \in {r.parts[p]}
          PROVE  /\ PartHolds(c, p, a)
                 /\ r.verdict = "supported" => a.verdict = "supported"
                 /\ r.automatic => a.verdict = "supported" /\ a.confidence >= 80
      BY <1>1, <2>2, <2>3, <2>4, <3>1
    <3> QED
      BY <1>1, <1>2, <2>4, <3>1 DEF ClaimHolds
  <2> QED
    BY <2>5, <2>6
<1>3. CASE ~ByQuality
  <2>1. s \in Seq(RequirementKinds) /\ v = AggregateCoverage(s)
    BY <1>3 DEF Kinds
  <2>2. /\ v.verdict \in Verdicts
        /\ v.verdict = "supported" =>
              /\ s # <<>> /\ v.confidence \in Nat
              /\ \A i \in DOMAIN s : s[i].status = "covered" /\ s[i].confidence >= v.confidence
    BY <2>1, AggregateCoverageIs
  <2>3. \A i \in DOMAIN s : s[i].confidence \in Nat
    <3>1. \A a \in RequirementKinds : a.confidence \in Nat
      BY DEF RequirementKinds
    <3>2. \A i \in DOMAIN s : s[i] \in RequirementKinds
      BY <2>1
    <3> QED
      BY <3>1, <3>2
  <2>4. r.automatic => s # <<>> /\ v.confidence \in Nat /\ v.confidence >= 75
    BY <1>1, <1>3, <2>2
  <2>5. r \in ResultKinds
    BY <2>2 DEF ResultKinds
  <2>6. ClaimHolds(c, r)
    <3>1. ASSUME NEW p \in DOMAIN r.parts, NEW a \in {r.parts[p]}
          PROVE  /\ PartHolds(c, p, a)
                 /\ r.automatic => a.status = "covered" /\ a.confidence >= 75
      BY <1>1, <2>2, <2>3, <2>4, <3>1
    <3> QED
      BY <1>1, <1>3, <2>4, <3>1 DEF ClaimHolds
  <2> QED
    BY <2>5, <2>6
<1> QED
  BY <1>2, <1>3

LEMMA StepConcludes == Promises /\ LocalInv /\ ConcludeClaim => LocalInv'
<1> SUFFICES ASSUME Promises, LocalInv, ConcludeClaim PROVE LocalInv'
  OBVIOUS
<1>1. /\ Working /\ Len(assessments) = Len(Parts(Claim)) /\ assessments' = <<>>
      /\ case' = case /\ answers' = answers /\ failed' = failed
  BY DEF ConcludeClaim
<1>2. PICK claim : claim = Claim
  OBVIOUS
<1>3. PICK s \in Seq(Kinds) : s = assessments
  BY DEF LocalInv, LocalTypes
<1>4. PICK v : v = IF ByQuality THEN Aggregate(s) ELSE AggregateCoverage(s)
  OBVIOUS
<1>5. PICK review \in BOOLEAN :
         review = (\/ v.verdict = "unverifiable"
                   \/ ByQuality /\ \E i \in DOMAIN s : s[i].conflict
                   \/ v.confidence < IF ByQuality THEN 80 ELSE 75)
  OBVIOUS
<1>6. PICK r : r = [verdict |-> v.verdict, review |-> review,
                    automatic |-> v.verdict = "supported" /\ ~review, parts |-> s]
  OBVIOUS
<1>7. results' = Append(results, r)
  BY <1>3, <1>4, <1>5, <1>6 DEF ConcludeClaim
<1>8. r \in ResultKinds /\ ClaimHolds(claim, r)
  <2>1. \A p \in DOMAIN s : \A a \in {s[p]} : PartHolds(claim, p, a)
    BY <1>2, <1>3 DEF LocalInv
  <2>2. Len(s) = Len(Parts(claim))
    BY <1>1, <1>2, <1>3
  <2>3. v.confidence < (IF ByQuality THEN 80 ELSE 75) => review
    BY <1>5
  <2> QED
    BY <1>4, <1>6, <2>1, <2>2, <2>3, VerdictEarned
<1>9. /\ results \in Seq(ResultKinds) /\ Len(results) \in Nat /\ DOMAIN results = 1..Len(results)
      /\ case \in Cases /\ answers \in Seq(Rows) /\ failed \in BOOLEAN
      /\ answers # <<>> => ByQuality /\ case.model
  BY DEF LocalInv, LocalTypes
<1>10. /\ results' \in Seq(ResultKinds) /\ Len(results') = Len(results) + 1
       /\ DOMAIN results' = 1..(Len(results) + 1)
       /\ \A n \in DOMAIN results : results'[n] = results[n]
       /\ results'[Len(results) + 1] = r
  BY <1>7, <1>8, <1>9, AppendProperties
<1>11. Kinds' = Kinds
  BY <1>1 DEF Kinds, ByQuality
<1>12. ResultKinds' = ResultKinds
  BY <1>11, Zenon DEF ResultKinds
<1>13. LocalTypes'
  <2>1. \A S : <<>> \in Seq(S)
    OBVIOUS
  <2>2. assessments' \in Seq(Kinds')
    BY <1>1, <2>1
  <2> QED
    BY <1>1, <1>9, <1>10, <1>12, <2>2, Zenon DEF LocalTypes
<1>14. ASSUME NEW n \in DOMAIN results', NEW c \in {case'.claims[n]}, NEW q \in {results'[n]}
       PROVE  ClaimHolds(c, q)'
  <2>1. ClaimHolds(c, q)
    <3>1. CASE n = Len(results) + 1
      <4>1. c = claim /\ q = r
        BY <1>1, <1>2, <1>10, <1>14, <3>1 DEF Claim
      <4> QED
        BY <1>8, <4>1
    <3>2. CASE n \in DOMAIN results
      BY <1>1, <1>10, <1>14, <3>2 DEF LocalInv
    <3> QED
      BY <1>9, <1>10, <3>1, <3>2
  <2> QED
    BY <1>1, <2>1, SameCase
<1>15. Len(results') <= Len(case'.claims)
  <2>1. Len(case.claims) \in Nat /\ Len(results) < Len(case.claims)
    BY <1>1, ClaimIs DEF Working
  <2> QED
    BY <1>1, <1>9, <1>10, <2>1
<1>16. answers' # <<>> => ByQuality' /\ case'.model
  BY <1>1, <1>9 DEF ByQuality
<1>17. DOMAIN assessments' = {}
  BY <1>1
<1> QED
  BY <1>1, <1>13, <1>14, <1>15, <1>16, <1>17 DEF LocalInv

LEMMA LocalMoves == Promises /\ LocalInv /\ [Next]_vars => LocalInv'
<1>1. ASSUME LocalInv, UNCHANGED vars PROVE LocalInv'
  <2>1. /\ case' = case /\ answers' = answers /\ assessments' = assessments /\ results' = results
        /\ failed' = failed
    BY <1>1 DEF vars
  <2>2. answers \in Seq(Rows) /\ failed \in BOOLEAN /\ (answers # <<>> => ByQuality /\ case.model)
    BY <1>1 DEF LocalInv, LocalTypes
  <2> QED
    BY <1>1, <2>1, <2>2, StepStutters
<1> QED
  BY <1>1, StepAsks, StepFails, StepAssesses, StepCovers, StepConcludes DEF Next

-----------------------------------------------------------------------------
(* What the invariant is for.                                              *)

LEMMA ConcludedIs ==
    ASSUME Promises, LocalInv, NEW n \in DOMAIN results, NEW r, r = results[n],
           NEW c, c = case.claims[n]
    PROVE  /\ case \in Cases /\ n \in DOMAIN case.claims /\ r \in ResultKinds /\ ClaimHolds(c, r)
           /\ Len(r.parts) = Len(Parts(c)) /\ DOMAIN r.parts = DOMAIN Parts(c)
<1>1. /\ case \in Cases /\ results \in Seq(ResultKinds) /\ Len(results) <= Len(case.claims)
      /\ ClaimHolds(c, r)
  BY DEF LocalInv, LocalTypes
<1>2. Len(case.claims) \in Nat /\ DOMAIN case.claims = 1..Len(case.claims)
  BY <1>1 DEF Promises, IsCase
<1>3. n \in DOMAIN case.claims /\ r \in ResultKinds
  BY <1>1, <1>2
<1>4. Len(r.parts) = Len(Parts(c))
  BY <1>1 DEF ClaimHolds
<1>5. DOMAIN r.parts = 1..Len(r.parts)
  BY <1>3 DEF ResultKinds
<1>6. DOMAIN Parts(c) = 1..Len(Parts(c))
  BY <1>1, <1>3, PartsAre
<1> QED
  BY <1>1, <1>3, <1>4, <1>5, <1>6

LEMMA SupportIsBacked == Promises /\ LocalInv => AutomaticSupportIsEarned
<1> SUFFICES ASSUME Promises, LocalInv, ByQuality, NEW n \in DOMAIN results, results[n].automatic
             PROVE  LET c == case.claims[n]
                        K == Bears(c.whole, c.score[0])
                        Fits == Cardinality(K) <= MaxSpans IN
                    /\ c.parts # <<>>
                    /\ \A p \in DOMAIN c.parts :
                          /\ \/ IsEntailed(results[n].parts[p], 80)
                             \/ ~case.model /\ \E k \in K : c.seen[p][k].matched > 0 \/ c.seen[p][k].score >= 62
                          /\ case.rules /\ Fits =>
                                /\ \A k \in K : ~Opposes(c.parts[p], case.texts[k])
                                /\ ~PolarityConflict(c.parts[p], {case.texts[k] : k \in K})
  BY DEF AutomaticSupportIsEarned
<1>1. PICK r : r = results[n]
  OBVIOUS
<1>2. PICK c : c = case.claims[n]
  OBVIOUS
<1>3. PICK K : K = Bears(c.whole, c.score[0])
  OBVIOUS
<1>4. /\ case \in Cases /\ n \in DOMAIN case.claims /\ r \in ResultKinds /\ ClaimHolds(c, r)
      /\ Len(r.parts) = Len(Parts(c)) /\ DOMAIN r.parts = DOMAIN Parts(c)
  BY <1>1, <1>2, ConcludedIs
<1>5. /\ IsFiniteSet(DOMAIN case.texts) /\ DOMAIN case.texts \subseteq Nat
      /\ Len(c.parts) \in Nat /\ Parts(c) = c.parts
      /\ \A k \in DOMAIN case.texts : \A p \in 0..Len(c.parts) : c.score[p][k] \in 0..100
  BY <1>2, <1>4, PartsAre, Zenon
<1>6. r.automatic /\ r.parts # <<>>
  BY <1>1, <1>4 DEF ClaimHolds
<1>7. c.parts # <<>>
  <2>1. r.parts \in Seq(Kinds)
    BY <1>4 DEF ResultKinds
  <2>2. Len(r.parts) # 0
    BY <1>6, <2>1, EmptySeq
  <2> QED
    BY <1>4, <1>5, <2>2
<1>8. ASSUME NEW p \in DOMAIN c.parts
      PROVE  /\ \/ IsEntailed(r.parts[p], 80)
                \/ ~case.model /\ \E k \in K : c.seen[p][k].matched > 0 \/ c.seen[p][k].score >= 62
             /\ case.rules => Unopposed(c.parts[p], {case.texts[k] : k \in Chosen(c, p)})
  <2>1. PICK a : a = r.parts[p]
    OBVIOUS
  <2>2. p \in DOMAIN r.parts
    BY <1>4, <1>5
  <2>3. PartHolds(c, p, a) /\ a.verdict = "supported" /\ a.confidence >= 80
    BY <1>4, <1>6, <2>1, <2>2 DEF ClaimHolds
  <2>4. Backed(c, p, a)
    BY <2>3 DEF PartHolds
  <2> QED
    BY <1>3, <2>1, <2>3, <2>4 DEF Backed
<1>9. ASSUME NEW p, Cardinality(K) <= MaxSpans
      PROVE  Chosen(c, p) = K
  <2>1. \A k \in DOMAIN case.texts : c.score[0][k] \in 0..100
    BY <1>5
  <2>2. MaxSpans \in Nat
    BY DEF Promises
  <2>3. Select(c.whole, c.score[0], MaxSpans) = Bears(c.whole, c.score[0])
    BY <1>3, <1>5, <1>9, <2>1, <2>2, SelectsAll
  <2> QED
    BY <1>3, <2>3 DEF Chosen
<1>10. ASSUME NEW p \in DOMAIN c.parts, case.rules, Cardinality(K) <= MaxSpans
       PROVE  /\ \A k \in K : ~Opposes(c.parts[p], case.texts[k])
              /\ ~PolarityConflict(c.parts[p], {case.texts[k] : k \in K})
  <2>1. Unopposed(c.parts[p], {case.texts[k] : k \in K})
    BY <1>8, <1>9, <1>10
  <2> QED
    BY <2>1 DEF Unopposed
<1>11. ASSUME NEW p \in DOMAIN c.parts
       PROVE  /\ \/ IsEntailed(results[n].parts[p], 80)
                 \/ ~case.model /\ \E k \in K : c.seen[p][k].matched > 0 \/ c.seen[p][k].score >= 62
              /\ case.rules /\ Cardinality(K) <= MaxSpans =>
                    /\ \A k \in K : ~Opposes(c.parts[p], case.texts[k])
                    /\ ~PolarityConflict(c.parts[p], {case.texts[k] : k \in K})
  BY <1>1, <1>8, <1>10, ZenonT(40)
<1> QED
  BY <1>2, <1>3, <1>7, <1>11, Zenon

LEMMA CautionHolds == Promises /\ LocalInv => UnsureModelDecidesNothing
<1> SUFFICES ASSUME Promises, LocalInv, ByQuality,
                    NEW n \in DOMAIN results, NEW p \in DOMAIN results[n].parts,
                    NEW a, a = results[n].parts[p], a.heard # <<>>, a.reason \notin OfRules
             PROVE  /\ a.verdict = "supported" => IsEntailed(a, 70)
                    /\ a.verdict = "contradicted" => Sure(a, "contradiction", 80) /\ ~Sure(a, "entailment", 70)
                    /\ a.verdict = "unsupported" => Sure(a, "neutral", 70) \/ Sure(a, "contradiction", 80)
                    /\ a.verdict = "unverifiable" => results[n].verdict # "supported"
  BY SMTT(30) DEF UnsureModelDecidesNothing, Sure
<1>1. PICK r : r = results[n]
  OBVIOUS
<1>2. PICK c : c = case.claims[n]
  OBVIOUS
<1>3. ClaimHolds(c, r)
  BY <1>1, <1>2, ConcludedIs
<1>4. PartHolds(c, p, a) /\ (r.verdict = "supported" => a.verdict = "supported")
  BY <1>1, <1>3 DEF ClaimHolds
<1>5. Cautious(a)
  BY <1>4 DEF PartHolds
<1> QED
  BY <1>1, <1>4, <1>5 DEF Cautious

LEMMA CoverIsEarned == Promises /\ LocalInv => CoveredPartsAreEarned
<1> SUFFICES ASSUME Promises, LocalInv, ~ByQuality, NEW n \in DOMAIN results, results[n].automatic
             PROVE  LET c == case.claims[n] IN
                    /\ c.parts # <<>>
                    /\ \A p \in DOMAIN Parts(c) : /\ results[n].parts[p].status = "covered"
                                                  /\ results[n].parts[p].confidence >= 75
                                                  /\ Chosen(c, p) # {}
  BY DEF CoveredPartsAreEarned
<1>1. PICK r : r = results[n]
  OBVIOUS
<1>2. PICK c : c = case.claims[n]
  OBVIOUS
<1>3. /\ case \in Cases /\ n \in DOMAIN case.claims /\ r \in ResultKinds /\ ClaimHolds(c, r)
      /\ Len(r.parts) = Len(Parts(c)) /\ DOMAIN r.parts = DOMAIN Parts(c)
  BY <1>1, <1>2, ConcludedIs
<1>4. r.automatic /\ r.parts # <<>>
  BY <1>1, <1>3 DEF ClaimHolds
<1>5. c.parts # <<>>
  <2>1. Len(c.parts) \in Nat /\ Len(Parts(c)) \in Nat /\ Len(Parts(c)) <= Len(c.parts)
    BY <1>2, <1>3, PartsAre
  <2>2. r.parts \in Seq(Kinds)
    BY <1>3 DEF ResultKinds
  <2>3. Len(r.parts) # 0
    BY <1>4, <2>2, EmptySeq
  <2> QED
    BY <1>3, <2>1, <2>3
<1>6. ASSUME NEW p \in DOMAIN Parts(c)
      PROVE  /\ r.parts[p].status = "covered" /\ r.parts[p].confidence >= 75
             /\ Chosen(c, p) # {}
  <2>1. PICK a : a = r.parts[p]
    OBVIOUS
  <2>2. PartHolds(c, p, a) /\ a.status = "covered" /\ a.confidence >= 75
    BY <1>3, <1>4, <2>1 DEF ClaimHolds
  <2> QED
    BY <2>1, <2>2 DEF PartHolds
<1> QED
  BY <1>1, <1>2, <1>5, <1>6

LEMMA LocalInvHolds ==
    ASSUME Promises
    PROVE  Spec => []LocalInv
<1>1. Init => LocalInv
  BY LocalStarts
<1>2. LocalInv /\ [Next]_vars => LocalInv'
  BY LocalMoves
<1> QED
  BY <1>1, <1>2, PTL DEF Spec

\* What the judges keep is of its kind, whatever the cases and the answers.
THEOREM LocalTypesHold ==
    ASSUME Promises
    PROVE  Spec => []LocalTypes
<1>1. LocalInv => LocalTypes
  BY DEF LocalInv
<1> QED
  BY <1>1, LocalInvHolds, PTL

\* What local_quality supports without review is supported in each of its parts, and
\* opposed by none of the texts that bear on the claim, if the selection has room for
\* them (AutomaticSupportIsEarned).
THEOREM LocalSupportIsEarned ==
    ASSUME Promises
    PROVE  Spec => []AutomaticSupportIsEarned
<1>1. LocalInv => AutomaticSupportIsEarned
  BY SupportIsBacked
<1> QED
  BY <1>1, LocalInvHolds, PTL

\* A model that is unsure decides nothing, whatever it answers on whichever texts
\* (UnsureModelDecidesNothing).
THEOREM LocalModelIsCautious ==
    ASSUME Promises
    PROVE  Spec => []UnsureModelDecidesNothing
<1>1. LocalInv => UnsureModelDecidesNothing
  BY CautionHolds
<1> QED
  BY <1>1, LocalInvHolds, PTL

\* What atomic_coverage covers without review, the model covers surely in each
\* requirement, on texts selected for it (CoveredPartsAreEarned).
THEOREM LocalCoverIsEarned ==
    ASSUME Promises
    PROVE  Spec => []CoveredPartsAreEarned
<1>1. LocalInv => CoveredPartsAreEarned
  BY CoverIsEarned
<1> QED
  BY <1>1, LocalInvHolds, PTL

=============================================================================
