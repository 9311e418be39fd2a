----------------------------- MODULE LocalJudges -----------------------------
(***************************************************************************)
(* The two experimental judges that stay on the machine.                   *)
(* verify/local_quality.LocalQualityJudge selects the texts that bear on a *)
(* claim, splits the claim into parts, lets relation rules and then the    *)
(* analysis of the words assess each part, asks a local model about every  *)
(* pair of a part and a text when it has one, and puts the parts together. *)
(* verify/atomic_coverage.AtomicCoverageJudge selects texts for each part, *)
(* and asks the model once whether they cover it.                          *)
(*                                                                         *)
(* The words are abstracted to what the rules see: the topics of a claim,  *)
(* a part or a text, its numbers of the one unit that matters, its signs;  *)
(* and to the score and match of ClaimVerdict that the analysis gives.     *)
(* Confidences are percents.  A decision of the rules has its own; for the *)
(* analysis of the words it is the least it can be, which is what the      *)
(* thresholds are compared with.                                           *)
(***************************************************************************)
EXTENDS ClaimVerdict, Sequences, FiniteSetsExt

CONSTANTS
    Cases,             \* the traces verified: see Case below
    MaxSpans,          \* LocalQualityProfile.max_evidence_spans
    PerRequirement,    \* AtomicCoverageProfile.spans_per_requirement
    MaxRequirements,   \* AtomicCoverageProfile.maximum_requirements
    Scores             \* the percents the model may answer with

VARIABLES
    case,          \* the trace, the judge and its profile
    answers,       \* the model's answers about the current part so far
    assessments,   \* of the parts of the current claim so far
    results,       \* one record for every claim verified
    failed         \* the model failed, and with it the verification

vars == <<case, answers, assessments, results, failed>>

(***************************************************************************)
(* A case: [judge, model (there is one), rules, texts, claims].  A claim:  *)
(* [whole, parts, score, seen]; score[0] is how the texts score for the    *)
(* query and the whole claim, score[p] for the query and part p; seen[p]   *)
(* is the match of part p with each text.                                  *)
(***************************************************************************)
Statement == [topics : SUBSET STRING, values : SUBSET Nat, negated : BOOLEAN,
              universal : BOOLEAN, exact : BOOLEAN]
Text == [topics : SUBSET STRING, values : SUBSET Nat, negated : BOOLEAN, absence : BOOLEAN,
         approximate : BOOLEAN, exclusion : BOOLEAN, qualifier : BOOLEAN]

Labels == {"entailment", "contradiction", "neutral"}
Statuses == {"covered", "missing", "contradicted"}

\* What the analysis of the words promises: scores are percents, of every part with
\* every text and of the texts with the query.
IsCase(t) ==
    /\ IsFiniteSet(DOMAIN t.texts) /\ DOMAIN t.texts \subseteq Nat
    /\ Len(t.claims) \in Nat /\ DOMAIN t.claims = 1..Len(t.claims)
    /\ \A n \in DOMAIN t.claims :
          LET c == t.claims[n] IN
          /\ Len(c.parts) \in Nat /\ DOMAIN c.parts = 1..Len(c.parts)
          /\ \A k \in DOMAIN t.texts :
                /\ \A p \in DOMAIN c.parts : c.seen[p][k] \in Matches
                /\ \A p \in 0..Len(c.parts) : c.score[p][k] \in 0..100

Promises ==
    /\ None \notin Verdicts
    /\ \A t \in Cases : IsCase(t)
    /\ Scores \subseteq 0..100
    /\ MaxSpans \in Nat /\ PerRequirement \in Nat /\ MaxRequirements \in Nat

-----------------------------------------------------------------------------
(* What a text says of a statement.                                        *)

Shared(s, t) == Cardinality(s.topics \cap t.topics)

NumericConflict(s, t) ==
    Shared(s, t) >= 2 /\ s.values # {} /\ t.values # {} /\ s.values \cap t.values = {}
ExplicitAbsence(s, t) == t.absence /\ Shared(s, t) >= 1
ApproximateForExact(s, t) == s.exact /\ t.approximate /\ Shared(s, t) >= 1
UniversalExcluded(s, t) == s.universal /\ t.exclusion /\ Shared(s, t) >= 2
UniversalQualified(s, t) == s.universal /\ t.qualifier /\ ~t.exclusion /\ Shared(s, t) >= 1
PossibleNegation(s, t) == s.negated # t.negated /\ Shared(s, t) >= 2
NegationConflict(s, t) == PossibleNegation(s, t) /\ ~t.absence

\* _evidence_polarity_conflict: one text affirms what another denies.
PolarityConflict(s, texts) ==
    LET OnTopic == {t \in texts : Shared(s, t) >= 2 /\ ~t.absence} IN
    (\E t \in OnTopic : t.negated) /\ (\E t \in OnTopic : ~t.negated)

-----------------------------------------------------------------------------
(* select_local_evidence: the first texts of a statement, the most         *)
(* relevant first, and in the order of the contexts where they are alike.  *)

Relevance(s, t, score) ==
    Max({score} \cup {bonus \in {40, 45, 55} :
            \/ bonus = 45 /\ ExplicitAbsence(s, t)
            \/ bonus = 55 /\ NumericConflict(s, t)
            \/ bonus = 40 /\ (PossibleNegation(s, t) \/ UniversalQualified(s, t))})

Bears(s, score) == {k \in DOMAIN case.texts : Relevance(s, case.texts[k], score[k]) > 0}

IsAhead(s, score, j, k) ==
    LET R(i) == Relevance(s, case.texts[i], score[i]) IN R(j) > R(k) \/ (R(j) = R(k) /\ j < k)

Select(s, score, limit) ==
    {k \in Bears(s, score) : Cardinality({j \in Bears(s, score) : IsAhead(s, score, j, k)}) < limit}

-----------------------------------------------------------------------------
(* The assessment of a part by rules and words.                            *)

Assessed(verdict, confidence, reason) ==
    [verdict |-> verdict, confidence |-> confidence, reason |-> reason, conflict |-> FALSE,
     heard |-> <<>>]

\* find_best_evidence: of the texts selected for claim c, the first that scores best.
BestOf(c, seen, chosen) ==
    CHOOSE k \in chosen :
        \A j \in chosen \ {k} :
            \/ seen[j].score < seen[k].score
            \/ seen[j].score = seen[k].score /\ IsAhead(c.whole, c.score[0], k, j)

\* The relation rules, the first that speaks; None when none does.
ByRules(s, texts) ==
    IF \E t \in texts : NumericConflict(s, t) THEN Assessed("contradicted", 96, "numeric_value_conflict")
    ELSE IF PolarityConflict(s, texts)
        THEN [Assessed("unverifiable", 70, "conflicting_selected_evidence") EXCEPT !.conflict = TRUE]
    ELSE IF \E t \in texts : ExplicitAbsence(s, t)
        THEN Assessed("unsupported", 94, "evidence_explicitly_omits_asserted_detail")
    ELSE IF \E t \in texts : ApproximateForExact(s, t)
        THEN Assessed("unverifiable", 70, "approximate_evidence_for_exact_claim")
    ELSE IF \E t \in texts : UniversalExcluded(s, t)
        THEN Assessed("contradicted", 94, "explicit_universal_exclusion")
    ELSE IF \E t \in texts : UniversalQualified(s, t)
        THEN Assessed("unverifiable", 72, "qualified_evidence_for_universal_claim")
    ELSE IF \E t \in texts : NegationConflict(s, t)
        THEN Assessed("contradicted", 94, "explicit_negation_conflict")
    ELSE Assessed(None, 0, None)

ByWords(m) ==
    LET raw == Verdict(m, TRUE, "semantic", TRUE) IN
    IF raw = "supported" THEN Assessed("supported", 82, "deterministic_support")
    ELSE IF raw = "contradicted" THEN Assessed("unsupported", 80, "unconfirmed_legacy_conflict")
    ELSE IF raw = "unsupported" THEN Assessed("unsupported", 80, "insufficient_support")
    ELSE IF m.matched > 0 THEN Assessed("supported", 80, "deterministic_atom_support")
    ELSE Assessed("unsupported", 80, "related_but_not_entailed")

OfRules == {"numeric_value_conflict", "conflicting_selected_evidence",
            "evidence_explicitly_omits_asserted_detail", "approximate_evidence_for_exact_claim",
            "explicit_universal_exclusion", "qualified_evidence_for_universal_claim",
            "explicit_negation_conflict"}

\* Mutation: where the words support the part, no rule is asked.
WordsBeforeRules(c, p, chosen) ==
    LET ruled == ByRules(c.parts[p], {case.texts[k] : k \in chosen})
        worded == ByWords(c.seen[p][BestOf(c, c.seen[p], chosen)]) IN
    IF chosen = {} THEN Assessed("unsupported", 95, "no_selected_evidence")
    ELSE IF case.rules /\ ruled.verdict # None /\ worded.verdict # "supported" THEN ruled
    ELSE worded

\* _deterministic_assessment
Deterministic(c, p, chosen) ==
    LET ruled == ByRules(c.parts[p], {case.texts[k] : k \in chosen}) IN
    IF chosen = {} THEN Assessed("unsupported", 95, "no_selected_evidence")
    ELSE IF case.rules /\ ruled.verdict # None THEN ruled
    ELSE ByWords(c.seen[p][BestOf(c, c.seen[p], chosen)])

-----------------------------------------------------------------------------
(* The model's answers on the texts, and the assessment they lead to.      *)

\* Mutation: an answer is taken by its label, however unsure.
AcceptedByLabel(rows, label) == {i \in DOMAIN rows : rows[i].label = label}

Accepted(rows, label) ==
    {i \in DOMAIN rows : rows[i].label = label
                         /\ rows[i].score >= IF label = "contradiction" THEN 80 ELSE 70}

Highest(rows, I) == Max({rows[i].score : i \in I})

\* _resolve_atom_with_nli
WithModel(d, rows) ==
    LET entailing == Accepted(rows, "entailment")
        contradicting == Accepted(rows, "contradiction")
        neutral == Accepted(rows, "neutral") IN
    IF d.reason \in OfRules THEN d
    ELSE IF entailing # {} /\ contradicting # {}
        THEN [Assessed("unverifiable", 70, "nli_detected_conflicting_evidence") EXCEPT !.conflict = TRUE]
    ELSE IF entailing # {} THEN Assessed("supported", Highest(rows, entailing), "local_nli_entailment")
    ELSE IF contradicting # {} /\ d.verdict = "unsupported"
        THEN Assessed("unsupported", Min({94, Highest(rows, contradicting)}),
                      "nli_contradiction_not_confirmed_by_local_relation")
    ELSE IF contradicting # {}
        THEN Assessed("contradicted", Highest(rows, contradicting), "local_nli_contradiction")
    ELSE IF neutral # {} THEN Assessed("unsupported", Highest(rows, neutral), "local_nli_neutral")
    ELSE Assessed("unverifiable", Highest(rows, DOMAIN rows), "local_nli_below_acceptance_threshold")

\* The status of a requirement from the model's distribution over the labels.
Coverage(entailment, contradiction) ==
    IF contradiction >= 70 /\ contradiction > entailment
        THEN [status |-> "contradicted", confidence |-> contradiction]
    ELSE IF entailment >= 70 THEN [status |-> "covered", confidence |-> entailment]
    ELSE [status |-> "missing",
          confidence |-> Max({100 - entailment - contradiction, 100 - entailment})]

Uncovered == [status |-> "missing", confidence |-> 100]

-----------------------------------------------------------------------------
(* The verdict on a claim from those on its parts.                         *)

Each(seq) == {seq[i] : i \in DOMAIN seq}
Lowest(A) == Min({a.confidence : a \in A})
Greatest(A) == Max({a.confidence : a \in A})

\* _aggregate
Aggregate(assessed) ==
    LET A == Each(assessed)
        With(verdict) == {a \in A : a.verdict = verdict} IN
    IF A = {} THEN [verdict |-> "unverifiable", confidence |-> 0]
    ELSE IF \E a \in A : a.conflict THEN [verdict |-> "unverifiable", confidence |-> 70]
    ELSE IF With("contradicted") # {}
        THEN [verdict |-> "contradicted", confidence |-> Greatest(With("contradicted"))]
    ELSE IF With("supported") = A THEN [verdict |-> "supported", confidence |-> Lowest(A)]
    ELSE IF With("supported") # {}
        THEN [verdict |-> "partially_supported", confidence |-> Min({92, Max({80, Lowest(A)})})]
    ELSE IF With("unverifiable") # {}
        THEN [verdict |-> "unverifiable", confidence |-> Greatest(With("unverifiable"))]
    ELSE [verdict |-> "unsupported", confidence |-> Lowest(A)]

\* Mutation: requirements no text was found for do not count.
AggregateCovered(coverage) ==
    LET C == {c \in Each(coverage) : c.status # "missing"} IN
    IF C = {} THEN [verdict |-> "unverifiable", confidence |-> 0]
    ELSE IF \E c \in C : c.status = "contradicted" THEN [verdict |-> "contradicted", confidence |-> Greatest(C)]
    ELSE [verdict |-> "supported", confidence |-> Lowest(C)]

\* aggregate_coverage
AggregateCoverage(coverage) ==
    LET C == Each(coverage)
        With(status) == {c \in C : c.status = status} IN
    IF C = {} THEN [verdict |-> "unverifiable", confidence |-> 0]
    ELSE IF With("contradicted") # {}
        THEN [verdict |-> "contradicted", confidence |-> Greatest(With("contradicted"))]
    ELSE IF With("covered") = C THEN [verdict |-> "supported", confidence |-> Lowest(C)]
    ELSE IF With("covered") # {}
        THEN [verdict |-> "partially_supported", confidence |-> Lowest(With("covered"))]
    ELSE [verdict |-> "unsupported", confidence |-> Lowest(With("missing"))]

-----------------------------------------------------------------------------
ByQuality == case.judge = "quality"

Working == ~failed /\ Len(results) < Len(case.claims)
Claim == case.claims[Len(results) + 1]

\* decompose_material_claim, or the first requirements of decompose_atomic_requirements.
Parts(c) == IF ByQuality THEN c.parts ELSE SubSeq(c.parts, 1, Min({MaxRequirements, Len(c.parts)}))

InPart == Working /\ Len(assessments) < Len(Parts(Claim))
Part == Len(assessments) + 1

\* The texts part p is assessed on.
Chosen(c, p) ==
    IF ByQuality THEN Select(c.whole, c.score[0], MaxSpans)
    ELSE Select(c.parts[p], c.score[p], PerRequirement)

Init ==
    /\ case \in Cases
    /\ answers = <<>> /\ assessments = <<>> /\ results = <<>> /\ failed = FALSE

\* _nli_rows: the model is asked about the part and the next text.
AskAboutText ==
    /\ InPart /\ ByQuality /\ case.model /\ Len(answers) < Cardinality(Chosen(Claim, Part))
    /\ \E label \in Labels, score \in Scores :
          answers' = Append(answers, [label |-> label, score |-> score])
    /\ UNCHANGED <<case, assessments, results, failed>>

\* _assess_atom
AssessPart ==
    /\ InPart /\ ByQuality
    /\ LET chosen == Chosen(Claim, Part)
           d == Deterministic(Claim, Part, chosen) IN
       /\ case.model => Len(answers) = Cardinality(chosen)
       /\ assessments' = Append(assessments,
             IF answers = <<>> THEN d ELSE [WithModel(d, answers) EXCEPT !.heard = answers])
    /\ answers' = <<>>
    /\ UNCHANGED <<case, results, failed>>

\* _assess_requirement
AssessRequirement ==
    /\ InPart /\ ~ByQuality
    /\ IF Chosen(Claim, Part) = {}
         THEN assessments' = Append(assessments, Uncovered)
         ELSE \E entailment, contradiction \in Scores :
                /\ entailment + contradiction <= 100
                /\ assessments' = Append(assessments, Coverage(entailment, contradiction))
    /\ UNCHANGED <<case, answers, results, failed>>

\* The model raises, or answers without a label or its three scores.
ModelFails ==
    /\ InPart /\ case.model /\ Len(answers) < Cardinality(Chosen(Claim, Part))
    /\ failed' = TRUE
    /\ UNCHANGED <<case, answers, assessments, results>>

\* The end of verify_claim, and the claim's row of verify_trace_local_quality.
ConcludeClaim ==
    /\ Working /\ Len(assessments) = Len(Parts(Claim))
    /\ LET verdict == IF ByQuality THEN Aggregate(assessments) ELSE AggregateCoverage(assessments)
           review == \/ verdict.verdict = "unverifiable"
                     \/ ByQuality /\ \E i \in DOMAIN assessments : assessments[i].conflict
                     \/ verdict.confidence < IF ByQuality THEN 80 ELSE 75 IN
       results' = Append(results, [verdict |-> verdict.verdict, review |-> review,
                                   automatic |-> verdict.verdict = "supported" /\ ~review,
                                   parts |-> assessments])
    /\ assessments' = <<>>
    /\ UNCHANGED <<case, answers, failed>>

Next == AskAboutText \/ AssessPart \/ AssessRequirement \/ ModelFails \/ ConcludeClaim

Spec == Init /\ [][Next]_vars

-----------------------------------------------------------------------------
(* Properties.                                                             *)

\* The text speaks against the statement, or leaves out what it says.
Opposes(s, t) ==
    \/ NumericConflict(s, t) \/ ExplicitAbsence(s, t) \/ ApproximateForExact(s, t)
    \/ UniversalExcluded(s, t) \/ UniversalQualified(s, t) \/ NegationConflict(s, t)

\* The model entails part a of a claim at least this surely and never contradicts it.
IsEntailed(a, score) ==
    /\ \E i \in DOMAIN a.heard : a.heard[i].label = "entailment" /\ a.heard[i].score >= score
    /\ \A i \in DOMAIN a.heard : ~(a.heard[i].label = "contradiction" /\ a.heard[i].score >= 80)

\* A claim supported without review has parts, and each of them is supported by
\* itself: by the words of a text, or by a model that is sure and meets no
\* contradiction.  If all the texts that bear on the claim fit the selection, none
\* of them speaks against a part, nor do two against each other (verify_claim,
\* _assess_atom, _aggregate).
AutomaticSupportIsEarned ==
    \A n \in DOMAIN results : results[n].automatic /\ ByQuality =>
        LET c == case.claims[n]
            K == Bears(c.whole, c.score[0])
            Fits == Cardinality(K) <= MaxSpans IN
        /\ c.parts # <<>>
        /\ \A p \in DOMAIN c.parts :
              /\ \/ IsEntailed(results[n].parts[p], 80)
                 \/ ~case.model /\ \E k \in K : c.seen[p][k].matched > 0 \/ c.seen[p][k].score >= 62
              /\ case.rules /\ Fits =>
                    /\ \A k \in K : ~Opposes(c.parts[p], case.texts[k])
                    /\ ~PolarityConflict(c.parts[p], {case.texts[k] : k \in K})

\* What no rule decides, the model decides only with an answer it is sure of and
\* no sure answer to the contrary; without one the part is unverifiable, and a
\* claim that rests on such a part is not shown without review
\* (_resolve_atom_with_nli).
UnsureModelDecidesNothing ==
    \A n \in DOMAIN results : \A p \in DOMAIN results[n].parts :
        LET a == results[n].parts[p]
            Sure(label, score) == \E i \in DOMAIN a.heard :
                                    a.heard[i].label = label /\ a.heard[i].score >= score IN
        ByQuality /\ a.heard # <<>> /\ a.reason \notin OfRules =>
            /\ a.verdict = "supported" => IsEntailed(a, 70)
            /\ a.verdict = "contradicted" => Sure("contradiction", 80) /\ ~Sure("entailment", 70)
            /\ a.verdict = "unsupported" => Sure("neutral", 70) \/ Sure("contradiction", 80)
            /\ a.verdict = "unverifiable" => results[n].verdict # "supported"

\* Of a claim that is covered without review, the model covers every requirement
\* that is looked at, surely and on a text that was selected for it; there is at
\* least one (_assess_requirement, aggregate_coverage).
CoveredPartsAreEarned ==
    \A n \in DOMAIN results : ~ByQuality /\ results[n].automatic =>
        LET c == case.claims[n] IN
        /\ c.parts # <<>>
        /\ \A p \in DOMAIN Parts(c) : /\ results[n].parts[p].status = "covered"
                                      /\ results[n].parts[p].confidence >= 75
                                      /\ Chosen(c, p) # {}
=============================================================================
