-------------------------- MODULE SemanticCoreProofs --------------------------
(***************************************************************************)
(* Proofs about SemanticCore, for every set of traces whose analysis keeps *)
(* its promises (IsTrace) and every confidence of the model.  First what   *)
(* the pure operators promise: the text, the model and its guards, the     *)
(* source, the diagnosis.  Then the invariant: what each result says has   *)
(* its ground in the text, or in a call of the model about its words.      *)
(***************************************************************************)
EXTENDS SemanticCore, FiniteSetTheorems, SequenceTheorems, TLAPS

Labels == {"entailment", "contradiction", "neutral", "failed", "group_unresolved"}
Replies == [verdict : Verdicts \cup {"failed"}, label : Labels, confidence : Nat, grouped : BOOLEAN]
Decisions == [verdict : Verdicts, confidence : Nat]
Routes == {"deterministic", "unresolved", "nli", "agreement", "disagreement"}
Resolutions == [verdict : Verdicts, confidence : Nat, route : Routes, abstained : BOOLEAN]
Citations == {"not_applicable", "missing", "malformed", "correct", "partial", "wrong_source"}
Failures == {"none", "source_condition_failure", "citation_mismatch", "contradiction",
             "answer_overreach", "context_selection_error", "retrieval_miss",
             "insufficient_evidence", "should_have_abstained"}
Roots == {"none", "stale_or_superseded_source", "noncanonical_or_low_authority_source",
          "conflicting_contexts", "citation_mismatch", "answer_overreach", "chunking_issue",
          "insufficient_selected_context", "reranking_failure", "retrieval_miss", "corpus_gap",
          "not_observable", "failure_to_abstain"}
Requirements == {"must_answer", "must_abstain", "may_answer_with_qualification"}
Results == [verdict : Verdicts, confidence : Nat, route : Routes, abstained : BOOLEAN,
            condition : Conditions, requirement : Requirements, qualified : BOOLEAN,
            failure : Failures, root : Roots, green : BOOLEAN,
            nli : Replies \cup {None}, citation : Citations, text : Verdicts]

-----------------------------------------------------------------------------
(* Numbers.                                                                *)

LEMMA MinOfTwo ==
    ASSUME NEW a \in Nat, NEW b \in Nat
    PROVE  Min({a, b}) \in Nat /\ Min({a, b}) <= a /\ Min({a, b}) <= b
<1>1. \E x \in {a, b} : \A y \in {a, b} : x <= y
  <2>1. CASE a <= b BY <2>1
  <2>2. CASE b <= a BY <2>2
  <2> QED BY <2>1, <2>2
<1>2. Min({a, b}) \in {a, b} /\ \A y \in {a, b} : Min({a, b}) <= y
  BY <1>1, Zenon DEF Min
<1> QED BY <1>2

LEMMA MaxOfTwo ==
    ASSUME NEW a \in Nat, NEW b \in Nat
    PROVE  Max({a, b}) \in Nat
<1>1. \E x \in {a, b} : \A y \in {a, b} : x >= y
  <2>1. CASE a >= b BY <2>1
  <2>2. CASE b >= a BY <2>2
  <2> QED BY <2>1, <2>2
<1>2. Max({a, b}) \in {a, b}
  BY <1>1, Zenon DEF Max
<1> QED BY <1>2

-----------------------------------------------------------------------------
(* The text.                                                               *)

LEMMA VerdictKinds ==
    ASSUME NEW m, NEW has, NEW mode, NEW checks
    PROVE  Verdict(m, has, mode, checks) \in Verdicts
BY DEF Verdict, Verdicts

LEMMA DecisionKinds ==
    ASSUME NEW t, NEW c
    PROVE  DeterministicDecision(t, c) \in Decisions /\ Decision(t, c) \in Decisions
<1>1. DeterministicDecision(t, c) \in Decisions
  BY DEF DeterministicDecision, Decisions, Verdicts
<1>2. [verdict |-> "unverifiable", confidence |-> IF t.contexts = {} THEN 99 ELSE 75] \in Decisions
  BY DEF Decisions, Verdicts
<1> QED BY <1>1, <1>2 DEF Decision

\* What the text is said to support is in the text.
LEMMA SupportIsInText ==
    ASSUME NEW t, NEW c, c.match \in Matches, Decision(t, c).verdict = "supported"
    PROVE  IsInText(c)
<1>1. c.match.score \in 0..100
  BY DEF Matches
<1>2. Decision(t, c) = DeterministicDecision(t, c)
  BY DEF Decision
<1>3. DeterministicDecision(t, c).verdict = "supported" BY <1>2
<1>4. t.contexts # {} BY <1>3 DEF DeterministicDecision
<1>5. ~(HasConflict(c.match) /\ c.match.score >= 30)
  BY <1>3, <1>4 DEF DeterministicDecision
<1>6. \/ AllMatched(c.match) /\ ~c.match.conflicting /\ c.match.score >= 68
      \/ c.exact /\ c.match.score >= 62
  BY <1>3, <1>4, <1>5 DEF DeterministicDecision
<1> QED BY <1>1, <1>5, <1>6 DEF IsInText

\* A claim all of whose facts are found is never partially supported.
LEMMA MatchedIsNotPartial ==
    ASSUME NEW t, NEW c, AllMatched(c.match)
    PROVE  Decision(t, c).verdict # "partially_supported"
<1>1. Verdict(c.match, TRUE, "semantic", TRUE) # "partially_supported"
  BY DEF Verdict
<1>2. DeterministicDecision(t, c).verdict # "partially_supported"
  BY <1>1 DEF DeterministicDecision
<1> QED BY <1>2 DEF Decision
-----------------------------------------------------------------------------
(* The model.                                                              *)

LEMMA GuardedKinds ==
    ASSUME NEW v \in Replies, ~v.grouped, v.verdict # "failed",
           NEW conflict \in {"none", "contradicted", "unsupported"}, NEW risk
    PROVE  LET w == ConflictGuard(RiskGate(v, conflict, risk), conflict) IN
           w \in Replies /\ ~w.grouped /\ w.verdict # "failed"
<1> DEFINE r == RiskGate(v, conflict, risk)
<1>1. r \in Replies /\ ~r.grouped /\ r.verdict # "failed"
  BY DEF RiskGate, Replies, Labels, Verdicts
<1>2. r.confidence \in Nat
  BY <1>1 DEF Replies
<1> HIDE DEF r
<1>3. Max({90, r.confidence}) \in Nat
  BY <1>2, MaxOfTwo
<1>4. ConflictGuard(r, conflict) \in Replies /\ ~ConflictGuard(r, conflict).grouped
      /\ ConflictGuard(r, conflict).verdict # "failed"
  BY <1>1, <1>3 DEF ConflictGuard, Replies, Labels, Verdicts
<1> QED
  BY <1>4 DEF r

LEMMA ReplyKinds ==
    ASSUME Confidences \subseteq Nat, NEW v \in ModelVerdicts
    PROVE  /\ v \in Replies /\ ~v.grouped
           /\ v = Failed \/ v.verdict # "failed"
<1>1. CASE v = Failed
  BY <1>1 DEF Failed, Replies, Labels
<1>2. ASSUME NEW label \in {"entailment", "contradiction", "neutral"}, NEW p \in Confidences
      PROVE  /\ Labelled(label, p) \in Replies /\ ~Labelled(label, p).grouped
             /\ Labelled(label, p).verdict # "failed"
  <2>1. p \in Nat
    OBVIOUS
  <2> QED
    BY <2>1 DEF Labelled, Replies, Labels, Verdicts
<1>3. CASE \E label \in {"entailment", "contradiction", "neutral"}, p \in Confidences : v = Labelled(label, p)
  BY <1>2, <1>3
<1> DEFINE Bare == {Labelled(label, p) : label \in {"entailment", "contradiction", "neutral"},
                                       p \in Confidences}
           Guarded == {ConflictGuard(RiskGate(w, conflict, risk), conflict) :
                          w \in Bare, conflict \in {"none", "contradicted", "unsupported"},
                          risk \in {"low", "uncertain", "high"}}
<1>4. v = Failed \/ v \in Guarded \/ v \in Bare
  BY DEF ModelVerdicts
<1>5. CASE v \in Bare
  BY <1>3, <1>5
<1>6. CASE v \in Guarded
  <2>1. PICK w \in Bare, conflict \in {"none", "contradicted", "unsupported"},
             risk \in {"low", "uncertain", "high"} :
              v = ConflictGuard(RiskGate(w, conflict, risk), conflict)
    BY <1>6
  <2>2. PICK label \in {"entailment", "contradiction", "neutral"}, p \in Confidences : w = Labelled(label, p)
    OBVIOUS
  <2> QED
    BY <1>2, <2>1, <2>2, GuardedKinds
<1> QED
  BY <1>1, <1>4, <1>5, <1>6

LEMMA AcceptedKinds ==
    ASSUME NEW v \in Replies
    PROVE  /\ Accepted(v) \in {"supported", "contradicted", "unsupported", "none"}
           /\ Accepted(v) # "none" => v.label \in {"entailment", "contradiction", "neutral"}
BY DEF Accepted, Replies, Labels

\* A verdict that a member of a group takes over is the group's, which is sure.
LEMMA SharedKinds ==
    ASSUME NEW v \in Replies
    PROVE  /\ Shared(v) \in Replies /\ Shared(v).grouped
           /\ Accepted(Shared(v)) # "none" => IsEntailed(v) /\ Accepted(Shared(v)) = Accepted(v)
                                              /\ Shared(v).verdict = v.verdict
<1>1. CASE IsEntailed(v)
  <2>1. Shared(v) = [v EXCEPT !.grouped = TRUE]
    BY <1>1 DEF Shared
  <2>2. /\ Shared(v) \in Replies /\ Shared(v).grouped /\ Shared(v).label = v.label
        /\ Shared(v).confidence = v.confidence /\ Shared(v).verdict = v.verdict
    BY <2>1 DEF Replies
  <2> QED
    BY <1>1, <2>2 DEF Accepted
<1>2. CASE ~IsEntailed(v)
  BY <1>2 DEF Shared, Replies, Labels, Verdicts, Accepted
<1> QED
  BY <1>1, <1>2

-----------------------------------------------------------------------------
(* The cascade.                                                            *)

LEMMA UnresolvedKinds ==
    ASSUME NEW d \in Decisions
    PROVE  /\ Unresolved(d) \in Resolutions /\ Unresolved(d).confidence <= 79
           /\ ~Profile.forced => Unresolved(d).verdict = "unverifiable" /\ Unresolved(d).abstained
<1>1. d.confidence \in Nat /\ d.verdict \in Verdicts
  BY DEF Decisions
<1>2. Min({79, d.confidence}) \in Nat /\ Min({79, d.confidence}) <= 79
  BY <1>1, MinOfTwo
<1> QED
  BY <1>1, <1>2 DEF Unresolved, Resolved, Abstained, Resolutions, Routes, Verdicts

\* What is said without the model, and of what strength.
LEMMA UndisputedKinds ==
    ASSUME NEW d \in Decisions
    PROVE  LET r == Undisputed(d) IN
           /\ r \in Resolutions
           /\ r.verdict = "supported" /\ r.confidence >= 90 => d.verdict = "supported"
           /\ RequiresNli(trace, d) /\ ~Profile.forced => r.verdict = "unverifiable" /\ r.abstained
<1>1. CASE RequiresNli(trace, d)
  <2>1. Undisputed(d) = Unresolved(d)
    BY <1>1 DEF Undisputed
  <2>2. Unresolved(d).confidence \in Nat
    BY UnresolvedKinds DEF Resolutions
  <2>3. ~(Unresolved(d).confidence >= 90)
    BY <2>2, UnresolvedKinds
  <2> QED
    BY <2>1, <2>3, UnresolvedKinds
<1>2. CASE ~RequiresNli(trace, d)
  <2>1. Undisputed(d) = [verdict |-> d.verdict, confidence |-> d.confidence, route |-> "deterministic",
                         abstained |-> (d.verdict = "unverifiable")]
    BY <1>2 DEF Undisputed, Resolved
  <2>2. Undisputed(d) \in Resolutions /\ Undisputed(d).verdict = d.verdict
    BY <2>1 DEF Resolutions, Decisions, Routes
  <2> QED
    BY <1>2, <2>2
<1> QED
  BY <1>1, <1>2

\* What is said with the model's verdict v: support that is strong enough to be
\* shown is the model's own, and what the text leaves open is decided by v or not.
LEMMA ResolveKinds ==
    ASSUME NEW d \in Decisions, NEW v \in Replies, RequiresNli(trace, d)
    PROVE  LET r == Resolve(d, v) IN
           /\ r \in Resolutions
           /\ r.verdict = "supported" /\ ~r.abstained /\ r.confidence >= 90 =>
                 /\ r.route = "nli" /\ v.confidence >= 90
                 /\ d.verdict = "unverifiable" \/ v.grouped
           /\ ~Profile.forced =>
                 \/ r.verdict = "unverifiable" /\ r.abstained
                 \/ Accepted(v) # "none" /\ (r.verdict = Accepted(v) \/ Profile.prefer)
<1> DEFINE said == Accepted(v)
           both == Max({d.confidence, v.confidence})
           r == Resolve(d, v)
<1>1. /\ d.confidence \in Nat /\ v.confidence \in Nat
      /\ d.verdict \in {"partially_supported", "unverifiable"}
      /\ said \in {"supported", "contradicted", "unsupported", "none"}
  BY AcceptedKinds DEF Decisions, Replies, RequiresNli
<1>2. /\ Min({79, d.confidence}) \in Nat /\ Min({79, d.confidence}) <= 79
      /\ both \in Nat /\ Min({79, both}) \in Nat /\ Min({98, both}) \in Nat
  BY <1>1, MinOfTwo, MaxOfTwo
<1>3. CASE said = "none"
  <2>1. r = Unresolved(d)
    BY <1>3 DEF Resolve
  <2>2. Unresolved(d).confidence \in Nat
    BY UnresolvedKinds DEF Resolutions
  <2>3. ~(Unresolved(d).confidence >= 90)
    BY <2>2, UnresolvedKinds
  <2> QED
    BY <2>1, <2>3, UnresolvedKinds
<1>4. CASE said # "none" /\ (d.verdict = "unverifiable" \/ (said = "supported" /\ v.grouped))
  <2>1. r = [verdict |-> said, confidence |-> v.confidence, route |-> "nli", abstained |-> FALSE]
    BY <1>4 DEF Resolve, Resolved
  <2>2. r \in Resolutions
    BY <1>1, <1>4, <2>1 DEF Resolutions, Routes, Verdicts
  <2> QED
    BY <1>4, <2>1, <2>2
<1>5. CASE said # "none" /\ ~(d.verdict = "unverifiable" \/ (said = "supported" /\ v.grouped))
  <2>1. d.verdict # said
    BY <1>1
  <2>2. CASE Profile.prefer \/ Profile.forced
    <3>1. r = [verdict |-> d.verdict, confidence |-> Min({79, d.confidence}), route |-> "disagreement",
               abstained |-> FALSE]
      BY <1>5, <2>1, <2>2, Zenon DEF Resolve, Resolved
    <3>2. r \in Resolutions /\ r.verdict # "supported"
      BY <1>1, <1>2, <3>1 DEF Resolutions, Routes, Verdicts
    <3> QED
      BY <1>5, <2>2, <3>2
  <2>3. CASE ~(Profile.prefer \/ Profile.forced)
    <3>1. r = [verdict |-> "unverifiable", confidence |-> Min({79, both}), route |-> "disagreement",
               abstained |-> TRUE]
      BY <1>5, <2>1, <2>3, Zenon DEF Resolve, Abstained
    <3>2. r \in Resolutions
      BY <1>2, <3>1 DEF Resolutions, Routes, Verdicts
    <3> QED
      BY <3>1, <3>2
  <2> QED
    BY <2>2, <2>3
<1> QED
  BY <1>3, <1>4, <1>5

-----------------------------------------------------------------------------
(* The source.                                                             *)

LEMMA ConditionKinds ==
    ASSUME NEW src, NEW contexts, NEW k \in contexts, NEW clash,
           src[k].label \in Conditions \cup {""}
    PROVE  FrozenCondition(k, src, contexts) \in Conditions /\ Condition(k, clash, src, contexts) \in Conditions
<1>1. \A m, cur : Standing(m, cur) \in Conditions
  BY DEF Standing, Conditions
<1>2. FrozenCondition(k, src, contexts) \in Conditions
  BY <1>1 DEF FrozenCondition, Conditions
<1>3. Condition(k, clash, src, contexts) \in Conditions
  BY <1>1 DEF Condition, Conditions
<1> QED
  BY <1>2, <1>3

LEMMA ConditionsAreKinds ==
    ASSUME IsTrace(trace), NEW n \in DOMAIN trace.claims
    PROVE  FirstCondition(trace.claims[n]) \in Conditions /\ LastCondition(trace.claims[n]) \in Conditions
<1>1. CASE trace.claims[n].best = None
  BY <1>1 DEF FirstCondition, LastCondition, Conditions
<1>2. CASE trace.claims[n].best # None
  <2>1. trace.claims[n].best \in trace.contexts
    BY <1>2 DEF IsTrace
  <2>2. trace.source[trace.claims[n].best].label \in Conditions \cup {""}
    BY <2>1 DEF IsTrace
  <2> QED
    BY <2>1, <2>2, ConditionKinds DEF FirstCondition, LastCondition, Conditions
<1> QED
  BY <1>1, <1>2

\* For v2, a source that is in order says so itself, or nothing speaks against it.
LEMMA FrozenIsUncontested ==
    ASSUME NEW c, ~Profile.safety, FirstCondition(c) = "current_canonical"
    PROVE  IsUncontested(c, c.best) \/ trace.source[c.best].label = "current_canonical"
<1> DEFINE k == c.best
           m == trace.source[k]
<1>1. FrozenCondition(k, trace.source, trace.contexts) = "current_canonical"
  BY DEF FirstCondition
<1>2. CASE m.label \notin {"", "unknown"}
  BY <1>1, <1>2 DEF FrozenCondition
<1>3. CASE m.label \in {"", "unknown"}
  <2>1. /\ ~(m.label = "" /\ m.superseded)
        /\ ~\E j \in trace.contexts \ {k} : k \in trace.source[j].replaces
        /\ ~(m.disputed \/ m.conflicts \cap trace.contexts # {})
        /\ ~m.stale /\ ~IsLow(m)
        /\ Standing(m, IF m.stale \/ m.superseded THEN FALSE ELSE m.current) = "current_canonical"
    BY <1>1, <1>3 DEF FrozenCondition
  <2>2. ~m.superseded
    BY <2>1 DEF Standing
  <2> QED
    BY <2>1, <2>2 DEF IsUncontested
<1> QED
  BY <1>2, <1>3

\* For v2.1, nothing speaks against it.
LEMMA LastIsUncontested ==
    ASSUME IsTrace(trace), NEW n \in DOMAIN trace.claims,
           LastCondition(trace.claims[n]) = "current_canonical"
    PROVE  IsUncontested(trace.claims[n], trace.claims[n].best)
<1> DEFINE c == trace.claims[n]
           k == c.best
           m == trace.source[k]
           others == trace.contexts \ {k}
<1>1. k # None /\ Condition(k, c.clash, trace.source, trace.contexts) = "current_canonical"
  BY DEF LastCondition
<1>2. k \in trace.contexts
  BY <1>1 DEF IsTrace
<1>3. \A j \in trace.contexts : trace.source[j].version \in Nat
  BY DEF IsTrace
<1>4. /\ ~m.superseded /\ ~m.stale
      /\ ~IsReplaced(k, trace.source, trace.contexts)
      /\ Linked(k, trace.source, trace.contexts) = {}
      /\ Newer(k, trace.source, trace.contexts) = {}
      /\ ~(IsAuthoritative(m) /\ \E j \in c.clash \cap others : IsAuthoritative(trace.source[j]))
      /\ ~IsLow(m)
  <2> HIDE DEF m
  <2>1. ~(m.label = "superseded" \/ m.superseded) /\ ~(m.label = "stale" \/ m.stale)
    BY <1>1 DEF Condition, m
  <2>2. ~IsReplaced(k, trace.source, trace.contexts)
    BY <1>1 DEF Condition
  <2>3. Linked(k, trace.source, trace.contexts) = {}
    BY <1>1 DEF Condition
  <2>4. Newer(k, trace.source, trace.contexts) = {}
    BY <1>1 DEF Condition
  <2>5. ~(IsAuthoritative(m) /\ \E j \in c.clash \cap others : IsAuthoritative(trace.source[j]))
    BY <1>1 DEF Condition, m
  <2>6. ~IsLow(m)
    BY <1>1 DEF Condition, m
  <2> QED
    BY <2>1, <2>2, <2>3, <2>4, <2>5, <2>6
<1>5. ASSUME NEW j \in others
      PROVE  ~m.disputed /\ k \notin trace.source[j].replaces /\ j \notin m.replacedBy
             /\ k \notin trace.source[j].conflicts /\ j \notin m.conflicts
  BY <1>4, <1>5 DEF IsReplaced, Linked
<1>6. ASSUME NEW j \in others, m.lineage \cap trace.source[j].lineage # {}
      PROVE  m.version = 0 \/ trace.source[j].version <= m.version
  <2>1. ~IsNewer(m, trace.source[j])
    BY <1>4 DEF Newer
  <2>2. ~(m.version # 0 /\ trace.source[j].version > m.version)
    BY <1>6, <2>1 DEF IsNewer
  <2> QED
    BY <1>2, <1>3, <2>2
<1>7. ASSUME NEW j \in others
      PROVE  ~(j \in c.clash /\ m.canonical = TRUE /\ trace.source[j].canonical = TRUE)
  BY <1>4 DEF IsAuthoritative
<1> HIDE DEF m
<1> QED
  <2>1. ~m.stale /\ ~m.superseded /\ ~IsLow(m)
    BY <1>4
  <2>2. m.conflicts \cap others = {}
    BY <1>5
  <2> QED
    BY <1>5, <1>6, <1>7, <2>1, <2>2 DEF IsUncontested, m

-----------------------------------------------------------------------------
(* The diagnosis.                                                          *)

LEMMA CitationKinds ==
    ASSUME NEW c
    PROVE  /\ CitationState(c) \in Citations
           /\ CitationState(c) \in {"correct", "not_applicable"} => IsCitedWell(c)
BY DEF CitationState, Citations, IsCitedWell

LEMMA LabelKinds ==
    ASSUME trace.evidence \in Evidence,
           NEW verdict \in Verdicts, NEW citation \in Citations, NEW condition \in Conditions
    PROVE  FirstLabel(verdict, citation, condition) \in
              [failure : Failures, root : Roots, requirement : Requirements]
<1> DEFINE Kinds == [failure : Failures, root : Roots, requirement : Requirements]
<1>1. UnsupportedLabel \in Kinds
  BY DEF UnsupportedLabel, Label, Evidence, Failures, Roots, Requirements
<1>2. InsufficientRoot \in {"corpus_gap", "chunking_issue", "not_observable"}
  BY DEF InsufficientRoot
<1>3. CASE verdict = "supported" /\ condition \notin {"current_canonical", "unknown"}
  <2>1. condition \in {"stale", "superseded", "current_noncanonical", "low_authority", "conflicting_authorities"}
    BY <1>3 DEF Conditions
  <2> QED
    BY <1>3, <2>1 DEF FirstLabel, Label, Failures, Roots, Requirements
<1>4. CASE ~(verdict = "supported" /\ condition \notin {"current_canonical", "unknown"})
           /\ citation \in {"partial", "wrong_source", "missing", "malformed"}
  BY <1>4 DEF FirstLabel, Label, Failures, Roots, Requirements
<1>5. CASE ~(verdict = "supported" /\ condition \notin {"current_canonical", "unknown"})
           /\ citation \notin {"partial", "wrong_source", "missing", "malformed"}
  <2>1. CASE verdict = "contradicted"
    BY <1>5, <2>1 DEF FirstLabel, Label, Failures, Roots, Requirements
  <2>2. CASE verdict = "partially_supported"
    BY <1>5, <2>2 DEF FirstLabel, Label, Failures, Roots, Requirements
  <2>3. CASE verdict = "unsupported"
    <3>1. FirstLabel(verdict, citation, condition) = UnsupportedLabel
      BY <1>5, <2>3 DEF FirstLabel
    <3> QED
      BY <1>1, <3>1
  <2>4. CASE verdict = "unverifiable"
    BY <1>2, <1>5, <2>4 DEF FirstLabel, Label, Failures, Roots, Requirements
  <2>5. CASE verdict = "supported"
    BY <1>5, <2>5 DEF FirstLabel, Label, Failures, Roots, Requirements
  <2> QED
    BY <2>1, <2>2, <2>3, <2>4, <2>5 DEF Verdicts
<1> QED
  BY <1>3, <1>4, <1>5

\* What the diagnosis keeps, and when it shows a claim green.
LEMMA DiagnoseKinds ==
    ASSUME trace.evidence \in Evidence, NEW r \in Results, NEW condition \in Conditions
    PROVE  LET s == Diagnose(r, condition) IN
           /\ s \in Results
           /\ s.verdict = r.verdict /\ s.confidence = r.confidence /\ s.route = r.route
           /\ s.abstained = r.abstained /\ s.citation = r.citation /\ s.text = r.text
           /\ s.green => /\ ~s.abstained /\ s.verdict = "supported" /\ s.confidence >= 90
                         /\ s.citation \in {"correct", "not_applicable"}
                         /\ condition = "current_canonical"
<1> DEFINE l == FirstLabel(r.verdict, r.citation, condition)
           spoke == l.requirement = "must_abstain" /\ ~trace.declines
           qualified == \/ l.requirement = "may_answer_with_qualification"
                        \/ condition \in {"current_noncanonical", "unknown"}
           green == /\ ~r.abstained /\ r.verdict = "supported" /\ l.failure = "none"
                    /\ r.citation \in {"correct", "not_applicable"}
                    /\ condition \in {"current_canonical", "unknown"}
                    /\ r.confidence >= 90 /\ ~qualified
           failure == IF spoke THEN "should_have_abstained" ELSE l.failure
           root == IF spoke /\ l.root = "not_observable" THEN "failure_to_abstain" ELSE l.root
<1>1. r.verdict \in Verdicts /\ r.citation \in Citations
  BY DEF Results
<1>2. l \in [failure : Failures, root : Roots, requirement : Requirements]
  BY <1>1, LabelKinds
<1>3. failure \in Failures /\ root \in Roots /\ l.requirement \in Requirements
  BY <1>2 DEF Failures, Roots
<1>4. Diagnose(r, condition) = [r EXCEPT !.condition = condition, !.requirement = l.requirement,
         !.qualified = qualified, !.failure = failure, !.root = root, !.green = green]
  BY DEF Diagnose
<1>5. qualified \in BOOLEAN /\ green \in BOOLEAN
  OBVIOUS
<1>6. green => /\ ~r.abstained /\ r.verdict = "supported" /\ r.confidence >= 90
               /\ r.citation \in {"correct", "not_applicable"} /\ condition = "current_canonical"
  OBVIOUS
<1> HIDE DEF l, qualified, green, failure, root
<1>7. Diagnose(r, condition) \in Results
  BY <1>3, <1>4, <1>5 DEF Results
<1>8. LET s == Diagnose(r, condition) IN
      /\ s.verdict = r.verdict /\ s.confidence = r.confidence /\ s.route = r.route
      /\ s.abstained = r.abstained /\ s.citation = r.citation /\ s.text = r.text
      /\ s.green = green
  BY <1>4 DEF Results
<1> QED
  BY <1>6, <1>7, <1>8

\* What a claim is reported as, and when it is shown green.
LEMMA ResultKinds ==
    ASSUME IsTrace(trace), NEW n \in DOMAIN trace.claims,
           NEW resolution \in Resolutions, NEW nli \in Replies \cup {None}
    PROVE  LET c == trace.claims[n]
               r == Result(c, resolution, nli) IN
           /\ r \in Results
           /\ r.verdict = resolution.verdict /\ r.confidence = resolution.confidence
           /\ r.route = resolution.route /\ r.abstained = resolution.abstained
           /\ r.citation = CitationState(c) /\ r.text = Decision(trace, c).verdict
           /\ r.green => /\ ~r.abstained /\ r.verdict = "supported" /\ r.confidence >= 90
                         /\ r.citation \in {"correct", "not_applicable"}
                         /\ FirstCondition(c) = "current_canonical" /\ ~trace.truncated
<1> DEFINE c == trace.claims[n]
           blank == [verdict |-> resolution.verdict, confidence |-> resolution.confidence,
                     route |-> resolution.route, abstained |-> resolution.abstained,
                     condition |-> "unknown", requirement |-> "must_answer", qualified |-> FALSE,
                     failure |-> "none", root |-> "none", green |-> FALSE,
                     nli |-> nli, citation |-> CitationState(c), text |-> Decision(trace, c).verdict]
           s == Diagnose(blank, FirstCondition(c))
           r == Result(c, resolution, nli)
<1>1. CitationState(c) \in Citations /\ Decision(trace, c).verdict \in Verdicts
      /\ FirstCondition(c) \in Conditions /\ trace.evidence \in Evidence
  BY CitationKinds, DecisionKinds, ConditionsAreKinds DEF Decisions, IsTrace
<1>2. blank \in Results
  <2>1. /\ "unknown" \in Conditions /\ "must_answer" \in Requirements
        /\ "none" \in Failures /\ "none" \in Roots
    BY DEF Conditions, Requirements, Failures, Roots
  <2>2. /\ resolution.verdict \in Verdicts /\ resolution.confidence \in Nat
        /\ resolution.route \in Routes /\ resolution.abstained \in BOOLEAN
    BY DEF Resolutions
  <2> QED
    BY <1>1, <2>1, <2>2 DEF Results
<1>3. /\ blank.verdict = resolution.verdict /\ blank.confidence = resolution.confidence
      /\ blank.route = resolution.route /\ blank.abstained = resolution.abstained
      /\ blank.citation = CitationState(c) /\ blank.text = Decision(trace, c).verdict
  OBVIOUS
<1>4. r = IF trace.truncated THEN [s EXCEPT !.green = FALSE, !.qualified = TRUE] ELSE s
  BY DEF Result
<1> HIDE DEF blank
<1>5. /\ s \in Results
      /\ s.verdict = blank.verdict /\ s.confidence = blank.confidence /\ s.route = blank.route
      /\ s.abstained = blank.abstained /\ s.citation = blank.citation /\ s.text = blank.text
      /\ s.green => /\ ~s.abstained /\ s.verdict = "supported" /\ s.confidence >= 90
                    /\ s.citation \in {"correct", "not_applicable"}
                    /\ FirstCondition(c) = "current_canonical"
  BY <1>1, <1>2, DiagnoseKinds
<1> HIDE DEF s, r
<1>6. CASE trace.truncated
  <2>1. r = [s EXCEPT !.green = FALSE, !.qualified = TRUE]
    BY <1>4, <1>6
  <2>2. /\ r \in Results /\ ~r.green /\ r.verdict = s.verdict /\ r.confidence = s.confidence
        /\ r.route = s.route /\ r.abstained = s.abstained /\ r.citation = s.citation /\ r.text = s.text
    BY <1>5, <2>1 DEF Results
  <2> QED
    BY <1>3, <1>5, <2>2 DEF r
<1>7. CASE ~trace.truncated
  BY <1>3, <1>4, <1>5, <1>7 DEF r
<1> QED
  BY <1>6, <1>7

LEMMA SettledKinds ==
    ASSUME IsTrace(trace), NEW n \in DOMAIN trace.claims, NEW r \in Results
    PROVE  LET c == trace.claims[n]
               s == Settled(c, r) IN
           /\ s \in Results
           /\ s.verdict = r.verdict /\ s.confidence = r.confidence /\ s.route = r.route
           /\ s.abstained = r.abstained /\ s.citation = r.citation /\ s.text = r.text
           /\ s.green => /\ ~s.abstained /\ s.verdict = "supported" /\ s.confidence >= 90
                         /\ s.citation \in {"correct", "not_applicable"}
                         /\ LastCondition(c) = "current_canonical" /\ ~IsNliOnly(s)
<1> DEFINE c == trace.claims[n]
           anew == Diagnose(r, LastCondition(c))
           s == Settled(c, r)
<1>1. LastCondition(c) \in Conditions /\ trace.evidence \in Evidence
  BY ConditionsAreKinds DEF IsTrace
<1>2. s = IF IsNliOnly(r) THEN [anew EXCEPT !.green = FALSE, !.qualified = TRUE] ELSE anew
  BY DEF Settled
<1>3. /\ anew \in Results
      /\ anew.verdict = r.verdict /\ anew.confidence = r.confidence /\ anew.route = r.route
      /\ anew.abstained = r.abstained /\ anew.citation = r.citation /\ anew.text = r.text
      /\ anew.green => /\ ~anew.abstained /\ anew.verdict = "supported" /\ anew.confidence >= 90
                       /\ anew.citation \in {"correct", "not_applicable"}
                       /\ LastCondition(c) = "current_canonical"
  BY <1>1, DiagnoseKinds
<1> HIDE DEF anew, s
<1>4. CASE IsNliOnly(r)
  <2>1. s = [anew EXCEPT !.green = FALSE, !.qualified = TRUE]
    BY <1>2, <1>4
  <2>2. /\ s \in Results /\ ~s.green /\ s.verdict = anew.verdict /\ s.confidence = anew.confidence
        /\ s.route = anew.route /\ s.abstained = anew.abstained /\ s.citation = anew.citation
        /\ s.text = anew.text
    BY <1>3, <2>1 DEF Results
  <2> QED
    BY <1>3, <2>2 DEF s
<1>5. CASE ~IsNliOnly(r)
  <2>1. s = anew
    BY <1>2, <1>5
  <2>2. ~IsNliOnly(s)
    BY <1>3, <1>5, <2>1 DEF IsNliOnly
  <2> QED
    BY <1>3, <2>1, <2>2 DEF s
<1> QED
  BY <1>4, <1>5

-----------------------------------------------------------------------------
(* The invariant.                                                          *)

CoreTypes ==
    /\ trace \in Traces /\ available \in BOOLEAN /\ settled \in BOOLEAN
    /\ groups \subseteq SUBSET (DOMAIN trace.claims)
    /\ prepared \in [Texts -> Seq(Replies)]
    /\ results \in Seq(Results) /\ Len(results) <= Len(trace.claims)
    /\ calls \in Seq([claims : SUBSET (DOMAIN trace.claims), verdict : Replies])

\* Only v2.1 makes groups, and of claims whose facts are all in the text.
GroupsAreOpen ==
    /\ groups # {} => Profile.safety
    /\ \A g \in groups : \A n \in g : IsGroupable(trace, trace.claims[n])

\* A verdict that is ready for the claims of some words is that of a call about them.
PreparedIsSaid ==
    \A t \in Texts : \A j \in DOMAIN prepared[t] :
        /\ Profile.safety
        /\ \E n \in DOMAIN trace.claims : trace.claims[n].text = t /\ IsGroupable(trace, trace.claims[n])
        /\ \E i \in DOMAIN calls :
              /\ \E m \in calls[i].claims : trace.claims[m].text = t
              /\ prepared[t][j] = Shared(calls[i].verdict)

\* A call of the model about claim n that was sure.
Backed(n) ==
    \E i \in DOMAIN calls : n \in calls[i].claims /\ calls[i].verdict.confidence >= 90

\* The ground of result r of claim n: support strong enough to be shown is in the text
\* or the model's; what the diagnosis made of it; and what the text leaves open.
Strong(n, r) ==
    r.verdict = "supported" /\ ~r.abstained /\ r.confidence >= 90 =>
        \/ IsInText(trace.claims[n])
        \/ r.route = "nli" /\ IF Profile.safety THEN r.text = "unverifiable" ELSE Backed(n)

Diagnosed(n, r) ==
    r.green =>
        /\ ~r.abstained /\ r.verdict = "supported" /\ r.confidence >= 90
        /\ r.citation \in {"correct", "not_applicable"}
        /\ IF settled THEN LastCondition(trace.claims[n]) = "current_canonical" /\ ~IsNliOnly(r)
           ELSE FirstCondition(trace.claims[n]) = "current_canonical" /\ ~trace.truncated

Closed(n, r) ==
    RequiresNli(trace, Decision(trace, trace.claims[n])) /\ ~Profile.forced =>
        \/ r.verdict = "unverifiable" /\ r.abstained
        \/ Said(trace.claims[n], r.verdict)
        \/ Profile.prefer /\ \E v \in Verdicts : Said(trace.claims[n], v)

Grounded(n, r) ==
    /\ r.citation = CitationState(trace.claims[n])
    /\ r.text = Decision(trace, trace.claims[n]).verdict
    /\ Strong(n, r) /\ Diagnosed(n, r) /\ Closed(n, r)

CoreInv ==
    /\ CoreTypes /\ GroupsAreOpen /\ PreparedIsSaid
    /\ \A n \in DOMAIN results : \A r \in {results[n]} : Grounded(n, r)
    /\ settled => Profile.safety /\ Len(results) = Len(trace.claims)

-----------------------------------------------------------------------------
(* What is read of the trace stays, and what was said stays said.          *)

LEMMA SameTrace ==
    ASSUME trace' = trace
    PROVE  /\ Profile' = Profile /\ Texts' = Texts
           /\ \A c : CitationState(c)' = CitationState(c)
           /\ \A c : FirstCondition(c)' = FirstCondition(c) /\ LastCondition(c)' = LastCondition(c)
<1>1. Profile' = Profile /\ Texts' = Texts
  BY DEF Profile, Texts
<1>2. ASSUME NEW c PROVE CitationState(c)' = CitationState(c)
  BY DEF CitationState, Profile
<1>3. ASSUME NEW c PROVE FirstCondition(c)' = FirstCondition(c) /\ LastCondition(c)' = LastCondition(c)
  BY DEF FirstCondition, LastCondition, Profile
<1> QED
  BY <1>1, <1>2, <1>3

\* calls grows by one, or not at all.
CallsGrow ==
    \/ calls' = calls
    \/ \E x \in [claims : SUBSET (DOMAIN trace.claims), verdict : Replies] : calls' = Append(calls, x)

LEMMA CallsStay ==
    ASSUME CoreTypes, trace' = trace, CallsGrow
    PROVE  /\ calls' \in Seq([claims : SUBSET (DOMAIN trace.claims), verdict : Replies])
           /\ \A i \in DOMAIN calls : i \in DOMAIN calls' /\ calls'[i] = calls[i]
<1> DEFINE C == [claims : SUBSET (DOMAIN trace.claims), verdict : Replies]
<1>1. calls \in Seq(C)
  BY DEF CoreTypes
<1>2. CASE calls' = calls
  BY <1>1, <1>2
<1>3. CASE \E x \in C : calls' = Append(calls, x)
  <2>1. PICK x \in C : calls' = Append(calls, x)
    BY <1>3
  <2> HIDE DEF C
  <2> QED
    BY <1>1, <2>1, AppendProperties DEF C
<1> QED
  BY <1>2, <1>3 DEF CallsGrow

LEMMA SaidStays ==
    ASSUME CoreTypes, trace' = trace, CallsGrow, NEW c, NEW v, Said(c, v)
    PROVE  Said(c, v)'
<1>1. PICK i \in DOMAIN calls :
         /\ \E n \in calls[i].claims : trace.claims[n].text = c.text
         /\ calls[i].verdict.verdict # "failed" /\ Accepted(calls[i].verdict) = v
         /\ Cardinality(calls[i].claims) > 1 => IsEntailed(calls[i].verdict)
  BY DEF Said, Asked
<1>2. i \in DOMAIN calls' /\ calls'[i] = calls[i]
  BY CallsStay
<1> QED
  BY <1>1, <1>2 DEF Said, Asked

LEMMA GroundsStay ==
    ASSUME CoreTypes, trace' = trace, settled' = settled, CallsGrow, NEW n, NEW r, Grounded(n, r)
    PROVE  Grounded(n, r)'
<1> DEFINE c == trace.claims[n]
<1>1. Strong(n, r)'
  <2>1. Backed(n) => Backed(n)'
    BY CallsStay DEF Backed
  <2> QED
    BY <2>1, SameTrace DEF Grounded, Strong
<1>2. Diagnosed(n, r)'
  BY SameTrace DEF Grounded, Diagnosed
<1>3. Closed(n, r)'
  <2>1. \A v : Said(c, v) => Said(c, v)'
    BY SaidStays
  <2>2. c' = c
    OBVIOUS
  <2> QED
    BY <2>1, <2>2, SameTrace DEF Grounded, Closed
<1>4. r.citation = CitationState(c)' /\ r.text = Decision(trace, c)'.verdict
  BY SameTrace DEF Grounded
<1> QED
  BY <1>1, <1>2, <1>3, <1>4 DEF Grounded

-----------------------------------------------------------------------------
(* The steps.                                                              *)

LEMMA CoreStarts == Promises /\ Init => CoreInv
<1> SUFFICES ASSUME Promises, Init PROVE CoreInv
  OBVIOUS
<1>1. Len(trace.claims) \in Nat
  BY DEF Promises, Init, IsTrace
<1>2. ASSUME NEW g \in groups
      PROVE  /\ Profile.safety /\ g \subseteq DOMAIN trace.claims
             /\ \A n \in g : IsGroupable(trace, trace.claims[n])
  <2>1. Profile.safety /\ g \in ClaimGroups(trace)
    BY DEF Init
  <2>2. PICK k \in trace.contexts : g \in SplitRun(Run(trace, k))
    BY <2>1 DEF ClaimGroups
  <2>3. \A n \in g : n \in Run(trace, k)
    BY <2>2 DEF SplitRun
  <2> QED
    BY <2>1, <2>3 DEF Run
<1>3. CoreTypes
  <2>1. prepared \in [Texts -> Seq(Replies)]
    BY DEF Init
  <2>2. results \in Seq(Results) /\ Len(results) <= Len(trace.claims)
    BY <1>1 DEF Init
  <2>3. calls \in Seq([claims : SUBSET (DOMAIN trace.claims), verdict : Replies])
    BY DEF Init
  <2> QED
    BY <1>2, <2>1, <2>2, <2>3 DEF CoreTypes, Init
<1>4. GroupsAreOpen
  BY <1>2 DEF GroupsAreOpen
<1>5. PreparedIsSaid
  BY DEF PreparedIsSaid, Init
<1> QED
  BY <1>3, <1>4, <1>5 DEF CoreInv, Init

\* A step that reports the next claim keeps the invariant if its result has a ground.
LEMMA OneMore ==
    ASSUME Promises, CoreInv, trace' = trace, settled' = settled, CallsGrow, Turn,
           NEW next \in Nat, next = Len(results) + 1,
           NEW r \in Results, results' = Append(results, r), Grounded(next, r)',
           available' = available, groups' = groups,
           prepared' \in [Texts -> Seq(Replies)], PreparedIsSaid'
    PROVE  CoreInv'
<1>1. Len(results) \in Nat /\ Len(trace.claims) \in Nat /\ Len(results) < Len(trace.claims)
      /\ results \in Seq(Results) /\ DOMAIN results = 1..Len(results)
  <2>1. results \in Seq(Results) /\ trace \in Traces
    BY DEF CoreInv, CoreTypes
  <2>2. Len(trace.claims) \in Nat
    BY <2>1 DEF Promises, IsTrace
  <2>3. Len(results) < Len(trace.claims)
    BY DEF Turn
  <2> QED
    BY <2>1, <2>2, <2>3
<1>2. /\ results' \in Seq(Results) /\ Len(results') = Len(results) + 1
      /\ DOMAIN results' = 1..(Len(results) + 1)
      /\ \A n \in DOMAIN results : results'[n] = results[n]
      /\ results'[Len(results) + 1] = r
  BY <1>1, AppendProperties
<1>3. CoreTypes'
  <2>1. Texts' = Texts
    BY SameTrace
  <2>2. calls' \in Seq([claims : SUBSET (DOMAIN trace.claims), verdict : Replies])
    BY CallsStay DEF CoreInv
  <2> QED
    BY <1>1, <1>2, <2>1, <2>2 DEF CoreInv, CoreTypes
<1>4. GroupsAreOpen'
  BY SameTrace DEF CoreInv, GroupsAreOpen
<1>5. ASSUME NEW n \in DOMAIN results', NEW s, s = results'[n] PROVE Grounded(n, s)'
  <2>1. CASE n = Len(results) + 1
    <3>1. s = r /\ n = next
      BY <1>2, <1>5, <2>1
    <3> QED
      BY <3>1
  <2>2. CASE n \in DOMAIN results
    <3>1. s = results[n]
      BY <1>2, <1>5, <2>2
    <3>2. Grounded(n, s)
      BY <2>2, <3>1 DEF CoreInv
    <3> QED
      BY <3>2, GroundsStay DEF CoreInv
  <2> QED
    BY <1>1, <1>2, <2>1, <2>2
<1>6. ~settled
  BY <1>1 DEF CoreInv
<1>7. PreparedIsSaid' /\ ~settled'
  BY <1>6
<1> QED
  BY <1>3, <1>4, <1>5, <1>7 DEF CoreInv

LEMMA TurnFacts ==
    ASSUME Promises, CoreInv, Turn
    PROVE  /\ IsTrace(trace) /\ ~settled /\ groups = {}
           /\ Len(results) + 1 \in Nat /\ Len(results) + 1 \in DOMAIN trace.claims
           /\ Claim = trace.claims[Len(results) + 1]
<1>1. results \in Seq(Results) /\ trace \in Traces /\ IsTrace(trace)
  BY DEF CoreInv, CoreTypes, Promises
<1>2. Len(trace.claims) \in Nat /\ DOMAIN trace.claims = 1..Len(trace.claims)
  BY <1>1 DEF IsTrace
<1>3. Len(results) \in Nat /\ Len(results) < Len(trace.claims) /\ groups = {}
  BY <1>1 DEF Turn
<1>4. ~settled
  BY <1>2, <1>3 DEF CoreInv
<1> QED
  BY <1>1, <1>2, <1>3, <1>4 DEF Claim

LEMMA PreparedStays ==
    ASSUME CoreTypes, PreparedIsSaid, trace' = trace, prepared' = prepared, CallsGrow
    PROVE  PreparedIsSaid' /\ prepared' \in [Texts -> Seq(Replies)]
<1>1. \A i \in DOMAIN calls : i \in DOMAIN calls' /\ calls'[i] = calls[i]
  BY CallsStay
<1>2. prepared' \in [Texts -> Seq(Replies)]
  BY DEF CoreTypes
<1>3. PreparedIsSaid'
  BY <1>1, SameTrace DEF PreparedIsSaid
<1> QED
  BY <1>2, <1>3

LEMMA NewGround ==
    ASSUME IsTrace(trace), ~settled, trace' = trace, settled' = settled,
           NEW n \in DOMAIN trace.claims, NEW resolution \in Resolutions, NEW nli \in Replies \cup {None},
           NEW r, r = Result(trace.claims[n], resolution, nli), Strong(n, r)', Closed(n, r)'
    PROVE  r \in Results /\ Grounded(n, r)'
<1>1. /\ r \in Results
      /\ r.citation = CitationState(trace.claims[n]) /\ r.text = Decision(trace, trace.claims[n]).verdict
      /\ r.green => /\ ~r.abstained /\ r.verdict = "supported" /\ r.confidence >= 90
                    /\ r.citation \in {"correct", "not_applicable"}
                    /\ FirstCondition(trace.claims[n]) = "current_canonical" /\ ~trace.truncated
  BY ResultKinds
<1>2. Diagnosed(n, r)'
  BY <1>1, SameTrace DEF Diagnosed
<1> QED
  BY <1>1, <1>2, SameTrace DEF Grounded

\* What the text decides is in the text; what it leaves open is left open.
LEMMA StepByText == Promises /\ CoreInv /\ VerifyByText => CoreInv'
<1> SUFFICES ASSUME Promises, CoreInv, VerifyByText PROVE CoreInv'
  OBVIOUS
<1>1. /\ Turn /\ trace' = trace /\ settled' = settled /\ available' = available /\ groups' = groups
      /\ prepared' = prepared /\ calls' = calls
  BY DEF VerifyByText
<1>2. PICK n \in Nat : n = Len(results) + 1
  BY <1>1, TurnFacts
<1>3. IsTrace(trace) /\ ~settled /\ n \in DOMAIN trace.claims /\ Claim = trace.claims[n]
  BY <1>1, <1>2, TurnFacts
<1>4. PICK c : c = trace.claims[n]
  OBVIOUS
<1>5. PICK d \in Decisions : d = Decision(trace, c)
  BY DecisionKinds
<1>6. PICK u : u = Undisputed(d)
  OBVIOUS
<1>7. /\ u \in Resolutions
      /\ u.verdict = "supported" /\ u.confidence >= 90 => d.verdict = "supported"
      /\ RequiresNli(trace, d) /\ ~Profile.forced => u.verdict = "unverifiable" /\ u.abstained
  BY <1>6, UndisputedKinds
<1>8. PICK r : r = Result(c, u, None)
  OBVIOUS
<1>9. results' = Append(results, r)
  BY <1>3, <1>4, <1>5, <1>6, <1>8 DEF VerifyByText
<1>10. r.verdict = u.verdict /\ r.confidence = u.confidence /\ r.abstained = u.abstained
  BY <1>3, <1>4, <1>7, <1>8, ResultKinds
<1>11. Strong(n, r)'
  <2>1. c.match \in Matches
    BY <1>3, <1>4 DEF IsTrace
  <2>2. r.verdict = "supported" /\ r.confidence >= 90 => IsInText(c)
    BY <1>5, <1>7, <1>10, <2>1, SupportIsInText
  <2> QED
    BY <1>1, <1>4, <2>2 DEF Strong
<1>12. Closed(n, r)'
  BY <1>1, <1>4, <1>5, <1>7, <1>10, SameTrace DEF Closed
<1>13. r \in Results /\ Grounded(n, r)'
  BY <1>1, <1>3, <1>4, <1>7, <1>8, <1>11, <1>12, NewGround
<1>14. CallsGrow
  BY <1>1 DEF CallsGrow
<1>15. PreparedIsSaid' /\ prepared' \in [Texts -> Seq(Replies)]
  BY <1>1, <1>14, PreparedStays DEF CoreInv
<1> QED
  BY <1>1, <1>2, <1>9, <1>13, <1>14, <1>15, OneMore

LEMMA NewCall ==
    ASSUME CoreTypes, trace' = trace,
           NEW x \in [claims : SUBSET (DOMAIN trace.claims), verdict : Replies],
           calls' = Append(calls, x)
    PROVE  CallsGrow /\ \E i \in DOMAIN calls' : calls'[i] = x
<1> DEFINE C == [claims : SUBSET (DOMAIN trace.claims), verdict : Replies]
<1>1. calls \in Seq(C)
  BY DEF CoreTypes
<1>2. CallsGrow
  BY DEF CallsGrow
<1> HIDE DEF C
<1>3. x \in C
  BY DEF C
<1>4. Len(calls) + 1 \in DOMAIN calls' /\ calls'[Len(calls) + 1] = x
  BY <1>1, <1>3, AppendProperties
<1> QED
  BY <1>2, <1>4

\* The model alone: what it says counts if it is sure, and v2.1 takes note that it
\* was the model alone.
LEMMA StepByModel == Promises /\ CoreInv /\ VerifyByModel => CoreInv'
<1> SUFFICES ASSUME Promises, CoreInv, VerifyByModel PROVE CoreInv'
  OBVIOUS
<1>1. /\ Turn /\ trace' = trace /\ settled' = settled /\ available' = available /\ groups' = groups
      /\ prepared' = prepared /\ Asks(Claim)
  BY DEF VerifyByModel
<1>2. PICK n \in Nat : n = Len(results) + 1
  BY <1>1, TurnFacts
<1>3. IsTrace(trace) /\ ~settled /\ n \in DOMAIN trace.claims /\ Claim = trace.claims[n]
  BY <1>1, <1>2, TurnFacts
<1>4. PICK c : c = trace.claims[n]
  OBVIOUS
<1>5. PICK d \in Decisions : d = Decision(trace, c)
  BY DecisionKinds
<1>6. RequiresNli(trace, d)
  BY <1>1, <1>3, <1>4, <1>5 DEF Asks
<1>7. PICK v \in ModelVerdicts :
         /\ calls' = Append(calls, [claims |-> {n}, verdict |-> v])
         /\ results' = Append(results, Result(c, Resolve(d, v), IF v = Failed THEN None ELSE v))
  BY <1>2, <1>3, <1>4, <1>5 DEF VerifyByModel, Call
<1>8. v \in Replies /\ ~v.grouped /\ (v = Failed \/ v.verdict # "failed")
  BY ReplyKinds DEF Promises
<1>9. PICK u : u = Resolve(d, v)
  OBVIOUS
<1>10. /\ u \in Resolutions
       /\ u.verdict = "supported" /\ ~u.abstained /\ u.confidence >= 90 =>
             u.route = "nli" /\ v.confidence >= 90 /\ (d.verdict = "unverifiable" \/ v.grouped)
       /\ ~Profile.forced =>
             \/ u.verdict = "unverifiable" /\ u.abstained
             \/ Accepted(v) # "none" /\ (u.verdict = Accepted(v) \/ Profile.prefer)
  BY <1>6, <1>8, <1>9, ResolveKinds
<1>11. PICK nli \in Replies \cup {None} : nli = IF v = Failed THEN None ELSE v
  BY <1>8
<1>12. PICK r : r = Result(c, u, nli)
  OBVIOUS
<1>13. results' = Append(results, r)
  BY <1>7, <1>9, <1>11, <1>12
<1>14. /\ r.verdict = u.verdict /\ r.confidence = u.confidence /\ r.abstained = u.abstained
       /\ r.route = u.route /\ r.text = d.verdict
  BY <1>3, <1>4, <1>5, <1>10, <1>12, ResultKinds
<1>15. PICK x \in [claims : SUBSET (DOMAIN trace.claims), verdict : Replies] :
          x = [claims |-> {n}, verdict |-> v]
  BY <1>3, <1>8
<1>16. CallsGrow /\ \E i \in DOMAIN calls' : calls'[i] = x
  BY <1>1, <1>7, <1>15, NewCall DEF CoreInv
<1>17. PICK i \in DOMAIN calls' : calls'[i] = x
  BY <1>16
<1>18. Strong(n, r)'
  <2>1. v.confidence >= 90 => Backed(n)'
    BY <1>15, <1>17 DEF Backed
  <2>2. r.verdict = "supported" /\ ~r.abstained /\ r.confidence >= 90 =>
           r.route = "nli" /\ v.confidence >= 90 /\ r.text = "unverifiable"
    BY <1>8, <1>10, <1>14
  <2> QED
    BY <2>1, <2>2 DEF Strong
<1>19. Accepted(v) # "none" => Said(c, Accepted(v))' /\ Accepted(v) \in Verdicts
  <2>1. Accepted(Failed) = "none"
    BY DEF Accepted, Failed
  <2>2. Cardinality({n}) = 1
    BY FS_Singleton
  <2>3. x.claims = {n} /\ x.verdict = v
    BY <1>15
  <2>4. Accepted(v) # "none" => Said(c, Accepted(v))'
    <3>1. i \in Asked(c)'
      BY <1>1, <1>3, <1>4, <1>17, <2>3 DEF Asked
    <3>2. calls'[i].claims = {n} /\ calls'[i].verdict = v
      BY <1>17, <2>3
    <3>3. ~(Cardinality(calls'[i].claims) > 1)
      <4>1. Cardinality(calls'[i].claims) = 1
        BY <2>2, <3>2, Zenon
      <4> QED
        BY <4>1
    <3>4. Accepted(v) # "none" => v.verdict # "failed"
      BY <1>8, <2>1
    <3> QED
      BY <3>1, <3>2, <3>3, <3>4, Zenon DEF Said
  <2>5. Accepted(v) # "none" => Accepted(v) \in Verdicts
    BY <1>8, AcceptedKinds DEF Verdicts
  <2> QED
    BY <2>4, <2>5
<1>20. Closed(n, r)'
  BY <1>1, <1>4, <1>10, <1>14, <1>19, SameTrace DEF Closed
<1>21. r \in Results /\ Grounded(n, r)'
  BY <1>1, <1>3, <1>4, <1>10, <1>12, <1>18, <1>20, NewGround
<1>22. PreparedIsSaid' /\ prepared' \in [Texts -> Seq(Replies)]
  BY <1>1, <1>16, PreparedStays DEF CoreInv
<1> QED
  BY <1>1, <1>2, <1>13, <1>16, <1>21, <1>22, OneMore

\* A group's verdict, which was sure of every member, for a claim that the text left open.
LEMMA StepByGroup == Promises /\ CoreInv /\ VerifyByGroup => CoreInv'
<1> SUFFICES ASSUME Promises, CoreInv, VerifyByGroup PROVE CoreInv'
  OBVIOUS
<1>1. /\ Turn /\ trace' = trace /\ settled' = settled /\ available' = available /\ groups' = groups
      /\ calls' = calls /\ Asks(Claim)
  BY DEF VerifyByGroup
<1>2. PICK n \in Nat : n = Len(results) + 1
  BY <1>1, TurnFacts
<1>3. IsTrace(trace) /\ ~settled /\ n \in DOMAIN trace.claims /\ Claim = trace.claims[n]
  BY <1>1, <1>2, TurnFacts
<1>4. PICK c : c = trace.claims[n]
  OBVIOUS
<1>5. PICK d \in Decisions : d = Decision(trace, c)
  BY DecisionKinds
<1>6. RequiresNli(trace, d)
  BY <1>1, <1>3, <1>4, <1>5 DEF Asks
<1>7. PICK t \in Texts : t = c.text
  BY <1>3, <1>4 DEF Texts
<1>8. PICK s : s = prepared[t]
  OBVIOUS
<1>9. s \in Seq(Replies) /\ s # <<>>
  BY <1>3, <1>4, <1>7, <1>8 DEF CoreInv, CoreTypes, VerifyByGroup
<1>10. /\ Head(s) \in Replies /\ Head(s) = s[1] /\ 1 \in DOMAIN s
       /\ Tail(s) \in Seq(Replies)
       /\ \A j \in DOMAIN Tail(s) : j + 1 \in DOMAIN s /\ Tail(s)[j] = s[j + 1]
  BY <1>9, HeadTailProperties
<1>11. PICK v \in Replies : v = Head(s)
  BY <1>10
<1>12. /\ results' = Append(results, Result(c, Resolve(d, v), v))
       /\ prepared' = [prepared EXCEPT ![t] = Tail(s)]
  BY <1>3, <1>4, <1>5, <1>7, <1>8, <1>11 DEF VerifyByGroup
<1>13. /\ Profile.safety
       /\ \E m \in DOMAIN trace.claims : trace.claims[m].text = t /\ IsGroupable(trace, trace.claims[m])
       /\ \E i \in DOMAIN calls :
             (\E m \in calls[i].claims : trace.claims[m].text = t) /\ v = Shared(calls[i].verdict)
  BY <1>7, <1>8, <1>10, <1>11 DEF CoreInv, PreparedIsSaid
<1>14. d.verdict = "unverifiable"
  <2>1. PICK m \in DOMAIN trace.claims : trace.claims[m].text = t /\ IsGroupable(trace, trace.claims[m])
    BY <1>13
  <2>2. trace.claims[m].match = c.match
    BY <1>3, <1>4, <1>7, <2>1 DEF IsTrace
  <2>3. AllMatched(c.match)
    BY <2>1, <2>2 DEF IsGroupable
  <2>4. d.verdict # "partially_supported"
    BY <1>5, <2>3, MatchedIsNotPartial
  <2> QED
    BY <1>6, <2>4 DEF RequiresNli
<1>15. Accepted(v) # "none" => Said(c, Accepted(v)) /\ Accepted(v) \in Verdicts
  <2>1. PICK i \in DOMAIN calls :
           (\E m \in calls[i].claims : trace.claims[m].text = t) /\ v = Shared(calls[i].verdict)
    BY <1>13
  <2>2. PICK w \in Replies : w = calls[i].verdict
    <3> DEFINE C == [claims : SUBSET (DOMAIN trace.claims), verdict : Replies]
    <3>1. calls \in Seq(C)
      BY DEF CoreInv, CoreTypes
    <3>2. \A y \in C : y.verdict \in Replies
      OBVIOUS
    <3> HIDE DEF C
    <3>3. calls[i] \in C
      BY <3>1
    <3> QED
      BY <3>2, <3>3
  <2>3. Accepted(v) # "none" => IsEntailed(w) /\ Accepted(w) = Accepted(v)
    BY <2>1, <2>2, SharedKinds
  <2>4. IsEntailed(w) => w.verdict # "failed"
    BY DEF IsEntailed
  <2>5. Accepted(v) # "none" => Said(c, Accepted(v))
    BY <1>7, <2>1, <2>2, <2>3, <2>4 DEF Said, Asked
  <2>6. Accepted(v) # "none" => Accepted(v) \in Verdicts
    BY AcceptedKinds DEF Verdicts
  <2> QED
    BY <2>5, <2>6
<1>16. PICK u : u = Resolve(d, v)
  OBVIOUS
<1>17. /\ u \in Resolutions
       /\ u.verdict = "supported" /\ ~u.abstained /\ u.confidence >= 90 =>
             u.route = "nli" /\ v.confidence >= 90 /\ (d.verdict = "unverifiable" \/ v.grouped)
       /\ ~Profile.forced =>
             \/ u.verdict = "unverifiable" /\ u.abstained
             \/ Accepted(v) # "none" /\ (u.verdict = Accepted(v) \/ Profile.prefer)
  BY <1>6, <1>16, ResolveKinds
<1>18. PICK r : r = Result(c, u, v)
  OBVIOUS
<1>19. /\ r.verdict = u.verdict /\ r.confidence = u.confidence /\ r.abstained = u.abstained
       /\ r.route = u.route /\ r.text = d.verdict
  BY <1>3, <1>4, <1>5, <1>17, <1>18, ResultKinds
<1>20. CallsGrow
  BY <1>1 DEF CallsGrow
<1>21. Strong(n, r)'
  BY <1>1, <1>13, <1>14, <1>17, <1>19, SameTrace DEF Strong
<1>22. Closed(n, r)'
  <2>1. Accepted(v) # "none" => Said(c, Accepted(v))' /\ Accepted(v) \in Verdicts
    BY <1>1, <1>15, <1>20, SaidStays DEF CoreInv
  <2> QED
    BY <1>1, <1>4, <1>17, <1>19, <2>1, SameTrace DEF Closed
<1>23. r \in Results /\ Grounded(n, r)'
  BY <1>1, <1>3, <1>4, <1>17, <1>18, <1>21, <1>22, NewGround
<1>24. prepared' \in [Texts -> Seq(Replies)]
  BY <1>10, <1>12 DEF CoreInv, CoreTypes
<1>25. PreparedIsSaid'
  <2> SUFFICES ASSUME NEW x \in Texts, NEW j \in DOMAIN prepared'[x]
               PROVE  /\ Profile.safety
                      /\ \E m \in DOMAIN trace.claims :
                            trace.claims[m].text = x /\ IsGroupable(trace, trace.claims[m])
                      /\ \E i \in DOMAIN calls :
                            /\ \E m \in calls[i].claims : trace.claims[m].text = x
                            /\ prepared'[x][j] = Shared(calls[i].verdict)
    BY <1>1, SameTrace DEF PreparedIsSaid
  <2>1. \E k \in DOMAIN prepared[x] : prepared'[x][j] = prepared[x][k]
    <3>1. CASE x = t
      BY <1>8, <1>10, <1>12, <3>1 DEF CoreInv, CoreTypes
    <3>2. CASE x # t
      BY <1>12, <3>2 DEF CoreInv, CoreTypes
    <3> QED
      BY <3>1, <3>2
  <2> QED
    BY <2>1 DEF CoreInv, PreparedIsSaid
<1>26. results' = Append(results, r)
  BY <1>12, <1>16, <1>18
<1> QED
  BY <1>1, <1>2, <1>20, <1>23, <1>24, <1>25, <1>26, OneMore

\* A step that reports no claim keeps what is known of the results.
LEMMA NoneMore ==
    ASSUME Promises, CoreInv, trace' = trace, settled' = settled, CallsGrow, results' = results,
           available' = available, groups' \subseteq groups,
           prepared' \in [Texts -> Seq(Replies)], PreparedIsSaid'
    PROVE  CoreInv'
<1>1. CoreTypes'
  <2>1. calls' \in Seq([claims : SUBSET (DOMAIN trace.claims), verdict : Replies])
    BY CallsStay DEF CoreInv
  <2> QED
    BY <2>1, SameTrace DEF CoreInv, CoreTypes
<1>2. GroupsAreOpen'
  <2>1. /\ groups' # {} => Profile.safety
        /\ \A g \in groups' : \A n \in g : IsGroupable(trace, trace.claims[n])
    BY DEF CoreInv, GroupsAreOpen
  <2> QED
    BY <2>1, SameTrace DEF GroupsAreOpen
<1>3. ASSUME NEW n \in DOMAIN results', NEW r \in {results'[n]} PROVE Grounded(n, r)'
  <2>1. Grounded(n, r)
    BY <1>3 DEF CoreInv
  <2> QED
    BY <2>1, GroundsStay DEF CoreInv
<1>4. settled' => Profile'.safety /\ Len(results') = Len(trace'.claims)
  BY SameTrace DEF CoreInv
<1> QED
  BY <1>1, <1>2, <1>3, <1>4 DEF CoreInv

LEMMA ClaimsAreCounted ==
    ASSUME NEW t, IsTrace(t)
    PROVE  Len(t.claims) \in Int /\ DOMAIN t.claims = 1..Len(t.claims)
<1>1. Len(t.claims) \in Nat /\ DOMAIN t.claims = 1..Len(t.claims)
  BY DEF IsTrace
<1> QED
  BY <1>1

Copies(m, w) == [j \in 1..m |-> w]

LEMMA Longer ==
    ASSUME NEW s \in Seq(Replies), NEW m \in Nat, NEW w \in Replies
    PROVE  /\ s \o Copies(m, w) \in Seq(Replies)
           /\ \A j \in DOMAIN (s \o Copies(m, w)) :
                 \/ \E k \in DOMAIN s : (s \o Copies(m, w))[j] = s[k]
                 \/ m > 0 /\ (s \o Copies(m, w))[j] = w
<1> DEFINE u == Copies(m, w)
<1>1. u \in Seq(Replies) /\ Len(u) = m
  BY DEF Copies
<1>2. \A i \in 1..m : u[i] = w
  BY DEF Copies
<1> HIDE DEF u
<1>3. /\ s \o u \in Seq(Replies) /\ Len(s \o u) = Len(s) + m
      /\ \A i \in 1..(Len(s) + m) : (s \o u)[i] = IF i <= Len(s) THEN s[i] ELSE u[i - Len(s)]
  BY <1>1, ConcatProperties
<1>4. ASSUME NEW j \in DOMAIN (s \o u)
      PROVE  (\E k \in DOMAIN s : (s \o u)[j] = s[k]) \/ (m > 0 /\ (s \o u)[j] = w)
  <2>1. j \in 1..(Len(s) + m) /\ Len(s) \in Nat /\ DOMAIN s = 1..Len(s)
    BY <1>3
  <2>2. CASE j <= Len(s)
    BY <1>3, <2>1, <2>2
  <2>3. CASE j > Len(s)
    BY <1>2, <1>3, <2>1, <2>3
  <2> QED
    BY <2>1, <2>2, <2>3
<1> QED
  BY <1>3, <1>4 DEF u

\* A group's verdict is made ready for the claims it is about, and only for them.
LEMMA StepAsk == Promises /\ CoreInv /\ AskGroup => CoreInv'
<1> SUFFICES ASSUME Promises, CoreInv, AskGroup PROVE CoreInv'
  OBVIOUS
<1> DEFINE Members(g, t) == Cardinality({c \in g : trace.claims[c].text = t})
<1>1. PICK g \in groups, v \in ModelVerdicts :
         /\ calls' = Append(calls, [claims |-> g, verdict |-> v])
         /\ prepared' = [t \in Texts |-> prepared[t] \o [j \in 1..Members(g, t) |-> Shared(v)]]
         /\ groups' = groups \ {g}
         /\ trace' = trace /\ available' = available /\ results' = results /\ settled' = settled
  BY DEF AskGroup, Call
<1>2. g \subseteq DOMAIN trace.claims /\ IsTrace(trace) /\ prepared \in [Texts -> Seq(Replies)]
  BY DEF CoreInv, CoreTypes, Promises
<1>3. v \in Replies /\ Shared(v) \in Replies
  BY ReplyKinds, SharedKinds DEF Promises
<1>4. PICK x \in [claims : SUBSET (DOMAIN trace.claims), verdict : Replies] :
         x = [claims |-> g, verdict |-> v]
  BY <1>2, <1>3
<1>5. CallsGrow /\ \E i \in DOMAIN calls' : calls'[i] = x
  BY <1>1, <1>4, NewCall DEF CoreInv
<1>6. ASSUME NEW t \in Texts
      PROVE  Members(g, t) \in Nat /\ (Members(g, t) > 0 => \E n \in g : trace.claims[n].text = t)
  <2> DEFINE S == {c \in g : trace.claims[c].text = t}
  <2>1. Len(trace.claims) \in Int /\ DOMAIN trace.claims = 1..Len(trace.claims)
    <3>1. IsTrace(trace)
      BY <1>2
    <3> QED
      BY <3>1, ClaimsAreCounted
  <2>2. IsFiniteSet(S)
    <3>1. IsFiniteSet(1..Len(trace.claims))
      BY <2>1, FS_Interval
    <3>2. S \in SUBSET (1..Len(trace.claims))
      <4>1. g \subseteq DOMAIN trace.claims
        BY <1>2
      <4> QED
        BY <2>1, <4>1
    <3> QED
      BY <3>1, <3>2, FS_Subset
  <2>3. Cardinality(S) \in Nat /\ (Cardinality(S) = 0 <=> S = {})
    BY <2>2, FS_CardinalityType, FS_EmptySet
  <2>4. S # {} => \E n \in g : trace.claims[n].text = t
    OBVIOUS
  <2>5. Members(g, t) = Cardinality(S)
    OBVIOUS
  <2> HIDE DEF S
  <2> QED
    BY <2>3, <2>4, <2>5
<1> HIDE DEF Members
<1>7. ASSUME NEW t \in Texts
      PROVE  /\ prepared'[t] \in Seq(Replies)
             /\ \A j \in DOMAIN prepared'[t] :
                   \/ \E k \in DOMAIN prepared[t] : prepared'[t][j] = prepared[t][k]
                   \/ Members(g, t) > 0 /\ prepared'[t][j] = Shared(v)
  <2>1. prepared'[t] = prepared[t] \o [j \in 1..Members(g, t) |-> Shared(v)]
    BY <1>1
  <2>2. prepared[t] \in Seq(Replies)
    BY <1>2
  <2>3. PICK m \in Nat : m = Members(g, t)
    BY <1>6
  <2>4. PICK w \in Replies : w = Shared(v)
    BY <1>3
  <2>5. PICK s \in Seq(Replies) : s = prepared[t]
    BY <2>2
  <2>6. PICK z : z = prepared'[t]
    OBVIOUS
  <2>7. z = s \o Copies(m, w)
    BY <2>1, <2>3, <2>4, <2>5, <2>6 DEF Copies
  <2>8. /\ s \o Copies(m, w) \in Seq(Replies)
        /\ \A j \in DOMAIN (s \o Copies(m, w)) :
              \/ \E k \in DOMAIN s : (s \o Copies(m, w))[j] = s[k]
              \/ m > 0 /\ (s \o Copies(m, w))[j] = w
    BY Longer
  <2>9. /\ z \in Seq(Replies)
        /\ \A j \in DOMAIN z : (\E k \in DOMAIN s : z[j] = s[k]) \/ (m > 0 /\ z[j] = w)
    BY <2>7, <2>8
  <2> QED
    BY <2>3, <2>4, <2>5, <2>6, <2>9
<1>8. prepared' \in [Texts -> Seq(Replies)]
  <2>1. prepared' = [t \in Texts |-> prepared'[t]]
    BY <1>1
  <2> QED
    BY <1>7, <2>1
<1>9. PreparedIsSaid'
  <2>1. Profile.safety /\ \A n \in g : IsGroupable(trace, trace.claims[n])
    BY DEF CoreInv, GroupsAreOpen
  <2>2. PICK i \in DOMAIN calls' : calls'[i] = x
    BY <1>5
  <2>3. calls'[i].claims = g /\ calls'[i].verdict = v
    BY <1>4, <2>2
  <2>4. \A k \in DOMAIN calls : k \in DOMAIN calls' /\ calls'[k] = calls[k]
    BY <1>1, <1>5, CallsStay DEF CoreInv
  <2>5. ASSUME NEW t \in Texts, NEW j \in DOMAIN prepared'[t]
        PROVE  /\ \E n \in DOMAIN trace.claims :
                     trace.claims[n].text = t /\ IsGroupable(trace, trace.claims[n])
               /\ \E k \in DOMAIN calls' :
                     /\ \E m \in calls'[k].claims : trace.claims[m].text = t
                     /\ prepared'[t][j] = Shared(calls'[k].verdict)
    <3>1. CASE \E k \in DOMAIN prepared[t] : prepared'[t][j] = prepared[t][k]
      <4>1. PICK k \in DOMAIN prepared[t] : prepared'[t][j] = prepared[t][k]
        BY <3>1
      <4>2. /\ \E n \in DOMAIN trace.claims :
                  trace.claims[n].text = t /\ IsGroupable(trace, trace.claims[n])
            /\ \E l \in DOMAIN calls :
                  /\ \E m \in calls[l].claims : trace.claims[m].text = t
                  /\ prepared[t][k] = Shared(calls[l].verdict)
        BY DEF CoreInv, PreparedIsSaid
      <4> QED
        BY <2>4, <4>1, <4>2
    <3>2. CASE Members(g, t) > 0 /\ prepared'[t][j] = Shared(v)
      <4>1. PICK n \in g : trace.claims[n].text = t
        BY <1>6, <3>2
      <4> QED
        BY <1>2, <2>1, <2>2, <2>3, <3>2, <4>1
    <3> QED
      BY <1>7, <3>1, <3>2
  <2> SUFFICES ASSUME NEW t \in Texts, NEW j \in DOMAIN prepared'[t]
               PROVE  /\ Profile.safety
                      /\ \E n \in DOMAIN trace.claims :
                            trace.claims[n].text = t /\ IsGroupable(trace, trace.claims[n])
                      /\ \E k \in DOMAIN calls' :
                            /\ \E m \in calls'[k].claims : trace.claims[m].text = t
                            /\ prepared'[t][j] = Shared(calls'[k].verdict)
    <3>1. trace' = trace
      BY <1>1
    <3> QED
      BY <3>1, SameTrace DEF PreparedIsSaid
  <2> QED
    BY <2>1, <2>5
<1> QED
  BY <1>1, <1>5, <1>8, <1>9, NoneMore

LEMMA StepSkip == Promises /\ CoreInv /\ SkipGroup => CoreInv'
<1> SUFFICES ASSUME Promises, CoreInv, SkipGroup PROVE CoreInv'
  OBVIOUS
<1>1. /\ groups' \subseteq groups /\ trace' = trace /\ available' = available
      /\ prepared' = prepared /\ results' = results /\ calls' = calls /\ settled' = settled
  BY DEF SkipGroup
<1>2. CallsGrow
  BY <1>1 DEF CallsGrow
<1>3. PreparedIsSaid' /\ prepared' \in [Texts -> Seq(Replies)]
  BY <1>1, <1>2, PreparedStays DEF CoreInv
<1> QED
  BY <1>1, <1>2, <1>3, NoneMore

LEMMA StepStutters == Promises /\ CoreInv /\ UNCHANGED vars => CoreInv'
<1> SUFFICES ASSUME Promises, CoreInv, UNCHANGED vars PROVE CoreInv'
  OBVIOUS
<1>1. /\ groups' = groups /\ trace' = trace /\ available' = available
      /\ prepared' = prepared /\ results' = results /\ calls' = calls /\ settled' = settled
  BY DEF vars
<1>2. CallsGrow
  BY <1>1 DEF CallsGrow
<1>3. PreparedIsSaid' /\ prepared' \in [Texts -> Seq(Replies)]
  BY <1>1, <1>2, PreparedStays DEF CoreInv
<1> QED
  BY <1>1, <1>2, <1>3, NoneMore

\* The policies of v2.1 diagnose every claim anew and withdraw what is the model's alone.
LEMMA StepSettles == Promises /\ CoreInv /\ Settle => CoreInv'
<1> SUFFICES ASSUME Promises, CoreInv, Settle PROVE CoreInv'
  OBVIOUS
<1>1. /\ results' = [n \in DOMAIN results |-> Settled(trace.claims[n], results[n])]
      /\ settled' = TRUE /\ Profile.safety /\ Len(results) = Len(trace.claims)
      /\ trace' = trace /\ available' = available /\ groups' = groups
      /\ prepared' = prepared /\ calls' = calls
  BY DEF Settle
<1>2. /\ IsTrace(trace) /\ results \in Seq(Results) /\ Len(results) \in Nat
      /\ DOMAIN results = 1..Len(results) /\ DOMAIN results = DOMAIN trace.claims
  <2>1. IsTrace(trace) /\ results \in Seq(Results)
    BY DEF CoreInv, CoreTypes, Promises
  <2>2. DOMAIN trace.claims = 1..Len(trace.claims)
    BY <2>1 DEF IsTrace
  <2>3. Len(results) \in Nat /\ DOMAIN results = 1..Len(results)
    BY <2>1
  <2> QED
    BY <1>1, <2>1, <2>2, <2>3
<1>3. ASSUME NEW n \in DOMAIN results, NEW r, r = results[n], NEW s, s = results'[n]
      PROVE  /\ s \in Results
             /\ s.verdict = r.verdict /\ s.confidence = r.confidence /\ s.route = r.route
             /\ s.abstained = r.abstained /\ s.citation = r.citation /\ s.text = r.text
             /\ s.green => /\ ~s.abstained /\ s.verdict = "supported" /\ s.confidence >= 90
                           /\ s.citation \in {"correct", "not_applicable"}
                           /\ LastCondition(trace.claims[n]) = "current_canonical" /\ ~IsNliOnly(s)
  <2>1. r \in Results /\ s = Settled(trace.claims[n], r) /\ n \in DOMAIN trace.claims
    BY <1>1, <1>2, <1>3
  <2> QED
    BY <1>2, <2>1, SettledKinds
<1>4. CallsGrow
  BY <1>1 DEF CallsGrow
<1>5. results' \in Seq(Results) /\ Len(results') = Len(results) /\ DOMAIN results' = DOMAIN results
  <2>1. \A n \in 1..Len(results) : results'[n] \in Results
    BY <1>2, <1>3
  <2>2. results' = [n \in 1..Len(results) |-> results'[n]]
    BY <1>1, <1>2
  <2> QED
    BY <1>2, <2>1, <2>2
<1>6. CoreTypes'
  BY <1>1, <1>5, SameTrace DEF CoreInv, CoreTypes
<1>7. GroupsAreOpen' /\ PreparedIsSaid'
  <2>1. PreparedIsSaid'
    BY <1>1, <1>4, PreparedStays DEF CoreInv
  <2> QED
    BY <1>1, <2>1, SameTrace DEF CoreInv, GroupsAreOpen
<1>8. ASSUME NEW n \in DOMAIN results', NEW s \in {results'[n]} PROVE Grounded(n, s)'
  <2>1. PICK r : r = results[n]
    OBVIOUS
  <2>2. n \in DOMAIN results /\ Grounded(n, r)
    BY <1>5, <2>1 DEF CoreInv
  <2>3. /\ s.verdict = r.verdict /\ s.confidence = r.confidence /\ s.route = r.route
        /\ s.abstained = r.abstained /\ s.citation = r.citation /\ s.text = r.text
        /\ s.green => /\ ~s.abstained /\ s.verdict = "supported" /\ s.confidence >= 90
                      /\ s.citation \in {"correct", "not_applicable"}
                      /\ LastCondition(trace.claims[n]) = "current_canonical" /\ ~IsNliOnly(s)
    BY <1>3, <1>8, <2>1, <2>2
  <2>4. Strong(n, s)'
    BY <1>1, <2>2, <2>3, SameTrace DEF Grounded, Strong
  <2>5. Diagnosed(n, s)'
    BY <1>1, <2>3, SameTrace DEF Diagnosed
  <2>6. Closed(n, s)'
    <3>1. \A v : Said(trace.claims[n], v) => Said(trace.claims[n], v)'
      BY <1>1, <1>4, SaidStays DEF CoreInv
    <3> QED
      BY <1>1, <2>2, <2>3, <3>1, SameTrace DEF Grounded, Closed
  <2> QED
    BY <1>1, <2>2, <2>3, <2>4, <2>5, <2>6, SameTrace DEF Grounded
<1>9. settled' => Profile'.safety /\ Len(results') = Len(trace'.claims)
  BY <1>1, <1>5, SameTrace
<1> QED
  BY <1>6, <1>7, <1>8, <1>9 DEF CoreInv

LEMMA CoreMoves == Promises /\ CoreInv /\ [Next]_vars => CoreInv'
BY StepByText, StepByModel, StepByGroup, StepAsk, StepSkip, StepSettles, StepStutters DEF Next

-----------------------------------------------------------------------------
(* The theorems.                                                           *)

LEMMA CoreInvHolds ==
    ASSUME Promises
    PROVE  Spec => []CoreInv
<1>1. Init => CoreInv
  BY CoreStarts
<1>2. CoreInv /\ [Next]_vars => CoreInv'
  BY CoreMoves
<1> QED
  BY <1>1, <1>2, PTL DEF Spec

\* A command that fails on anything that is not green lets only green claims pass.
LEMMA PassingIsGreen ==
    ASSUME ~ShouldFail({"non_green"})
    PROVE  results # <<>> /\ \A n \in DOMAIN results : results[n].green
<1>1. {"non_green"} \cap {"any_failure", "non_green"} # {}
  OBVIOUS
<1>2. OverallStatus = "green"
  BY <1>1 DEF ShouldFail
<1> QED
  BY <1>2 DEF OverallStatus

LEMMA CoreInvIsEnough == Promises /\ CoreInv => GreenClaimIsEarned /\ NliFailsClosed
<1> SUFFICES ASSUME Promises, CoreInv PROVE GreenClaimIsEarned /\ NliFailsClosed
  OBVIOUS
<1>1. /\ IsTrace(trace) /\ results \in Seq(Results) /\ DOMAIN results = 1..Len(results)
      /\ \A n \in DOMAIN results : n \in DOMAIN trace.claims
  <2>1. trace \in Traces /\ results \in Seq(Results) /\ Len(results) <= Len(trace.claims)
    BY DEF CoreInv, CoreTypes
  <2>2. IsTrace(trace)
    BY <2>1 DEF Promises
  <2>3. Len(trace.claims) \in Int /\ DOMAIN trace.claims = 1..Len(trace.claims)
    BY <2>2, ClaimsAreCounted
  <2>4. Len(results) \in Nat /\ DOMAIN results = 1..Len(results)
    BY <2>1
  <2> QED
    BY <2>1, <2>2, <2>3, <2>4
<1>2. ASSUME Done, NEW n \in DOMAIN results, results[n].green
      PROVE  LET c == trace.claims[n] IN
             /\ IsCitedWell(c)
             /\ \/ IsUncontested(c, c.best)
                \/ ~Profile.safety /\ trace.source[c.best].label = "current_canonical"
             /\ \/ IsInText(c)
                \/ ~Profile.safety /\ \E i \in DOMAIN calls :
                     n \in calls[i].claims /\ calls[i].verdict.confidence >= 90
             /\ Profile.safety \/ ~trace.truncated
  <2>1. PICK r : r = results[n]
    OBVIOUS
  <2>2. PICK c : c = trace.claims[n]
    OBVIOUS
  <2>3. n \in DOMAIN trace.claims /\ r.green /\ Grounded(n, r)
    BY <1>1, <1>2, <2>1 DEF CoreInv
  <2>4. settled <=> Profile.safety
    BY <1>2 DEF CoreInv, Done
  <2>5. /\ ~r.abstained /\ r.verdict = "supported" /\ r.confidence >= 90
        /\ r.citation \in {"correct", "not_applicable"}
        /\ settled => LastCondition(c) = "current_canonical" /\ ~IsNliOnly(r)
        /\ ~settled => FirstCondition(c) = "current_canonical" /\ ~trace.truncated
    BY <2>2, <2>3 DEF Grounded, Diagnosed
  <2>6. IsCitedWell(c)
    BY <2>2, <2>3, <2>5, CitationKinds DEF Grounded
  <2>7. IsUncontested(c, c.best)
        \/ (~Profile.safety /\ trace.source[c.best].label = "current_canonical")
    BY <1>1, <2>2, <2>3, <2>4, <2>5, LastIsUncontested, FrozenIsUncontested
  <2>8. IsInText(c) \/ (~Profile.safety /\ Backed(n))
    BY <2>2, <2>3, <2>4, <2>5 DEF Grounded, Strong, IsNliOnly
  <2>9. Profile.safety \/ ~trace.truncated
    BY <2>4, <2>5
  <2> QED
    BY <2>2, <2>6, <2>7, <2>8, <2>9 DEF Backed
<1>3. GreenClaimIsEarned
  BY <1>2, PassingIsGreen DEF GreenClaimIsEarned
<1>4. NliFailsClosed
  <2> SUFFICES ASSUME NEW n \in DOMAIN results,
                      RequiresNli(trace, Decision(trace, trace.claims[n])), ~Profile.forced
               PROVE  \/ results[n].verdict = "unverifiable" /\ OverallStatus = "abstained"
                      \/ Said(trace.claims[n], results[n].verdict)
                      \/ Profile.prefer /\ \E v \in Verdicts : Said(trace.claims[n], v)
    BY DEF NliFailsClosed
  <2>1. PICK r : r = results[n]
    OBVIOUS
  <2>2. Closed(n, r)
    BY <2>1 DEF CoreInv, Grounded
  <2>3. r.abstained => OverallStatus = "abstained"
    <3>1. results # <<>>
      BY <1>1
    <3> QED
      BY <2>1, <3>1 DEF OverallStatus
  <2> QED
    BY <2>1, <2>2, <2>3 DEF Closed
<1> QED
  BY <1>3, <1>4

\* Every result, call and verdict that is kept is of its kind, whatever the traces.
THEOREM CoreTypesHold ==
    ASSUME Promises
    PROVE  Spec => []CoreTypes
<1>1. CoreInv => CoreTypes
  BY DEF CoreInv
<1> QED
  BY <1>1, CoreInvHolds, PTL

\* A claim shown green is in the text, cited well and rests on a source that nothing
\* speaks against, and a passing command has seen only such claims: for all traces,
\* all that the model may say and every order of groups (GreenClaimIsEarned).
THEOREM GreenIsEarned ==
    ASSUME Promises
    PROVE  Spec => []GreenClaimIsEarned
<1>1. CoreInv => GreenClaimIsEarned
  BY CoreInvIsEnough
<1> QED
  BY <1>1, CoreInvHolds, PTL

\* What the text leaves open is decided by a call about its words that was sure, or
\* by nothing (NliFailsClosed).
THEOREM OpenClaimsFailClosed ==
    ASSUME Promises
    PROVE  Spec => []NliFailsClosed
<1>1. CoreInv => NliFailsClosed
  BY CoreInvIsEnough
<1> QED
  BY <1>1, CoreInvHolds, PTL

=============================================================================
