---------------------------- MODULE SemanticCore -----------------------------
(***************************************************************************)
(* The selective verifiers semantic_core_v2 and semantic_core_v2_1 on one  *)
(* trace.  The text decides on a claim if it can; if not, a local NLI      *)
(* model is asked, for v2.1 first about groups of claims that rest on one  *)
(* source.  v2.1 wraps the model in two guards, and when all claims are    *)
(* verified judges their sources anew and withdraws some greens.           *)
(*                                                                         *)
(* A trace is what apply_limits leaves of it and the analysis of its words *)
(* finds:                                                                  *)
(*   claims     a sequence of [text, match, exact, best, spans, guarded,   *)
(*              clash, cite, cited]: its words; its match with the best    *)
(*              spans of the contexts (ClaimVerdict), whether they have    *)
(*              its very words; the best context and the spans chosen in   *)
(*              order; whether its facts are too many to compare; the      *)
(*              contexts it observably conflicts with; the id its citation *)
(*              names or None, and its match with that context;            *)
(*   contexts, source   their ids, and source[k], the metadata of k;       *)
(*   required   whether claims must be cited;                              *)
(*   evidence   where the missing evidence is, as the metadata of the      *)
(*              trace tells: "candidates", "reranked" (in the candidates   *)
(*              of a reranker), "corpus", "nowhere", "chunked", "unknown"; *)
(*   declines   whether the answer says that it cannot answer;             *)
(*   truncated  whether a limit cut off part of the input;                 *)
(*   profile    [nli, forced, prefer, sources, citations, safety]: the     *)
(*              profile; safety stands for the policies of v2.1.           *)
(* Scores and confidences are in percent.                                  *)
(***************************************************************************)
EXTENDS ClaimVerdict, Sequences, FiniteSetsExt

CONSTANTS
    Traces,
    Confidences  \* of the NLI model

VARIABLES
    trace,
    available,  \* whether there is an NLI model
    groups,     \* groups of claims still to be asked about, each a set of them
    prepared,   \* prepared[t]: verdicts for claims with text t, of their groups
    results,    \* the results of the claims verified so far
    calls,      \* calls of the NLI model: the texts asked about and the verdict
    settled     \* whether the policies of v2.1 have been applied

vars == <<trace, available, groups, prepared, results, calls, settled>>

Profile == trace.profile
Texts == {trace.claims[c].text : c \in DOMAIN trace.claims}

-----------------------------------------------------------------------------
(* The condition of the source a claim rests on, as the cores read it from *)
(* metadata: src[k] of context k is                                        *)
(*                                                                         *)
(*   label        the condition its status words name, or "";              *)
(*   stale, superseded, disputed   flags;                                  *)
(*   replacedBy, replaces, conflicts   the ids of other sources it names;  *)
(*   canonical    TRUE, FALSE or None, if nothing says so;                 *)
(*   current, fresh   the same of its flag and its freshness word;         *)
(*   authority    its score in percent, or None;                           *)
(*   lineage      the families and documents it says it belongs to;        *)
(*   version, time   0 if not given.                                       *)

Conditions == {"current_canonical", "current_noncanonical", "stale", "superseded",
               "low_authority", "conflicting_authorities", "unknown"}

IsLow(m) == m.authority # None /\ m.authority < 40
IsAuthoritative(m) == m.canonical = TRUE \/ (m.authority # None /\ m.authority >= 85)

\* What canonical and current metadata amount to; cur is what _current returns.
Standing(m, cur) ==
    IF m.canonical = TRUE /\ cur # FALSE THEN "current_canonical"
    ELSE IF m.canonical = FALSE /\ cur # FALSE THEN "current_noncanonical"
    ELSE "unknown"

\* assess_source_condition of v2.  The word "unknown" hides the flag superseded.
FrozenCondition(k, src, contexts) ==
    LET m == src[k] IN
    IF m.label \notin {"", "unknown"} THEN m.label
    ELSE IF m.label = "" /\ m.superseded THEN "superseded"
    ELSE IF \E j \in contexts \ {k} : k \in src[j].replaces THEN "superseded"
    ELSE IF m.disputed \/ m.conflicts \cap contexts # {} THEN "conflicting_authorities"
    ELSE IF m.stale THEN "stale"
    ELSE IF IsLow(m) THEN "low_authority"
    ELSE Standing(m, IF m.stale \/ m.superseded THEN FALSE ELSE m.current)

\* _current of v2.1, as all that follows.
Current(m) ==
    IF m.stale \/ m.superseded THEN FALSE
    ELSE IF m.current # None THEN m.current
    ELSE IF m.label \in {"current_canonical", "current_noncanonical"} THEN TRUE
    ELSE IF m.label \in {"stale", "superseded"} THEN FALSE
    ELSE m.fresh

\* _explicit_replacement: some other context replaces k.
IsReplaced(k, src, contexts) ==
    \E j \in contexts \ {k} : j \in src[k].replacedBy \/ k \in src[j].replaces

\* _linked_conflicts: the contexts that k, or they themselves, say are in conflict.
Linked(k, src, contexts) ==
    IF src[k].disputed THEN contexts \ {k}
    ELSE {j \in contexts \ {k} : j \in src[k].conflicts \/ k \in src[j].conflicts}

\* _same_lineage and _is_newer
IsNewer(m, n) ==
    /\ m.lineage \cap n.lineage # {}
    /\ \/ m.version # 0 /\ n.version > m.version
       \/ m.time # 0 /\ n.time > m.time
       \/ Current(m) = FALSE /\ Current(n) = TRUE

Newer(k, src, contexts) == {j \in contexts \ {k} : IsNewer(src[k], src[j])}

\* Mutation: what a source says of its own state is believed first.
ConditionByLabel(k, clash, src, contexts) ==
    LET m == src[k] IN
    IF m.label \notin {"", "unknown"} THEN m.label
    ELSE IF Newer(k, src, contexts) # {} THEN "stale"
    ELSE Standing(m, Current(m))

\* assess_source_condition_v2_1: clash is the set of contexts whose text observably
\* conflicts with the claim.
Condition(k, clash, src, contexts) ==
    LET m == src[k]
        conflicting == clash \cap (contexts \ {k})
        newer == Newer(k, src, contexts) IN
    IF m.label = "superseded" \/ m.superseded THEN "superseded"
    ELSE IF m.label = "stale" \/ m.stale THEN "stale"
    ELSE IF IsReplaced(k, src, contexts) THEN "superseded"
    ELSE IF m.label = "conflicting_authorities" \/ Linked(k, src, contexts) # {}
         THEN "conflicting_authorities"
    ELSE IF newer \cap conflicting # {} THEN "superseded"
    ELSE IF newer # {} THEN "stale"
    ELSE IF IsAuthoritative(m) /\ \E j \in conflicting : IsAuthoritative(src[j])
         THEN "conflicting_authorities"
    ELSE IF m.label = "low_authority" \/ IsLow(m) THEN "low_authority"
    ELSE IF m.label = "current_noncanonical" THEN m.label
    ELSE IF m.label = "current_canonical" /\ Standing(m, Current(m)) # "current_noncanonical"
         THEN m.label
    ELSE Standing(m, Current(m))

-----------------------------------------------------------------------------
(* What the analysis of a trace is taken to return.                        *)

Evidence == {"candidates", "reranked", "corpus", "nowhere", "chunked", "unknown"}

\* What the analysis of the words promises: claims with the same words match alike,
\* and a best span is one of the contexts.
IsTrace(t) ==
    /\ Len(t.claims) \in Nat /\ DOMAIN t.claims = 1..Len(t.claims)
    /\ \A n \in DOMAIN t.claims :
          LET c == t.claims[n] IN
          /\ c.match \in Matches /\ c.best \in t.contexts \cup {None}
          /\ \A m \in DOMAIN t.claims : t.claims[m].text = c.text => t.claims[m].match = c.match
    /\ \A k \in t.contexts :
          t.source[k].label \in Conditions \cup {""} /\ t.source[k].version \in Nat
    /\ t.evidence \in Evidence

Promises == (\A t \in Traces : IsTrace(t)) /\ Confidences \subseteq Nat

-----------------------------------------------------------------------------
(* The decision of the text.                                               *)

HasConflict(m) == m.conflicting \/ Verdict(m, TRUE, "semantic", TRUE) = "contradicted"

\* deterministic_decision.  The confidences that depend on scores are all below
\* (75, 79) or all above (86, 94) every threshold they are compared with.
DeterministicDecision(t, c) ==
    LET m == c.match IN
    CASE t.contexts = {} -> [verdict |-> "unverifiable", confidence |-> 99]
      [] t.contexts # {} ->
           IF HasConflict(m) /\ m.score >= 30 THEN [verdict |-> "contradicted", confidence |-> 94]
           ELSE IF AllMatched(m) /\ ~m.conflicting /\ m.score >= 68
                THEN [verdict |-> "supported", confidence |-> 94]
           ELSE IF c.exact /\ m.score >= 62 THEN [verdict |-> "supported", confidence |-> 92]
           ELSE IF m.score < 18 THEN [verdict |-> "unsupported", confidence |-> 86]
           ELSE IF Verdict(m, TRUE, "semantic", TRUE) = "partially_supported"
                THEN [verdict |-> "partially_supported", confidence |-> 79]
           ELSE [verdict |-> "unverifiable", confidence |-> 75]

\* Verdicts below deterministic_accept_confidence are of these two kinds.
RequiresNli(t, d) == t.contexts # {} /\ d.verdict \in {"partially_supported", "unverifiable"}

\* bounded_deterministic_decision, of v2.1.
Decision(t, c) ==
    IF t.profile.safety /\ c.guarded
    THEN [verdict |-> "unverifiable", confidence |-> IF t.contexts = {} THEN 99 ELSE 75]
    ELSE DeterministicDecision(t, c)

-----------------------------------------------------------------------------
(* What the NLI model says, and the guards of v2.1 around it.              *)

\* _to_judge_verdict: grouped, whether the verdict is that of a group.
Labelled(label, confidence) ==
    [label |-> label, confidence |-> confidence, grouped |-> FALSE,
     verdict |-> CASE label = "entailment" -> "supported"
                   [] label = "contradiction" -> "contradicted"
                   [] label = "neutral" -> IF confidence >= 55 THEN "unsupported" ELSE "unverifiable"]

\* LearnedSupportRiskGate: the evidence has a conflict with the claim, and the
\* risk model is sure of the support ("low" risk), uncertain, or rejects it.
RiskGate(v, conflict, risk) ==
    IF v.verdict # "supported" \/ conflict = "none" \/ risk = "low" THEN v
    ELSE [verdict |-> IF risk = "high" THEN "unsupported" ELSE "unverifiable",
          label |-> "neutral", confidence |-> 80, grouped |-> FALSE]

\* ObservableConflictGuard
ConflictGuard(v, conflict) ==
    IF v.verdict # "supported" \/ conflict = "none" THEN v
    ELSE [verdict |-> conflict,
          label |-> IF conflict = "contradicted" THEN "contradiction" ELSE "neutral",
          confidence |-> Max({90, v.confidence}), grouped |-> FALSE]

Failed == [verdict |-> "failed", label |-> "failed", confidence |-> 0, grouped |-> FALSE]

\* What a call of the model may come to.
ModelVerdicts ==
    LET Bare == {Labelled(label, p) : label \in {"entailment", "contradiction", "neutral"},
                                      p \in Confidences}
        Guarded == {ConflictGuard(RiskGate(v, conflict, risk), conflict) :
                       v \in Bare, conflict \in {"none", "contradicted", "unsupported"},
                       risk \in {"low", "uncertain", "high"}} IN
    {Failed} \cup IF Profile.safety THEN Guarded ELSE Bare

-----------------------------------------------------------------------------
(* The groups of v2.1.                                                     *)

IsGroupable(t, c) ==
    /\ RequiresNli(t, DeterministicDecision(t, c))
    /\ c.best # None
    /\ AllMatched(c.match) /\ ~c.match.conflicting

\* The claims of context k that groups are made of.
Run(t, k) == {c \in DOMAIN t.claims : IsGroupable(t, t.claims[c]) /\ t.claims[c].best = k}

\* _claim_groups, for the claims of one context: three at a time, in their order, but
\* no one is left alone if four are left.
SplitRun(run) ==
    LET n == Cardinality(run)
        Place(c) == Cardinality({d \in run : d <= c})
        Part(c) == IF n % 3 = 1 /\ Place(c) = n - 1 THEN n \div 3 ELSE (Place(c) - 1) \div 3 IN
    {g \in {{d \in run : Part(d) = Part(c)} : c \in run} : Cardinality(g) > 1}

ClaimGroups(t) == UNION {SplitRun(Run(t, k)) : k \in t.contexts}

\* Groups are asked about by their contexts, as the claims come to them, and in order.
Lead(g) == Min(Run(trace, trace.claims[Min(g)].best))
IsNext(g) ==
    \A h \in groups : Lead(g) < Lead(h) \/ (Lead(g) = Lead(h) /\ Min(g) <= Min(h))

\* _group_contexts: each member adds a span of its own, of its first two.
HasGroupContexts(g) ==
    LET First(c) == {trace.claims[c].spans[s] : s \in DOMAIN trace.claims[c].spans \cap 1..2} IN
    \A c \in g : First(c) \ UNION {First(d) : d \in {d \in g : d < c}} # {}

IsEntailed(v) == v.verdict = "supported" /\ v.label = "entailment" /\ v.confidence >= 95

\* Mutation: each member gets what was said of the group.
SharedAsIs(v) == [v EXCEPT !.grouped = TRUE]

\* What a group's verdict becomes for each of its members.
Shared(v) ==
    IF IsEntailed(v) THEN [v EXCEPT !.grouped = TRUE]
    ELSE [verdict |-> "unverifiable", label |-> "group_unresolved", confidence |-> 0, grouped |-> TRUE]

-----------------------------------------------------------------------------
(* The cascade.                                                            *)

\* _accepted_nli_verdict: the verdict that counts, "none" if it is too weak.
Accepted(v) ==
    CASE v.label = "entailment" /\ v.confidence >= 80 -> "supported"
      [] v.label = "contradiction" /\ v.confidence >= 80 -> "contradicted"
      [] v.label = "neutral" /\ v.confidence >= 70 -> "unsupported"
      [] OTHER -> "none"

Resolved(verdict, confidence, route) ==
    [verdict |-> verdict, confidence |-> confidence, route |-> route, abstained |-> FALSE]
Abstained(confidence, route) ==
    [verdict |-> "unverifiable", confidence |-> confidence, route |-> route, abstained |-> TRUE]

\* _unresolved
Unresolved(d) ==
    LET confidence == Min({79, d.confidence}) IN
    IF Profile.forced THEN Resolved(d.verdict, confidence, "unresolved")
    ELSE Abstained(confidence, "unresolved")

\* resolve_cascade if NLI is not asked,
Undisputed(d) ==
    IF RequiresNli(trace, d) THEN Unresolved(d)
    ELSE [Resolved(d.verdict, d.confidence, "deterministic") EXCEPT !.abstained = d.verdict = "unverifiable"]

\* and once it has answered v.
Resolve(d, v) ==
    LET said == Accepted(v)
        both == Max({d.confidence, v.confidence}) IN
    IF said = "none" THEN Unresolved(d)
    ELSE IF d.verdict = "unverifiable" \/ (said = "supported" /\ v.grouped)
         THEN Resolved(said, v.confidence, "nli")
    ELSE IF d.verdict = said THEN Resolved(said, Min({98, both}), "agreement")
    ELSE IF Profile.prefer \/ Profile.forced
         THEN Resolved(d.verdict, Min({79, d.confidence}), "disagreement")
    ELSE Abstained(Min({79, both}), "disagreement")

-----------------------------------------------------------------------------
(* Citation, source and diagnosis.                                         *)

\* assess_citation
CitationState(c) ==
    IF ~Profile.citations THEN "not_applicable"
    ELSE IF c.cite = None THEN IF trace.required THEN "missing" ELSE "not_applicable"
    ELSE IF c.cite \notin trace.contexts THEN "malformed"
    ELSE LET v == Verdict(c.cited, TRUE, "semantic", TRUE) IN
         CASE v = "supported" -> "correct"
           [] v = "partially_supported" -> "partial"
           [] OTHER -> "wrong_source"

\* The source condition of the cascade, and that of the policies of v2.1.
FirstCondition(c) ==
    IF ~Profile.sources \/ c.best = None THEN "unknown"
    ELSE FrozenCondition(c.best, trace.source, trace.contexts)
LastCondition(c) ==
    IF ~Profile.sources \/ c.best = None THEN "unknown"
    ELSE Condition(c.best, c.clash, trace.source, trace.contexts)

Label(failure, root, requirement) ==
    [failure |-> failure, root |-> root, requirement |-> requirement]

\* _unsupported_diagnosis and _insufficient_root
UnsupportedLabel ==
    LET L(failure, root) == Label(failure, root, "must_abstain") IN
    CASE trace.evidence = "candidates" -> L("context_selection_error", "insufficient_selected_context")
      [] trace.evidence = "reranked"   -> L("context_selection_error", "reranking_failure")
      [] trace.evidence = "corpus"     -> L("retrieval_miss", "retrieval_miss")
      [] trace.evidence = "nowhere"    -> L("insufficient_evidence", "corpus_gap")
      [] trace.evidence = "chunked"    -> L("context_selection_error", "chunking_issue")
      [] trace.evidence = "unknown"    -> L("insufficient_evidence", "not_observable")
InsufficientRoot ==
    CASE trace.evidence = "nowhere" -> "corpus_gap"
      [] trace.evidence = "chunked" -> "chunking_issue"
      [] OTHER -> "not_observable"

FirstLabel(verdict, citation, condition) ==
    IF verdict = "supported" /\ condition \notin {"current_canonical", "unknown"}
    THEN Label("source_condition_failure",
               CASE condition \in {"stale", "superseded"} -> "stale_or_superseded_source"
                 [] condition \in {"current_noncanonical", "low_authority"} ->
                        "noncanonical_or_low_authority_source"
                 [] condition = "conflicting_authorities" -> "conflicting_contexts",
               IF condition = "conflicting_authorities" THEN "must_abstain"
               ELSE "may_answer_with_qualification")
    ELSE IF citation \in {"partial", "wrong_source", "missing", "malformed"}
    THEN Label("citation_mismatch", "citation_mismatch", "may_answer_with_qualification")
    ELSE CASE verdict = "contradicted" ->
                Label("contradiction", IF condition = "conflicting_authorities" THEN "conflicting_contexts"
                                       ELSE "answer_overreach", "must_abstain")
           [] verdict = "partially_supported" ->
                Label("answer_overreach", "answer_overreach", "may_answer_with_qualification")
           [] verdict = "unsupported" -> UnsupportedLabel
           [] verdict = "unverifiable" -> Label("insufficient_evidence", InsufficientRoot, "must_abstain")
           [] verdict = "supported" -> Label("none", "none", "must_answer")

\* diagnose: an answer that had to abstain and did not is the failure.
Diagnose(r, condition) ==
    LET l == FirstLabel(r.verdict, r.citation, condition)
        spoke == l.requirement = "must_abstain" /\ ~trace.declines
        qualified == \/ l.requirement = "may_answer_with_qualification"
                     \/ condition \in {"current_noncanonical", "unknown"} IN
    [r EXCEPT
        !.condition = condition, !.requirement = l.requirement, !.qualified = qualified,
        !.failure = IF spoke THEN "should_have_abstained" ELSE l.failure,
        !.root = IF spoke /\ l.root = "not_observable" THEN "failure_to_abstain" ELSE l.root,
        !.green = /\ ~r.abstained /\ r.verdict = "supported" /\ l.failure = "none"
                  /\ r.citation \in {"correct", "not_applicable"}
                  /\ condition \in {"current_canonical", "unknown"}
                  /\ r.confidence >= 90 /\ ~qualified]

\* What _verify_claim makes of claim c: nli is the model's verdict, None without one.
Result(c, resolution, nli) ==
    LET blank == [verdict |-> resolution.verdict, confidence |-> resolution.confidence,
                  route |-> resolution.route, abstained |-> resolution.abstained,
                  condition |-> "unknown", requirement |-> "must_answer", qualified |-> FALSE,
                  failure |-> "none", root |-> "none", green |-> FALSE,
                  nli |-> nli, citation |-> CitationState(c), text |-> Decision(trace, c).verdict]
        r == Diagnose(blank, FirstCondition(c)) IN
    IF trace.truncated THEN [r EXCEPT !.green = FALSE, !.qualified = TRUE] ELSE r

\* _is_ambiguous_nli_only_support
IsNliOnly(r) == r.route = "nli" /\ r.verdict = "supported" /\ r.text = "unverifiable"

\* _apply_safety_policy
Settled(c, r) ==
    LET anew == Diagnose(r, LastCondition(c)) IN
    IF IsNliOnly(r) THEN [anew EXCEPT !.green = FALSE, !.qualified = TRUE] ELSE anew

-----------------------------------------------------------------------------
(* The runs.                                                               *)

Init ==
    /\ trace \in Traces /\ available \in BOOLEAN
    /\ groups = IF Profile.safety /\ Profile.nli /\ available THEN ClaimGroups(trace) ELSE {}
    /\ prepared = [t \in Texts |-> <<>>]
    /\ results = <<>> /\ calls = <<>> /\ settled = FALSE

\* A call of the model about some claims.
Call(claims, v) == calls' = Append(calls, [claims |-> claims, verdict |-> v])

\* _prepare_group of GroupedClaimNLI, and a group that has no spans for a member.
AskGroup ==
    \E g \in groups :
        /\ IsNext(g) /\ HasGroupContexts(g)
        /\ groups' = groups \ {g}
        /\ \E v \in ModelVerdicts :
              LET Members(t) == Cardinality({c \in g : trace.claims[c].text = t}) IN
              /\ Call(g, v)
              /\ prepared' = [t \in Texts |-> prepared[t] \o [j \in 1..Members(t) |-> Shared(v)]]
        /\ UNCHANGED <<trace, available, results, settled>>

SkipGroup ==
    \E g \in groups :
        /\ IsNext(g) /\ ~HasGroupContexts(g)
        /\ groups' = groups \ {g}
        /\ UNCHANGED <<trace, available, prepared, results, calls, settled>>

\* The next claim, its decision, and whether NLI is asked about it.
Turn == groups = {} /\ Len(results) < Len(trace.claims)
Claim == trace.claims[Len(results) + 1]
Asks(c) ==
    RequiresNli(trace, Decision(trace, c)) /\ Profile.nli /\ available /\ c.spans # <<>>

VerifyByText ==
    /\ Turn /\ ~Asks(Claim)
    /\ results' = Append(results, Result(Claim, Undisputed(Decision(trace, Claim)), None))
    /\ UNCHANGED <<trace, available, groups, prepared, calls, settled>>

VerifyByGroup ==
    /\ Turn /\ Asks(Claim) /\ prepared[Claim.text] # <<>>
    /\ LET v == Head(prepared[Claim.text]) IN
       results' = Append(results, Result(Claim, Resolve(Decision(trace, Claim), v), v))
    /\ prepared' = [prepared EXCEPT ![Claim.text] = Tail(@)]
    /\ UNCHANGED <<trace, available, groups, calls, settled>>

VerifyByModel ==
    /\ Turn /\ Asks(Claim) /\ prepared[Claim.text] = <<>>
    /\ \E v \in ModelVerdicts :
          /\ Call({Len(results) + 1}, v)
          /\ results' = Append(results, Result(Claim, Resolve(Decision(trace, Claim), v),
                                               IF v = Failed THEN None ELSE v))
    /\ UNCHANGED <<trace, available, groups, prepared, settled>>

Settle ==
    /\ groups = {} /\ Len(results) = Len(trace.claims) /\ Profile.safety /\ ~settled
    /\ results' = [n \in DOMAIN results |-> Settled(trace.claims[n], results[n])]
    /\ settled' = TRUE
    /\ UNCHANGED <<trace, available, groups, prepared, calls>>

Next == AskGroup \/ SkipGroup \/ VerifyByText \/ VerifyByGroup \/ VerifyByModel \/ Settle

Spec == Init /\ [][Next]_vars

Done == Len(results) = Len(trace.claims) /\ (Profile.safety => settled)

\* _overall_status, and what verify_v2_command fails on.
OverallStatus ==
    IF results = <<>> THEN "insufficient_input"
    ELSE IF \E n \in DOMAIN results : results[n].abstained THEN "abstained"
    ELSE IF \A n \in DOMAIN results : results[n].green THEN "green" ELSE "warning"

ShouldFail(rules) ==
    \/ rules \cap {"any_failure", "non_green"} # {} /\ OverallStatus # "green"
    \/ OverallStatus \in rules \cap {"warning", "abstained"}

-----------------------------------------------------------------------------
(* Properties.                                                             *)

\* All facts of the claim, or its very words, are in the text, which has no other value.
IsInText(c) == c.match.score >= 62 /\ ~HasConflict(c.match) /\ (AllMatched(c.match) \/ c.exact)

IsCitedWell(c) ==
    \/ ~Profile.citations
    \/ c.cite = None /\ ~trace.required
    \/ c.cite \in trace.contexts /\ Verdict(c.cited, TRUE, "semantic", TRUE) = "supported"

\* No source's metadata, as far as the version reads them, speak against source k.
IsUncontested(c, k) ==
    LET m == trace.source[k]
        others == trace.contexts \ {k} IN
    /\ ~m.stale /\ ~m.superseded /\ ~IsLow(m) /\ m.conflicts \cap others = {}
    /\ \A j \in others : ~m.disputed /\ k \notin trace.source[j].replaces
    /\ Profile.safety => \A j \in others :
          LET n == trace.source[j] IN
          /\ j \notin m.replacedBy /\ k \notin n.conflicts
          /\ m.lineage \cap n.lineage # {} => m.version = 0 \/ n.version <= m.version
          /\ ~(j \in c.clash /\ m.canonical = TRUE /\ n.canonical = TRUE)

\* A claim that v2.1 shows green is in the text, cited well, and rests on a source
\* that no metadata speak against, whatever it says of itself and the model said;
\* for v2 a model that is sure may do for the text, and the source's own word for
\* the metadata, but not on truncated input.  A command that fails on anything
\* that is not green passes only such claims, and at least one of them
\* (_verify_claim, _apply_safety_policy, verify_v2_command).
GreenClaimIsEarned ==
    Done =>
        /\ \A n \in DOMAIN results :
              LET c == trace.claims[n] IN
              results[n].green =>
                /\ IsCitedWell(c)
                /\ \/ IsUncontested(c, c.best)
                   \/ ~Profile.safety /\ trace.source[c.best].label = "current_canonical"
                /\ \/ IsInText(c)
                   \/ ~Profile.safety /\ \E i \in DOMAIN calls :
                        n \in calls[i].claims /\ calls[i].verdict.confidence >= 90
                /\ Profile.safety \/ ~trace.truncated
        /\ ~ShouldFail({"non_green"}) => results # <<>> /\ \A n \in DOMAIN results : results[n].green

\* The calls of the model about the words of claim c, and what one of them decides.
Asked(c) == {i \in DOMAIN calls : \E n \in calls[i].claims : trace.claims[n].text = c.text}
Said(c, verdict) ==
    \E i \in Asked(c) :
        /\ calls[i].verdict.verdict # "failed" /\ Accepted(calls[i].verdict) = verdict
        /\ Cardinality(calls[i].claims) > 1 => IsEntailed(calls[i].verdict)

\* A claim the text leaves open is decided only if a call about its words, alone or
\* in a group, came back, sure enough of the verdict, and for a group sure that it
\* supports every member; if not, it is unverifiable and the trace abstains
\* (resolve_cascade, GroupedClaimNLI).
NliFailsClosed ==
    \A n \in DOMAIN results :
        LET c == trace.claims[n] IN
        RequiresNli(trace, Decision(trace, c)) /\ ~Profile.forced =>
            \/ results[n].verdict = "unverifiable" /\ OverallStatus = "abstained"
            \/ Said(c, results[n].verdict)
            \/ Profile.prefer /\ \E v \in Verdicts : Said(c, v)

\* Input that was cut off suppresses green output (apply_limits and the runners):
\* docs/semantic-core-v2-migration.md, "Every truncation is recorded and suppresses
\* green output".
TruncationSuppressesGreen ==
    Done /\ trace.truncated => \A n \in DOMAIN results : ~results[n].green
=============================================================================
