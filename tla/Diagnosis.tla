------------------------------ MODULE Diagnosis ------------------------------
(***************************************************************************)
(* From a failed trace to a repaired one: contexttrace diagnose (diagnose), *)
(* the audit of captured evidence (evidence_integrity) and of a corpus     *)
(* (verify/audit), contexttrace repair (repair), and the gates a plan ends *)
(* in: inspect, diagnose, audit and suite.                                 *)
(*                                                                         *)
(* All of them read one trace file, repair and --generate-test twice, and  *)
(* the application may capture the trace again at any time.                *)
(*                                                                         *)
(* A trace has a shape: "portable"; "nested", a portable one under the key *)
(* trace; "api", with chunks for contexts; "agent", without contexts; or   *)
(* "broken", portable with a context the loader refuses.  result is what   *)
(* verification finds (Comparison), failures the failure types of its      *)
(* summary in order, contexts what was captured of each context's lineage, *)
(* events the agent's events and answer the phrases of the final answer    *)
(* that diagnosis looks for, or None if there is no answer.                *)
(***************************************************************************)
EXTENDS Comparison
LOCAL INSTANCE SequencesExt

CONSTANTS
    Captured, Recaptured,      \* traces the application captures first, and later
    MaxRecaptures, MaxCommands \* bounds

VARIABLES
    written,      \* the trace in the file, or None
    recaptures,
    doing,        \* the command that has read the file once, or None
    plan,         \* the last repair plan, or None
    test,         \* the generated regression test, or None
    commands      \* how many commands were begun

vars == <<written, recaptures, doing, plan, test, commands>>

Init ==
    /\ written \in Captured
    /\ recaptures = 0 /\ doing = None /\ plan = None /\ test = None /\ commands = 0

Each(s, x) == [k \in DOMAIN s |-> x]

\* The elements of a sequence, each where it comes first.
Distinct(s) ==
    LET First(k) == \A j \in 1..(k - 1) : s[j] # s[k]
        first == SelectSeq([k \in DOMAIN s |-> k], First) IN
    [k \in DOMAIN first |-> s[first[k]]]

UpTo(s, n) == SubSeq(s, 1, IF Len(s) < n THEN Len(s) ELSE n)

-----------------------------------------------------------------------------
(* Reading a trace.                                                        *)

\* load_trace_file: the loader of every command but diagnose.
Loadable(t) == t # None /\ t.shape = "portable"

\* _rag_trace_from_payload
IsRag(t) == t.shape \in {"portable", "nested", "api"}

\* diagnose_trace_file
Diagnosable(t) == t # None /\ (IsRag(t) \/ (t.shape = "agent" /\ t.events # <<>>))

-----------------------------------------------------------------------------
(* Evidence that was lost between a source and the context.                *)

\* _assess_context: lineage that is missing or wrong in any part is unknown.
IsCaptured(c) ==
    c.lineage # None /\ \A k \in DOMAIN c.lineage.items : c.lineage.items[k].inSource

\* A linked part counts as dropped only if another was kept, a material span always.
IssuesOf(c) ==
    LET items == c.lineage.items
        KeptOne == \E k \in DOMAIN items :
                      items[k].kind = "part" /\ items[k].required /\ items[k].kept
        LostPart(i) == i.kind = "part" /\ i.required /\ ~i.kept /\ KeptOne
        LostSpan(i) == i.kind = "span" /\ i.required /\ ~i.kept IN
    IF ~IsCaptured(c) THEN <<>>
    ELSE IF ~c.lineage.verbatim THEN <<"selected_text_not_in_source">>
    ELSE Each(SelectSeq(items, LostPart), "linked_part_dropped")
           \o Each(SelectSeq(items, LostSpan), "material_span_dropped")

\* audit_evidence_integrity, of what load_trace_file loads.
Issues(t) ==
    IF ~Loadable(t) THEN <<>>
    ELSE FlattenSeq([k \in DOMAIN t.contexts |-> IssuesOf(t.contexts[k])])

-----------------------------------------------------------------------------
(* Diagnosis.                                                              *)

High == 3
Medium == 2
Low == 1

SeverityOf(c) ==
    CASE c.verdict \in {"unsupported", "contradicted"} -> High
      [] c.verdict \in {"partially_supported", "unverifiable"} -> Medium
      [] OTHER -> Low

\* _findings, of the claims
RagFindings(t) ==
    LET Caused(c) == c.cause # NoCause
        claims == SelectSeq(t.result.claims, Caused) IN
    [k \in DOMAIN claims |->
        [source |-> "rag", type |-> claims[k].cause, severity |-> SeverityOf(claims[k]),
         claim |-> claims[k].text]]

AgentFinding(type, severity) ==
    [source |-> "agent", type |-> type, severity |-> severity, claim |-> None]

\* _final_answer_claims_success: a term counts wherever the answer contains it.
ClaimsSuccess(answer) ==
    /\ answer \cap {"booked", "scheduled", "reserved", "confirmed", "created", "sent", "updated",
                    "deleted", "completed", "resolved", "found", "submitted"} # {}
    /\ answer \cap {"not booked", "not scheduled", "could not", "couldn't", "unable",
                    "no availability", "not available"} = {}

\* _final_answer_acknowledges_negative
Acknowledges(answer) ==
    answer \cap {"no availability", "not available", "unavailable", "not found", "no results",
                 "could not", "couldn't", "unable", "failed", "error"} # {}

\* An event with an error message; a tool's result that tells of a failure, by a
\* flag, an empty list or a phrase; a trace whose final answer was captured.
IsError(e) == e.error
IsNegative(e) == e.tool /\ e.negative
HasAnswer(t) == t.answer # None

\* _diagnose_agent_payload
AgentFindings(t) ==
    LET negatives == SelectSeq(t.events, IsNegative)
        contradicted == IF HasAnswer(t) /\ ClaimsSuccess(t.answer) THEN negatives ELSE <<>>
        Missing == t.events # <<>> /\ ~HasAnswer(t)
        NotReflected == /\ HasAnswer(t) /\ negatives # <<>> /\ ~Acknowledges(t.answer)
                        /\ contradicted = <<>> IN
    (IF Missing THEN <<AgentFinding("missing_final_answer", Medium)>> ELSE <<>>)
      \o Each(SelectSeq(t.events, IsError), AgentFinding("agent_error", High))
      \o Each(contradicted, AgentFinding("tool_result_contradicted_by_final_answer", High))
      \o (IF NotReflected
          THEN <<AgentFinding("tool_result_not_reflected_in_final_answer", Medium)>> ELSE <<>>)

TypesOf(findings) == {findings[k].type : k \in DOMAIN findings}

\* _primary_issue: the first finding of the highest severity.
PrimaryIssue(t, findings) ==
    IF findings # <<>>
    THEN findings[CHOOSE k \in DOMAIN findings : \A j \in DOMAIN findings :
                    \/ findings[k].severity > findings[j].severity
                    \/ findings[k].severity = findings[j].severity /\ k <= j].type
    ELSE IF IsRag(t) /\ t.failures # <<>> THEN Head(t.failures) ELSE NoCause

Findings(t) == (IF IsRag(t) THEN RagFindings(t) ELSE <<>>) \o AgentFindings(t)

\* _failure_types
FailureTypes(t) ==
    (IF IsRag(t) THEN {t.failures[k] : k \in DOMAIN t.failures} ELSE {}) \cup TypesOf(Findings(t))

\* _trace_type
TypeOfTrace(t) == IF ~IsRag(t) THEN "agent" ELSE IF t.events = <<>> THEN "rag" ELSE "agent_rag"

\* Mutation: findings of medium risk do not fail a trace.
DiagnosisOfSevere(t) ==
    [type |-> TypeOfTrace(t), findings |-> Findings(t),
     types |-> IF FailureTypes(t) = {} THEN {NoCause} ELSE FailureTypes(t),
     failed |-> \E k \in DOMAIN Findings(t) : Findings(t)[k].severity = High,
     primary |-> PrimaryIssue(t, Findings(t))]

\* diagnose_payload, with its _summary
Diagnosis(t) ==
    [type |-> TypeOfTrace(t), findings |-> Findings(t),
     types |-> IF FailureTypes(t) = {} THEN {NoCause} ELSE FailureTypes(t),
     failed |-> FailureTypes(t) # {},
     primary |-> PrimaryIssue(t, Findings(t))]

-----------------------------------------------------------------------------
(* The audit of a corpus.                                                  *)

AuditLabels(r) == [k \in DOMAIN r.claims |-> AuditLabel(r.claims[k])]
FailedLabels(r) == {AuditLabels(r)[k] : k \in DOMAIN r.claims} \ {NoCause}
Count(r, label) == Cardinality({k \in DOMAIN r.claims : AuditLabels(r)[k] = label})

Priority == <<"retrieval_miss", "chunking_issue", "reranking_failure", "corpus_gap",
              "answer_overreach", "stale_source", "insufficient_context">>
PlaceIn(s, x) == CHOOSE k \in DOMAIN s : s[k] = x /\ \A j \in DOMAIN s : s[j] = x => k <= j

\* _primary_label
PrimaryLabel(r) ==
    IF FailedLabels(r) = {} THEN NoCause
    ELSE CHOOSE l \in FailedLabels(r) : \A m \in FailedLabels(r) :
            \/ Count(r, l) > Count(r, m)
            \/ Count(r, l) = Count(r, m) /\ PlaceIn(Priority, l) <= PlaceIn(Priority, m)

\* top_recommended_actions: three for each label, of the most claims first.
TopActions(r) ==
    LET Before(l, m) == \/ Count(r, l) > Count(r, m)
                        \/ /\ Count(r, l) = Count(r, m)
                           /\ PlaceIn(AuditLabels(r), l) < PlaceIn(AuditLabels(r), m)
        labels == SetToSortSeq(FailedLabels(r), Before) IN
    UpTo(FlattenSeq([k \in DOMAIN labels |-> [i \in 1..3 |-> <<"audit", labels[k], i>>]]), 5)

-----------------------------------------------------------------------------
(* The repair plan.                                                        *)

\* _ACTION_TEMPLATES: how many actions a root cause has.
Templates(cause) ==
    CASE cause \in {"retrieval_miss", "reranking_failure", "chunking_issue", "corpus_gap",
                    "answer_overreach", "conflicting_contexts", "stale_source",
                    "wrong_source_cited", "tool_result_contradicted_by_final_answer"} -> 2
      [] cause \in {"linked_part_dropped", "material_span_dropped", "selected_text_not_in_source",
                    "missing_cited_source", "should_have_abstained", "insufficient_context",
                    "tool_result_not_reflected_in_final_answer", "agent_error",
                    "missing_final_answer"} -> 1
      [] OTHER -> 0

\* Mutation: what was diagnosed comes before what the audit found.
RootCausesByDiagnosis(d, r, issues) ==
    LET IsCause(l) == l # NoCause IN
    Distinct(SelectSeq([k \in DOMAIN d.findings |-> d.findings[k].type] \o issues
                         \o (IF r = None THEN <<>> ELSE AuditLabels(r)), IsCause))

\* _root_causes; r is the audited result, or None.
RootCauses(d, r, issues) ==
    LET IsCause(l) == l # NoCause
        found == issues
                   \o (IF r = None THEN <<>> ELSE <<PrimaryLabel(r)>> \o AuditLabels(r))
                   \o [k \in DOMAIN d.findings |-> d.findings[k].type]
        causes == Distinct(SelectSeq(found, IsCause)) IN
    IF causes = <<>> /\ d.failed THEN <<d.primary>> ELSE causes

Action(cause, action) == [cause |-> cause, action |-> action]

\* The candidates of _repair_actions, each action where it comes first.
Proposed(causes, d, r) ==
    LET audit == IF r = None THEN <<>> ELSE TopActions(r)
        all == [k \in DOMAIN audit |-> Action(PrimaryLabel(r), audit[k])]
                 \o FlattenSeq([k \in DOMAIN causes |-> [i \in 1..Templates(causes[k]) |->
                                  Action(causes[k], <<"template", causes[k], i>>)]])
                 \o [k \in DOMAIN d.findings |->
                       Action(d.findings[k].type, <<"fix", d.findings[k].type>>)]
        actions == Distinct([k \in DOMAIN all |-> all[k].action]) IN
    [k \in DOMAIN actions |->
        all[CHOOSE j \in DOMAIN all : /\ all[j].action = actions[k]
                                      /\ \A i \in 1..(j - 1) : all[i].action # actions[k]]]

MaxActions == 8
MaxEvidence == 12

\* _repair_evidence: issues, audited claims, and findings not audited.
EvidenceOf(d, r, issues) ==
    LET Failed(k) == AuditLabels(r)[k] # NoCause
        claims == IF r = None THEN <<>> ELSE SelectSeq([k \in DOMAIN r.claims |-> k], Failed)
        audited == [k \in DOMAIN claims |->
                       [cause |-> AuditLabels(r)[claims[k]], claim |-> r.claims[claims[k]].text]]
        New(f) == f.source = "agent" \/ \A k \in DOMAIN audited : audited[k].claim # f.claim
        findings == SelectSeq(d.findings, New) IN
    UpTo([k \in DOMAIN issues |-> [cause |-> issues[k], claim |-> None]]
           \o audited
           \o [k \in DOMAIN findings |-> [cause |-> findings[k].type, claim |-> findings[k].claim]],
         MaxEvidence)

\* _verification_commands
VerificationCommands(type, corpus) ==
    IF type = "agent" THEN <<"generate test", "diagnose">>
    ELSE <<"inspect", "diagnose">> \o (IF corpus THEN <<"audit">> ELSE <<>>) \o <<"suite">>

\* Mutation: a plan is required by what was diagnosed only.
IsRequiredByDiagnosis(d, r, issues) == d.failed

\* Whether the plan says "repair_required".
IsRequired(d, r, issues) == d.failed \/ (r # None /\ FailedLabels(r) # {}) \/ issues # <<>>

\* build_repair_plan, of the trace diagnosed and the trace then loaded.
PlanOf(first, second, corpus) ==
    LET d == Diagnosis(first)
        r == IF corpus THEN [second.result EXCEPT !.audited = TRUE] ELSE None
        issues == Issues(second)
        causes == RootCauses(d, r, issues)
        required == IsRequired(d, r, issues) IN
    [first |-> first, second |-> second, corpus |-> corpus,
     required |-> required, causes |-> causes,
     actions |-> IF required THEN UpTo(Proposed(causes, d, r), MaxActions) ELSE <<>>,
     evidence |-> EvidenceOf(d, r, issues),
     commands |-> VerificationCommands(d.type, corpus)]

-----------------------------------------------------------------------------
(* The commands.                                                           *)

\* Whether a command of a plan exits 1 on trace t: it cannot read the trace, or
\* its rule holds, evidence_integrity, any_issue or any_failure.
InspectFails(t) == ~Loadable(t) \/ Issues(t) # <<>>
DiagnoseFails(t) == ~Diagnosable(t) \/ Diagnosis(t).failed
AuditFails(t) == ~Loadable(t) \/ FailedLabels([t.result EXCEPT !.audited = TRUE]) # {}
Exits1(do, t) ==
    CASE do = "inspect" -> InspectFails(t)
      [] do = "diagnose" -> DiagnoseFails(t)
      [] do = "audit" -> AuditFails(t)
      [] do = "suite" -> ~Loadable(t)

\* The application captures the trace again, or its file is lost.
Recapture(t) ==
    /\ recaptures < MaxRecaptures /\ recaptures' = recaptures + 1
    /\ written' = t
    /\ UNCHANGED <<doing, plan, test, commands>>

\* The first reading of a command, which is the diagnosis.
Begin(command) ==
    /\ doing = None /\ commands < MaxCommands /\ Diagnosable(written)
    /\ commands' = commands + 1
    /\ doing' = [command |-> command, trace |-> written]
    /\ UNCHANGED <<written, recaptures, plan, test>>

\* contexttrace repair, with or without --corpus
BeginRepair == \E corpus \in BOOLEAN : Begin([name |-> "repair", corpus |-> corpus])

\* Without a corpus, a trace that cannot be loaded has no evidence to audit.
FinishRepair ==
    /\ doing # None /\ doing.command.name = "repair" /\ doing' = None
    /\ plan' = IF doing.command.corpus /\ ~Loadable(written) THEN plan
               ELSE PlanOf(doing.trace, written, doing.command.corpus)
    /\ UNCHANGED <<written, recaptures, test, commands>>

\* contexttrace diagnose --generate-test, with or without --force-test
BeginDiagnose == \E force \in BOOLEAN : Begin([name |-> "diagnose", force |-> force])

\* write_diagnosis_regression_test reads the trace again: what the test replays
\* is this one, what it expects was found in the first.
FinishDiagnose ==
    /\ doing # None /\ doing.command.name = "diagnose" /\ doing' = None
    /\ test' = IF written = None \/ (test # None /\ ~doing.command.force) THEN test
               ELSE [replays |-> written, expects |-> Diagnosis(doing.trace), of |-> doing.trace]
    /\ UNCHANGED <<written, recaptures, plan, commands>>

Next ==
    \/ \E t \in Recaptured : Recapture(t)
    \/ BeginRepair \/ FinishRepair
    \/ BeginDiagnose \/ FinishDiagnose

Spec == Init /\ [][Next]_vars

-----------------------------------------------------------------------------
TypeOK ==
    /\ written \in Captured \cup Recaptured
    /\ doing # None => doing.trace \in Captured \cup Recaptured /\ Diagnosable(doing.trace)
    /\ plan # None => /\ Len(plan.actions) <= MaxActions /\ Len(plan.evidence) <= MaxEvidence
                      /\ plan.corpus => Loadable(plan.second)

Fails(t) == \E k \in DOMAIN plan.commands :
               plan.commands[k] # "generate test" /\ Exits1(plan.commands[k], t)

\* A plan asks for a repair exactly if one of the commands it prescribes fails on
\* the trace it was made from.  Four modules decide this, each by rules of its
\* own (_summary of diagnose, audit_failures, _inspect_exit_code and
\* build_repair_plan).  If the trace changed between its two readings, one of the
\* two readings fails; a trace that only diagnose can load fails inspect anyway.
PlanAgreesWithGates ==
    plan # None =>
        /\ plan.required /\ IsRag(plan.first) => Fails(plan.first) \/ Fails(plan.second)
        /\ plan.first = plan.second /\ (IsRag(plan.first) => Loadable(plan.first))
             => (plan.required <=> Fails(plan.first))

Causes(s) == {s[k].cause : k \in DOMAIN s}

\* Corpus or not, no finding of the diagnosis is left out of the evidence while
\* there is room: a claim that failed is shown under the cause of one of the two.
EveryFindingIsShown ==
    Len(plan.evidence) < MaxEvidence =>
        LET findings == Diagnosis(plan.first).findings IN
        \A k \in DOMAIN findings : \E j \in DOMAIN plan.evidence :
            plan.evidence[j].claim = findings[k].claim

\* The first root cause is the one the plan announces.  It has evidence in the
\* plan, and an action too, unless no template knows it and others fill the plan:
\* causes, actions and evidence are put together by different rules from the
\* same issues, labels and findings (_root_causes, _repair_actions and
\* _repair_evidence), and the latter two are cut.
PrimaryIsAddressed ==
    plan # None =>
        /\ EveryFindingIsShown
        /\ plan.required =>
             LET primary == Head(plan.causes) IN
             /\ primary \in Causes(plan.evidence)
             /\ \/ primary \in Causes(plan.actions)
                \/ Templates(primary) = 0 /\ Len(plan.actions) = MaxActions

\* The generated test, run on the code that wrote it (_regression_test_source).
TestPasses ==
    LET found == Diagnosis(test.replays) IN
    /\ Diagnosable(test.replays)
    /\ found.failed = test.expects.failed /\ found.primary = test.expects.primary
    /\ test.expects.types \subseteq found.types
    /\ IF test.expects.findings # <<>>
       THEN TypesOf(test.expects.findings) \subseteq TypesOf(found.findings)
       ELSE found.findings = <<>>

Replayed(t) == [t.result EXCEPT !.audited = plan.corpus]
Passes(t) == plan # None /\ Loadable(t) /\ ~Fails(t)
IsCited(t) == \A k \in DOMAIN t.result.claims : t.result.claims[k].citation # "claim_has_no_citation"

\* What passes stays passed: a trace that passes the commands of a plan, and cites
\* a source for every claim, is a case of a suite that passes when it is replayed
\* (_case_failures in verify/suite); a generated test passes on the code that
\* wrote it, unless the trace was captured again between its two readings.
PassesReplay ==
    /\ Passes(written) /\ IsCited(written) => ~CaseFails(Replayed(written), Replayed(written))
    /\ test # None /\ test.of = test.replays => TestPasses

\* "Add only the recaptured passing trace to the generated must-pass regression
\* command": a trace that passes the commands of a plan is a case that passes.
EveryPassReplays == Passes(written) => ~CaseFails(Replayed(written), Replayed(written))

\* "If the tool returns no availability, not found, or failed, answer with that
\* failure instead of claiming completion": an answer whose only terms of success
\* stand in the words "not found" contradicts no result.
HonestAnswerPasses ==
    Diagnosable(written) /\ written.answer # None /\ "not found" \in written.answer
      /\ ~ClaimsSuccess(written.answer \ {"found"})
        => "tool_result_contradicted_by_final_answer" \notin Diagnosis(written).types
=============================================================================
