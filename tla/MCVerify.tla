------------------------------ MODULE MCVerify -------------------------------
(***************************************************************************)
(* The verifiers for TLC, each a scenario of its own: the profiles of      *)
(* VerifyTrace on the traces below, the selective core on those of         *)
(* MCCoreTraces, and the local judges on those of MCLocalCases.            *)
(*                                                                         *)
(* "One": a claim, at most one context and every kind of match, verified   *)
(* in every way.  "Many": three claims, one of each verdict.  "Opposed":   *)
(* two claims, each supported by one of two sources that contradict each   *)
(* other, under many metadata.                                             *)
(***************************************************************************)
EXTENDS VerifyTrace, TLC

CONSTANTS
    Traces, Confidences,                                         \* of SemanticCore
    Cases, Scores, MaxSpans, PerRequirement, MaxRequirements     \* of LocalJudges

VARIABLES scenario, trace, available, groups, prepared, results, calls, settled,
          case, answers, assessments, concluded, failed

\* The proof modules, whose lemmas VerifyProofs cites.
Core == INSTANCE SemanticCoreProofs
Local == INSTANCE LocalJudgesProofs WITH results <- concluded

ASSUME CoreAssumption == Core!Promises
ASSUME LocalAssumption == Local!Promises

Selected == INSTANCE MCCoreTraces
SelectedTraces == Selected!MCTraces
LocalCases == INSTANCE MCLocalCases
SelectedCases == LocalCases!MCCases

coreVars == <<trace, available, groups, prepared, results, calls, settled>>
localVars == <<case, answers, assessments, concluded, failed>>

M(score, terms, required, matched, polarity) ==
    [score |-> score, terms |-> terms, required |-> required, matched |-> matched,
     conflicting |-> FALSE, critical |-> FALSE, polarity |-> polarity]

Full == M(90, 4, 1, 1, "none")
Short == M(30, 2, 1, 1, "none")      \* all its facts, few of its words
Part == M(70, 3, 2, 1, "none")
Some == M(50, 2, 1, 0, "none")
Vague == M(40, 1, 1, 0, "none")
Near == M(20, 1, 1, 0, "none")
Far == M(0, 0, 1, 0, "none")
Negated == M(60, 3, 1, 0, "negation")
Denied == M(80, 3, 1, 1, "denied")
Opposed == M(40, 2, 1, 1, "opposed")
OtherValue == [M(70, 3, 2, 1, "none") EXCEPT !.conflicting = TRUE, !.critical = TRUE]

S(canonical, authority, status) ==
    [canonical |-> canonical, authority |-> authority, stale |-> FALSE, status |-> status,
     group |-> "own", grouped |-> FALSE, time |-> 0, version |-> 0, abstain |-> FALSE]
Unknown == S(FALSE, 50, "")
Official == S(TRUE, 100, "current")

Q(score) == [score |-> score, terms |-> 2, best |-> 1, current |-> FALSE, normative |-> FALSE,
             historical |-> FALSE, version |-> 0]

Quiet == [polar |-> "none", clash |-> FALSE, lifecycle |-> FALSE, historic |-> FALSE]
FullProfile == [contradictions |-> TRUE, citations |-> TRUE, abstention |-> TRUE,
                sources |-> TRUE, causes |-> TRUE]
NoCite == [source |-> None, exact |-> {}]
Cites(k) == [source |-> k, exact |-> {k}]

\* Claims with the same matches alone and with all contexts; nothing special.
Plain(matches) ==
    [claims |-> DOMAIN matches, contexts |-> {1},
     seen |-> [c \in DOMAIN matches |-> [k \in {1} |-> matches[c]]],
     pooled |-> matches,
     marks |-> [c \in DOMAIN matches |-> [k \in {1} |-> Quiet]],
     source |-> [k \in {1} |-> Unknown],
     cite |-> [c \in DOMAIN matches |-> NoCite],
     relation |-> [c \in DOMAIN matches |-> None],
     onTopic |-> [c \in DOMAIN matches |-> TRUE],
     onFocus |-> [c \in DOMAIN matches |-> FALSE],
     competing |-> [c \in DOMAIN matches |-> FALSE],
     attributed |-> [c \in DOMAIN matches |-> {}],
     query |-> Q(40), mode |-> "semantic", hybrid |-> FALSE, profile |-> FullProfile]

Single(m) == Plain([c \in {1} |-> m])
NoContexts(i) ==
    [i EXCEPT !.contexts = {}, !.seen = [c \in i.claims |-> <<>>],
              !.pooled = [c \in i.claims |-> Far], !.source = <<>>,
              !.marks = [c \in i.claims |-> <<>>],
              !.query = [Q(0) EXCEPT !.best = None, !.terms = 0]]

AllMatches == {Full, Short, Part, Some, Vague, Near, Far, Negated, Denied, Opposed, OtherValue}
Relations == {None, [verdict |-> "supported", source |-> 1], [verdict |-> "contradicted", source |-> 1]}
\* No citation; one of the context, in the claim's words or others; one of a lost source.
Citations == {NoCite, Cites(1), [source |-> 1, exact |-> {}], Cites(9)}
Sources == {Unknown, Official, S(FALSE, 25, ""), S(FALSE, 65, "conflicting_source"),
            [Unknown EXCEPT !.stale = TRUE], S(TRUE, 100, "stale"),
            [S(TRUE, 100, "incomplete") EXCEPT !.abstain = TRUE, !.authority = 65, !.canonical = FALSE]}
Queries == {Q(40), Q(10), [Q(40) EXCEPT !.current = TRUE], [Q(40) EXCEPT !.normative = TRUE],
            [Q(40) EXCEPT !.historical = TRUE]}
Profiles == {FullProfile,
             [FullProfile EXCEPT !.contradictions = FALSE], [FullProfile EXCEPT !.citations = FALSE],
             [FullProfile EXCEPT !.abstention = FALSE], [FullProfile EXCEPT !.sources = FALSE],
             [FullProfile EXCEPT !.causes = FALSE]}

One ==
    {[Single(m) EXCEPT !.cite = (1 :> cite), !.mode = mode, !.hybrid = hybrid, !.relation = (1 :> r)] :
        m \in AllMatches, cite \in Citations, mode \in {"lexical", "semantic", "local_ml", "judge", "nli"},
        hybrid \in BOOLEAN, r \in Relations}
    \cup
    {[Single(m) EXCEPT !.source = (1 :> s), !.query = q, !.hybrid = hybrid, !.profile = p,
                       !.cite = (1 :> cite)] :
        m \in {Full, Short, Part, Near, Opposed}, s \in Sources, q \in Queries, hybrid \in BOOLEAN,
        p \in Profiles, cite \in {NoCite, Cites(1)}}
    \cup
    {NoContexts([Single(Far) EXCEPT !.mode = mode, !.hybrid = hybrid, !.cite = (1 :> cite), !.profile = p]) :
        mode \in {"lexical", "judge", "nli"}, hybrid \in BOOLEAN, cite \in Citations, p \in Profiles}
    \cup {Plain(<<>>)}

\* Verdicts next to each other decide on abstention, gaps and overreach.
Many ==
    {[Plain(<<a, b, c>>) EXCEPT !.source = (1 :> s), !.query = q, !.hybrid = hybrid, !.mode = mode] :
        a \in {Full, Part, Opposed}, b \in {Full, Vague, Near}, c \in {Full, Near, Far, Part},
        s \in {Unknown, Official}, q \in {Q(40), Q(10)}, hybrid \in BOOLEAN,
        mode \in {"lexical", "semantic"}}
    \cup
    {[Plain(<<Full, b>>) EXCEPT !.mode = mode, !.cite = <<Cites(1), cite>>, !.hybrid = hybrid] :
        b \in {Near, Opposed}, mode \in {"judge", "nli"}, cite \in Citations, hybrid \in BOOLEAN}

\* Each claim is found in the context of its number and contradicted by the other.
Metadata(k) ==
    {[Unknown EXCEPT !.canonical = canonical, !.authority = authority, !.time = time,
                     !.version = version, !.group = group, !.grouped = (group = "shared")] :
        canonical \in BOOLEAN, authority \in {25, 50, 60}, time \in 0..1 \cup {1 + k},
        version \in {0, k}, group \in {"shared", IF k = 1 THEN "first" ELSE "second"}}
Contradicting == {[Quiet EXCEPT !.clash = TRUE, !.polar = polar, !.lifecycle = lifecycle] :
                    polar \in {"none", "pair"}, lifecycle \in BOOLEAN}
TwoSources(m, hybrid) ==
    [Plain(<<Full, Full>>) EXCEPT
        !.contexts = {1, 2}, !.marks = [c \in 1..2 |-> <<Quiet, Quiet>>], !.hybrid = hybrid, !.cite = <<Cites(1), Cites(2)>>, !.source = m,
        !.seen = [c \in 1..2 |-> [k \in 1..2 |-> IF c = k THEN Full ELSE OtherValue]]]
TwoOpposed ==
    {TwoSources(<<s1, s2>>, hybrid) : s1 \in Metadata(1), s2 \in Metadata(2), hybrid \in BOOLEAN}
    \cup
    {[TwoSources(<<s1, s2>>, hybrid) EXCEPT
        !.query = q, !.attributed = <<heard, heard>>,
        !.seen = [c \in 1..2 |-> [k \in 1..2 |-> IF c = k THEN Full ELSE Vague]],
        !.marks = [c \in 1..2 |-> [k \in 1..2 |-> IF c = k THEN own ELSE g]]] :
        s1 \in {Unknown, Official}, s2 \in {Unknown, [Unknown EXCEPT !.version = 2]},
        hybrid \in BOOLEAN, g \in Contradicting,
        own \in {Quiet, [Quiet EXCEPT !.lifecycle = TRUE]}, heard \in {{}, {1}},
        q \in {Q(40), [Q(40) EXCEPT !.version = 2]}}

MCInputs == One \cup Many \cup TwoOpposed

-----------------------------------------------------------------------------
(* The scenarios; what the others use is None.                             *)

ProfilesUnused ==
    /\ input = None /\ stage = None /\ verifs = None /\ asked = None
    /\ vouched = None /\ abstention = None /\ assessed = None /\ report = None
CoreUnused ==
    /\ trace = None /\ available = None /\ groups = None /\ prepared = None
    /\ results = None /\ calls = None /\ settled = None
LocalUnused ==
    case = None /\ answers = None /\ assessments = None /\ concluded = None /\ failed = None

MCInit ==
    \/ scenario = "profiles" /\ Init /\ CoreUnused /\ LocalUnused
    \/ scenario = "selective" /\ Core!Init /\ ProfilesUnused /\ LocalUnused
    \/ scenario = "local" /\ Local!Init /\ ProfilesUnused /\ CoreUnused

Profiled == scenario = "profiles" /\ Next /\ UNCHANGED <<scenario, coreVars, localVars>>
Selective == scenario = "selective" /\ Core!Next /\ UNCHANGED <<scenario, vars, localVars>>
LocalStep == scenario = "local" /\ Local!Next /\ UNCHANGED <<scenario, vars, coreVars>>

MCSpec == MCInit /\ [][Profiled \/ Selective \/ LocalStep]_<<scenario, vars, coreVars, localVars>>

\* The selective core alone.
SelectiveSpec == scenario = "selective" /\ MCInit /\ [][Selective]_<<scenario, vars, coreVars, localVars>>

-----------------------------------------------------------------------------
(* The properties of the selective core and of the local judges, in their  *)
(* scenarios.                                                              *)

\* A claim shown green, or supported without review, is warranted: by its text or
\* model, its citation and its source (SemanticCore); by a text or model for each
\* part and no text against any (LocalJudges).
GreenClaimIsEarned ==
    /\ scenario = "selective" => Core!GreenClaimIsEarned
    /\ scenario = "local" => Local!AutomaticSupportIsEarned /\ Local!CoveredPartsAreEarned

\* Input that was truncated suppresses green output (SemanticCore).
TruncationSuppressesGreen == scenario = "selective" => Core!TruncationSuppressesGreen

\* What the text leaves open is decided by a model that is sure, or by nothing.
NliFailsClosed ==
    /\ scenario = "selective" => Core!NliFailsClosed
    /\ scenario = "local" => Local!UnsureModelDecidesNothing
=============================================================================
