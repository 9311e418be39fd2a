----------------------------- MODULE MCCoreTraces -----------------------------
(***************************************************************************)
(* Traces for SemanticCore.  "Alone": one claim of every kind, cited in    *)
(* every way, under every profile.  "Sources": a claim that is in the text *)
(* of a source, next to another source, under many metadata.  "Open": two  *)
(* to five claims that the text leaves open, for the groups.               *)
(***************************************************************************)
EXTENDS ClaimVerdict, Sequences, TLC

M(score, terms, required, matched, polarity) ==
    [score |-> score, terms |-> terms, required |-> required, matched |-> matched,
     conflicting |-> FALSE, critical |-> FALSE, polarity |-> polarity]

Strong   == M(90, 4, 1, 1, "none")
Loose    == M(45, 3, 1, 1, "none")     \* all facts, not enough words: open
Half     == M(55, 3, 2, 1, "none")
Hazy     == M(40, 1, 1, 0, "none")
Nothing  == M(5, 0, 1, 0, "none")
Denied   == M(70, 3, 1, 0, "denied")
Whisper  == M(20, 1, 1, 0, "denied")   \* a denial in too few words
Differs  == [M(70, 3, 2, 1, "none") EXCEPT !.conflicting = TRUE]

Profiles(name) ==
    LET P == [nli |-> TRUE, forced |-> FALSE, prefer |-> FALSE, sources |-> TRUE,
              citations |-> TRUE, safety |-> FALSE] IN
    CASE name = "selective_v2" -> P
      [] name = "deterministic_only_v2" -> [P EXCEPT !.nli = FALSE]
      [] name = "forced_classification_v2" -> [P EXCEPT !.forced = TRUE]
      [] name = "no_source_condition_v2" -> [P EXCEPT !.sources = FALSE]
      [] name = "no_citation_features_v2" -> [P EXCEPT !.citations = FALSE]
      [] name = "no_route_disagreement_v2" -> [P EXCEPT !.prefer = TRUE]
      [] name = "selective_v2_1" -> [P EXCEPT !.safety = TRUE]
      [] name = "deterministic_only_v2_1" -> [P EXCEPT !.safety = TRUE, !.nli = FALSE]
All == {"selective_v2", "deterministic_only_v2", "forced_classification_v2", "no_source_condition_v2",
        "no_citation_features_v2", "no_route_disagreement_v2", "selective_v2_1", "deterministic_only_v2_1"}

Canonical ==
    [label |-> "", stale |-> FALSE, superseded |-> FALSE, disputed |-> FALSE, replacedBy |-> {},
     replaces |-> {}, conflicts |-> {}, canonical |-> TRUE, current |-> None, fresh |-> None,
     authority |-> None, lineage |-> {"L"}, version |-> 1, time |-> 1]

Claim1(m) == [text |-> 1, match |-> m, exact |-> FALSE, best |-> 1, spans |-> <<1>>, guarded |-> FALSE,
              clash |-> {}, cite |-> None, cited |-> m]

Plain(claims) ==
    [claims |-> claims, contexts |-> {1}, source |-> (1 :> Canonical), required |-> FALSE,
     evidence |-> "unknown", declines |-> FALSE, truncated |-> FALSE, profile |-> Profiles("selective_v2_1")]

Alone ==
    {[Plain(<<[Claim1(m) EXCEPT !.exact = exact, !.cite = cite, !.guarded = guarded]>>) EXCEPT
        !.profile = Profiles(p), !.required = required] :
        m \in {Strong, Loose, Half, Hazy, Nothing, Denied, Whisper, Differs}, exact \in BOOLEAN,
        cite \in {None, 1, 9}, guarded \in BOOLEAN, p \in All, required \in BOOLEAN}
    \cup
    {[Plain(<<[Claim1(m) EXCEPT !.cite = 1, !.cited = cited]>>) EXCEPT
        !.profile = Profiles(p), !.evidence = e, !.declines = d, !.truncated = cut] :
        m \in {Strong, Hazy, Nothing}, cited \in {Strong, Half, Nothing}, p \in All, d \in BOOLEAN,
        e \in {"candidates", "reranked", "corpus", "nowhere", "chunked", "unknown"},
        cut \in BOOLEAN}
    \cup
    {[Plain(<<[Claim1(Nothing) EXCEPT !.best = None, !.spans = <<>>, !.guarded = guarded]>>) EXCEPT
        !.contexts = {}, !.source = <<>>, !.profile = Profiles(p)] : guarded \in BOOLEAN, p \in All}
    \cup {Plain(<<>>)}

\* What the source of the claim says of itself, and what the other one says.
Selves ==
    {[Canonical EXCEPT !.label = label, !.superseded = superseded, !.stale = stale] :
        label \in {"", "unknown", "current_canonical", "current_noncanonical", "stale", "low_authority"},
        superseded \in BOOLEAN, stale \in BOOLEAN}
    \cup
    {[Canonical EXCEPT !.label = label, !.canonical = canonical, !.current = current,
                       !.authority = authority, !.fresh = fresh] :
        label \in {"", "current_canonical"}, canonical \in {TRUE, FALSE, None}, current \in {FALSE, None},
        authority \in {None, 20, 90}, fresh \in {FALSE, TRUE}}
    \cup
    {[Canonical EXCEPT !.replacedBy = r, !.conflicts = c, !.disputed = d, !.version = v, !.label = label] :
        r \in {{}, {2}, {9}}, c \in {{}, {2}}, d \in BOOLEAN, v \in 0..1, label \in {"", "current_canonical"}}
Others ==
    {[Canonical EXCEPT !.replaces = r, !.conflicts = c, !.lineage = {l}, !.version = at[1], !.time = at[2],
                       !.canonical = canonical, !.current = TRUE] :
        r \in {{}, {1}}, c \in {{}, {1}}, l \in {"L", "other"}, at \in {<<1, 1>>, <<2, 1>>, <<1, 2>>},
        canonical \in {TRUE, FALSE}}

Sources ==
    {[Plain(<<[Claim1(Strong) EXCEPT !.clash = clash]>>) EXCEPT
        !.contexts = {1, 2}, !.source = (1 :> s1 @@ 2 :> s2), !.profile = Profiles(p)] :
        s1 \in Selves, s2 \in Others, clash \in {{}, {2}}, p \in {"deterministic_only_v2_1", "selective_v2"}}

\* Open claims: same or different words and spans; the last one may be decided by the text.
OpenClaim(n, span) == [Claim1(Loose) EXCEPT !.text = n, !.spans = <<span>>]
Open ==
    {[Plain(claims) EXCEPT !.profile = Profiles(p)] :
        claims \in {<<OpenClaim(1, 1), OpenClaim(2, 2)>>, <<OpenClaim(1, 1), OpenClaim(2, 1)>>,
                    <<OpenClaim(1, 1), OpenClaim(2, 2), [OpenClaim(3, 3) EXCEPT !.guarded = TRUE]>>,
                    <<OpenClaim(1, 1), [Claim1(Strong) EXCEPT !.text = 4],
                      [OpenClaim(2, 2) EXCEPT !.guarded = TRUE]>>,
                    <<OpenClaim(1, 1), OpenClaim(2, 2), OpenClaim(1, 1), OpenClaim(2, 2)>>,
                    <<OpenClaim(1, 1), OpenClaim(2, 1), OpenClaim(1, 1), OpenClaim(3, 3)>>,
                    [n \in 1..5 |-> OpenClaim(n, n)]},
        p \in {"selective_v2_1", "no_route_disagreement_v2"}}

MCTraces == Alone \cup Sources \cup Open
=============================================================================
