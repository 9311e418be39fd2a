------------------------------- MODULE MCSuite -------------------------------
(***************************************************************************)
(* Suites for TLC.  "Replayed": a suite of one case, for every pair of a   *)
(* baseline and an answer of up to two claims, of which each claim has one *)
(* of the verdicts, citations and source statuses that occur together.     *)
(* "Kept": traces whose names and suffixed ids collide, through sequences  *)
(* of commands of one user and of two at a time.                           *)
(***************************************************************************)
EXTENDS Suite, RootCause

\* t1 and t3 are worded alike, and t2 and t3 somewhat less.
MCSimilarity(x, y) ==
    IF x = y THEN 100
    ELSE IF {x, y} = {"t1", "t3"} THEN 80 ELSE IF {x, y} = {"t2", "t3"} THEN 60 ELSE 20

\* A verdict, a citation status and the status of the claim's source.
Kinds ==
    {<<"supported", "citation_ok", "freshness_unknown">>,
     <<"supported", "claim_has_no_citation", "freshness_unknown">>,
     <<"supported", "citation_ok", "grounded_but_stale">>,
     <<"supported", "citation_ok", "grounded_by_low_authority_source">>,
     <<"supported", "cited_source_does_not_support_claim", "freshness_unknown">>,
     <<"partially_supported", "citation_ok", "freshness_unknown">>,
     <<"unsupported", "cited_source_missing", "freshness_unknown">>}

ClaimOf(text, kind, abstention, corpus, rank) ==
    [text |-> text, verdict |-> kind[1], citation |-> kind[2],
     cause |-> Diagnose(kind[1], kind[2], kind[3], FALSE, FALSE, FALSE, abstention),
     corpus |-> corpus, rank |-> rank, close |-> FALSE]

\* The result of texts with kinds in a mode, audited with that of the corpus.
ResultOf(texts, kinds, mode, audited, corpus, rank) ==
    LET Cs == DOMAIN texts
        a == Abstention(Cs, {1}, [c \in Cs |-> kinds[c][1]], 40) IN
    [mode |-> mode, abstain |-> a.abstain, audited |-> audited,
     warnings |-> IF \A c \in Cs : kinds[c][2] = "claim_has_no_citation" THEN 1 ELSE 0,
     claims |-> [c \in Cs |-> ClaimOf(texts[c], kinds[c], a, corpus, rank)]]

Plain(texts, kinds) == ResultOf(texts, kinds, "lexical", FALSE, "unsupported", None)
Results(texts, kinds) ==
    {Plain(<<>>, <<>>)} \cup {Plain(<<t>>, <<k>>) : t \in texts, k \in kinds}
      \cup {Plain(<<t, s>>, <<j, k>>) : t \in texts, s \in texts, j \in kinds, k \in kinds}
Audited ==
    {ResultOf(<<"t1">>, <<k>>, "lexical", TRUE, corpus, rank) : k \in Kinds,
        corpus \in {"supported", "partially_supported", "unverifiable", "unsupported", "contradicted"},
        rank \in {None, 0, 3}}

TraceOf(name, result) == [name |-> name, verified |-> [mode \in {"lexical", "semantic"} |-> result[mode]]]
Both(r) == [lexical |-> r, semantic |-> [r EXCEPT !.mode = "semantic"]]

Replayed ==
    {[file |-> Created(<<TraceOf(<<"a">>, Both(b))>>, "lexical"), commands |-> 1,
      answers |-> {Both(c) : c \in Results({"t1", "t3"}, Kinds)}, modes |-> {None},
      given |-> {}, removed |-> {}, pruned |-> {}, rules |-> {{}}] :
        b \in Results({"t1", "t2"}, Kinds)}
    \cup
    {[file |-> Created(<<TraceOf(<<"a">>, Both(b))>>, "lexical"), commands |-> 1,
      answers |-> {Both(c) : c \in Audited}, modes |-> {None},
      given |-> {}, removed |-> {}, pruned |-> {},
      rules |-> {{}, {"regression"}, {"any_failure"}, {"should_abstain", "high_risk"}, {"unsupported", "medium_risk"}}] :
        b \in Audited}

-----------------------------------------------------------------------------
Good == Plain(<<"t1">>, <<<<"supported", "citation_ok", "freshness_unknown">>>>)
Bad == Plain(<<"t1">>, <<<<"unsupported", "citation_ok", "freshness_unknown">>>>)
Stale == Plain(<<"t1">>, <<<<"supported", "citation_ok", "grounded_but_stale">>>>)

\* One trace is stale by one mode of verification only.
TraceA == TraceOf(<<"a">>, [lexical |-> Stale, semantic |-> [Good EXCEPT !.mode = "semantic"]])
TraceA1 == TraceOf(<<"a">>, Both(Bad))
TraceA2 == TraceOf(<<"a", 2>>, Both(Good))
TraceB == TraceOf(<<"b">>, Both(Good))

Kept ==
    {[file |-> f, commands |-> 3, answers |-> {}, modes |-> {None, "semantic"},
      given |-> {<<TraceA>>, <<TraceA, TraceA1>>, <<TraceA2>>, <<TraceB, TraceA>>},
      removed |-> {{<<"a">>}, {<<"a", 2>>, <<"b">>}}, pruned |-> {}, rules |-> {}] :
        f \in {None, Created(<<TraceA, TraceB>>, "lexical"), Created(<<TraceA, TraceA1>>, "lexical")}}
    \cup
    {[file |-> Created(<<TraceA, TraceB>>, "lexical"), commands |-> 3,
      answers |-> {None, Both(Good), Both(Stale)}, modes |-> {None, "semantic"},
      given |-> {<<TraceA1>>}, removed |-> {},
      pruned |-> {{"passed"}, {"failed", "error"}}, rules |-> {{}, {"any_failure"}}]}

MCWorlds == Replayed \cup Kept
=============================================================================
