---------------------------- MODULE MCLocalCases -----------------------------
(***************************************************************************)
(* The traces on which TLC checks LocalJudges.  A statement and a text are *)
(* on the topics "a" and "b", or on one of them, or on others; the score   *)
(* of a text is positive where they share one.                             *)
(***************************************************************************)
EXTENDS Integers, Sequences, FiniteSets, TLC

Both == {"a", "b"}
Say == [topics |-> Both, values |-> {}, negated |-> FALSE, universal |-> FALSE, exact |-> FALSE]
Statements == {Say, [Say EXCEPT !.negated = TRUE], [Say EXCEPT !.universal = TRUE],
               [Say EXCEPT !.exact = TRUE], [Say EXCEPT !.values = {5}],
               [Say EXCEPT !.topics = {"a"}, !.exact = TRUE]}

Note == [topics |-> Both, values |-> {}, negated |-> FALSE, absence |-> FALSE,
         approximate |-> FALSE, exclusion |-> FALSE, qualifier |-> FALSE]
Denial == [Note EXCEPT !.negated = TRUE, !.exclusion = TRUE]
Silent == [Note EXCEPT !.negated = TRUE, !.absence = TRUE, !.topics = {"a"}]
Elsewhere == [Note EXCEPT !.topics = {"c"}]
Texts == {Note, Denial, Silent, Elsewhere, [Note EXCEPT !.values = {5}], [Note EXCEPT !.values = {7}],
          [Note EXCEPT !.approximate = TRUE, !.qualifier = TRUE],
          [Note EXCEPT !.exclusion = TRUE, !.qualifier = TRUE]}

M(score, terms, required, matched) ==
    [score |-> score, terms |-> terms, required |-> required, matched |-> matched,
     conflicting |-> FALSE, critical |-> FALSE, polarity |-> "none"]
Full == M(90, 4, 1, 1)
Partly == M(50, 2, 2, 1)
Vague == M(50, 2, 1, 0)
Near == M(20, 1, 1, 0)
Far == M(0, 0, 1, 0)
Opposed == [M(70, 3, 2, 1) EXCEPT !.conflicting = TRUE]

\* A match of the statement with the text, m where they are on the same topics.
Seen(s, t, m) ==
    CASE s.topics \subseteq t.topics -> m [] s.topics \cap t.topics # {} -> Near [] OTHER -> Far

\* A claim of these parts, the k-th text giving matches[k] at best.
Claim(parts, texts, matches) ==
    LET whole == [topics |-> UNION {parts[p].topics : p \in DOMAIN parts},
                  values |-> UNION {parts[p].values : p \in DOMAIN parts},
                  negated |-> \E p \in DOMAIN parts : parts[p].negated,
                  universal |-> \E p \in DOMAIN parts : parts[p].universal,
                  exact |-> \E p \in DOMAIN parts : parts[p].exact]
        K == DOMAIN texts
        seen == [p \in DOMAIN parts |-> [k \in K |-> Seen(parts[p], texts[k], matches[k])]] IN
    [whole |-> whole, parts |-> parts, seen |-> seen,
     score |-> [p \in 0..Len(parts) |-> [k \in K |->
        IF p > 0 THEN seen[p][k].score
        ELSE IF whole.topics \cap texts[k].topics = {} THEN 0 ELSE 10 + matches[k].score]]]

Case(judge, model, rules, texts, claims) ==
    [judge |-> judge, model |-> model, rules |-> rules, texts |-> texts, claims |-> claims]

\* One claim of one part and two texts, of every kind and match.
Pair(model, rules, s, t1, t2, m1, m2) ==
    Case("quality", model, rules, <<t1, t2>>, <<Claim(<<s>>, <<t1, t2>>, <<m1, m2>>)>>)
Pairs ==
    {Pair(FALSE, rules, s, t1, t2, m1, m2) :
        rules \in BOOLEAN, s \in Statements, t1 \in Texts, t2 \in Texts,
        m1 \in {Full, Near, Opposed}, m2 \in {Partly, Vague}}
    \cup {Pair(TRUE, rules, s, t1, t2, m1, Partly) :
            rules \in BOOLEAN, s \in {Say, [Say EXCEPT !.exact = TRUE]}, t1 \in {Note, Denial, Elsewhere},
            t2 \in Texts, m1 \in {Full, Near}}

\* Two claims, one of two parts; nothing to claim, and nothing to claim it from.
Several ==
    {Case("quality", FALSE, TRUE, <<t1, t2>>,
          <<Claim(<<s1, s2>>, <<t1, t2>>, <<Full, m2>>), Claim(<<>>, <<t1, t2>>, <<Full, m2>>)>>) :
        s1 \in Statements, s2 \in Statements, t1 \in Texts, t2 \in Texts,
        m2 \in {Partly, Vague}}
    \cup {Case("quality", TRUE, TRUE, <<Note>>,
               <<Claim(<<Say, s>>, <<Note>>, <<m>>)>>) : s \in Statements, m \in {Full, Near}}
    \cup {Case("quality", model, TRUE, <<>>, <<Claim(<<Say>>, <<>>, <<>>)>>) : model \in BOOLEAN}

\* More texts than are selected.
Crowded ==
    {Case("quality", FALSE, TRUE, <<t1, t2, t3>>, <<Claim(<<s>>, <<t1, t2, t3>>, <<m, Full, Partly>>)>>) :
        s \in Statements, t1 \in Texts, t2 \in Texts, t3 \in Texts, m \in {Full, Near}}

\* A claim of up to three requirements, of which two are looked at.
Requirements ==
    {Case("coverage", TRUE, TRUE, <<t1, t2>>, <<Claim(parts, <<t1, t2>>, <<Full, Partly>>)>>) :
        t1 \in {Note, Denial, Elsewhere}, t2 \in {Silent, Elsewhere},
        parts \in {<<>>, <<Say>>, <<Say, [Say EXCEPT !.topics = {"c"}]>>,
                   <<Say, [Say EXCEPT !.negated = TRUE], [Say EXCEPT !.exact = TRUE]>>}}

MCCases == Pairs \cup Several \cup Crowded \cup Requirements
=============================================================================
