---------------------------- MODULE MCIntegrations ----------------------------
(***************************************************************************)
(* Integrations with two or three runs of every handler.                   *)
(***************************************************************************)
EXTENDS Integrations, TLC

CONSTANTS a, a1, a2, b, b1, c, m, here, there, byHand

\* Two chains, with a chain, a tool and a retriever nested in them, in any context.
MCChainRuns   == {a, a1, a2, b, b1}
MCChainParent == [r \in MCChainRuns |-> CASE r \in {a1, a2} -> a [] r = b1 -> b [] OTHER -> NoRun]
MCChainKind   == [r \in MCChainRuns |-> CASE r = a2 -> "tool" [] r = b1 -> "retriever" [] OTHER -> "chain"]

\* Three chains that follow one another or run beside one another.
MCPlainRuns   == {a, a2, b, b1, c}
MCPlainParent == [r \in MCPlainRuns |-> CASE r = a2 -> a [] r = b1 -> b [] OTHER -> NoRun]
MCPlainKind   == [r \in MCPlainRuns |-> CASE r = a2 -> "tool" [] r = b1 -> "retriever" [] OTHER -> "chain"]
MCPlainWhere  == [r \in MCPlainRuns |-> IF r \in {b, b1} THEN {there} ELSE {here}]

\* Two queries with their events, and one traced by hand.
MCEvents      == {a, a1, a2, b, b1, m}
MCEventParent == [e \in MCEvents |-> CASE e \in {a1, a2} -> a [] e = b1 -> b [] OTHER -> Base]
MCEventKind   == [e \in MCEvents |->
                    CASE e \in {a1, b1} -> "retrieve" [] e = a2 -> "synthesize" [] e = m -> "manual" [] OTHER -> "query"]
MCEventWhere  == [e \in MCEvents |-> IF e = m THEN {byHand} ELSE {here, there}]

\* A query engine that asks another one.
NestedQueries == INSTANCE EventRuns WITH
    Events <- {a, b}, Parent <- (a :> Base @@ b :> a), Kind <- [e \in {a, b} |-> "query"],
    Contexts <- {here}, Where <- [e \in {a, b} |-> {here}]

NestedInit ==
    /\ scenario = "callbacks" /\ handler = "nested queries"
    /\ Init /\ background = FALSE
    /\ NestedQueries!Init /\ OwnUnused
NestedNext == NestedQueries!Next /\ UNCHANGED <<scenario, loggerVars, handler, home, logged>>
NestedSpec == NestedInit /\ [][NestedNext]_<<scenario, loggerVars, callbackVars>>

-----------------------------------------------------------------------------
\* Every query has its answer, a nested one and the one it is nested in
\* ("final response text", docs/integrations/llamaindex.md).
AnsweredOnce == NestedQueries!AnsweredOnce
=============================================================================
