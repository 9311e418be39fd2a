------------------------------- MODULE MCFiles --------------------------------
(***************************************************************************)
(* The files that several processes of the command line share and do not   *)
(* lock: the suite file (MCSuite), the judge cache (JudgeCache) and a      *)
(* trace that is diagnosed and repaired (Diagnosis), each a scenario of    *)
(* its own.                                                                *)
(***************************************************************************)
EXTENDS MCSuite

CONSTANTS p1, p2, Processes, Claims, Models, MaxRequests, MaxCrashes, NoFile, NotLoaded

VARIABLES scenario,
          files, path, tmp, pc, asked, entries, handle, requests, crashes, overlapped,
          alone,
          written, recaptures, doing, plan, test, commands

Cache == INSTANCE JudgeCache

cacheVars == <<files, path, tmp, pc, asked, entries, handle, requests, crashes, overlapped,
               alone>>

\* Two processes that ask about one claim, or one process that asks about two.
State(p) == <<pc[p], asked[p], entries[p], handle[p]>>
CacheNext == /\ Cache!Next /\ UNCHANGED alone
             /\ IF alone THEN UNCHANGED State(p2) ELSE \A p \in Processes : asked'[p][1] = "x"

-----------------------------------------------------------------------------
(* Traces: claims of every kind, alone and in pairs, and of every verdict  *)
(* of the corpus; contexts whose lineage was captured, wrongly captured or *)
(* not; agents' events and answers, of every shape of the payload.         *)

FailureOrder ==
    <<"should_have_abstained", "contradicted_answer", "unsupported_answer", "partial_support",
      "insufficient_context", "citation_mismatch", "source_conflict", "stale_source",
      "low_authority_source">>

RepairKinds == Kinds \cup {<<v, "citation_ok", "freshness_unknown">> : v \in {"contradicted", "unverifiable"}}

TraceWith(shape, kinds, corpus, rank, contexts, events, answer) ==
    LET texts == [k \in DOMAIN kinds |-> <<"t1", "t2", "t3">>[k]]
        Cs == DOMAIN kinds
        a == Abstention(Cs, {1}, [c \in Cs |-> kinds[c][1]], 40)
        failures == VerdictFailures(Cs, [c \in Cs |-> kinds[c][1]], [c \in Cs |-> kinds[c][2]], a)
                      \cup SourceFailures(Cs, [c \in Cs |-> kinds[c][3]], FALSE)
        Failed(f) == f \in failures IN
    [shape |-> shape, result |-> ResultOf(texts, kinds, "semantic", FALSE, corpus, rank),
     failures |-> SelectSeq(FailureOrder, Failed), contexts |-> contexts, events |-> events,
     answer |-> answer]

Item(kind, required, inSource, kept) ==
    [kind |-> kind, required |-> required, inSource |-> inSource, kept |-> kept]
Lost == Item("span", TRUE, TRUE, FALSE)
Verbatim(items) == [lineage |-> [verbatim |-> TRUE, items |-> items]]
NotVerbatim == [lineage |-> [verbatim |-> FALSE, items |-> <<Lost>>]]
Uncaptured == [lineage |-> None]
Items == {Item("part", TRUE, TRUE, TRUE), Item("part", TRUE, TRUE, FALSE), Item("part", FALSE, TRUE, FALSE),
          Lost, Item("span", TRUE, FALSE, FALSE)}
Lineages == {<<>>, <<Uncaptured>>, <<NotVerbatim, Verbatim(<<>>)>>}
              \cup {<<Verbatim(<<i, j>>)>> : i, j \in Items}

Event(tool, negative, error) == [tool |-> tool, negative |-> negative, error |-> error]
Answers == {None, {}, {"booked"}, {"not booked", "booked"}, {"not found", "found"}, {"could not"}, {"failed"}}
Events == {<<Event(FALSE, FALSE, FALSE)>>, <<Event(TRUE, TRUE, FALSE)>>, <<Event(TRUE, TRUE, TRUE)>>,
           <<Event(FALSE, TRUE, TRUE), Event(TRUE, TRUE, FALSE), Event(TRUE, FALSE, FALSE)>>}

GoodKind == <<"supported", "citation_ok", "freshness_unknown">>
BadKind == <<"unsupported", "citation_ok", "freshness_unknown">>
StaleKind == <<"supported", "citation_ok", "grounded_but_stale">>

MCCaptured ==
    {TraceWith("portable", <<j, k>>, "unsupported", None, <<>>, <<>>, {}) : j, k \in RepairKinds}
    \cup {TraceWith("portable", <<k>>, corpus, rank, <<>>, <<>>, {}) : k \in RepairKinds, rank \in {None, 0, 3},
            corpus \in {"supported", "partially_supported", "unverifiable", "unsupported", "contradicted"}}
    \cup {TraceWith("portable", <<k>>, "supported", None, c, <<>>, {}) : k \in {GoodKind, BadKind}, c \in Lineages}
    \cup {TraceWith("portable", <<StaleKind, <<"partially_supported", "citation_ok", "freshness_unknown">>, BadKind>>,
            corpus, None, c, <<Event(TRUE, TRUE, TRUE)>>, {"booked"}) : c \in Lineages, corpus \in {"supported", "unsupported"}}
    \cup {TraceWith("portable", <<BadKind>>, "supported", None, [k \in 1..7 |-> Verbatim(<<Lost, Lost>>)], <<>>, {})}
    \cup {TraceWith("agent", <<>>, None, None, <<>>, e, a) : e \in Events \cup {<<>>}, a \in Answers}
    \cup {TraceWith(shape, <<k>>, "unsupported", None, <<>>, e, a) : shape \in {"portable", "nested", "api", "broken"},
            k \in {GoodKind, StaleKind}, e \in Events \cup {<<>>}, a \in Answers \ {None}}

MCRecaptured ==
    {None, TraceWith("broken", <<GoodKind>>, "supported", None, <<>>, <<>>, {}),
     TraceWith("portable", <<GoodKind>>, "supported", 0, <<Verbatim(<<>>)>>, <<>>, {}),
     TraceWith("portable", <<GoodKind>>, "supported", 0, <<NotVerbatim>>, <<>>, {}),
     TraceWith("portable", <<BadKind, GoodKind>>, "supported", None, <<>>, <<Event(TRUE, TRUE, TRUE)>>, {"booked"}),
     TraceWith("agent", <<>>, None, None, <<>>, <<Event(FALSE, FALSE, FALSE)>>, {"booked"})}

Repair == INSTANCE Diagnosis WITH
    Captured <- MCCaptured, Recaptured <- MCRecaptured, MaxRecaptures <- 1, MaxCommands <- 2

repairVars == <<written, recaptures, doing, plan, test, commands>>

-----------------------------------------------------------------------------
\* The file that a scenario is not about is as it is when nothing has happened.
NoSuite == world = None /\ file = None /\ results = None /\ command = None /\ begun = 0
NoCache == Cache!Init /\ alone = FALSE
NoRepair == /\ written = None /\ doing = None /\ plan = None /\ test = None
            /\ recaptures = 0 /\ commands = 0

MCInit ==
    \/ scenario = "suite" /\ Init /\ NoCache /\ NoRepair
    \/ scenario = "cache" /\ Cache!Init /\ alone \in BOOLEAN /\ NoSuite /\ NoRepair
    \/ scenario = "repair" /\ Repair!Init /\ NoSuite /\ NoCache

SuiteStep == scenario = "suite" /\ Next /\ UNCHANGED <<scenario, cacheVars, repairVars>>
CacheStep == scenario = "cache" /\ CacheNext /\ UNCHANGED <<scenario, vars, repairVars>>
RepairStep == scenario = "repair" /\ Repair!Next /\ UNCHANGED <<scenario, vars, cacheVars>>

MCSpec == MCInit /\ [][SuiteStep \/ CacheStep \/ RepairStep]_<<scenario, vars, cacheVars, repairVars>>

-----------------------------------------------------------------------------
\* The cache breaks only for processes that had the .tmp file open together, and
\* verdicts that were cached stay cached while processes come one after another,
\* whenever they die (JsonJudgeCache.set).
CacheOutlivesProcesses ==
    [][/\ Cache!BreaksOnlyByOverlap'
       /\ alone => Cache!Cached \subseteq Cache!Cached']_cacheVars

\* No command loses, doubles or confuses a case of a suite (Suite).
SuiteKeepsCases == [][NoCaseIsLost /\ IdsAreUnique']_vars

\* A repair plan agrees with the commands it prescribes, its first cause has
\* evidence and actions, and a trace that passes the commands passes when it is
\* replayed, as does a generated test (Diagnosis).
PlanIsSound == Repair!PlanAgreesWithGates /\ Repair!PrimaryIsAddressed /\ Repair!PassesReplay
=============================================================================
