--------------------------- MODULE MCTraceSessions ---------------------------
(***************************************************************************)
(* Uses of the store, one chosen at the start: "cleanups", sessions that   *)
(* are started, evaluated and read while cleanups come or die; "texts", a  *)
(* session of one user, texts change and citations are replaced next to    *)
(* cleanups of everything; "orders", a session of one user, chunk lists    *)
(* overlap in many ways and nothing is ever cleaned up.                    *)
(***************************************************************************)
EXTENDS MCTraceStore

CONSTANTS p1, t1, t2

VARIABLE usage

Cleanups == INSTANCE TraceStore WITH
    Batches <- {}, CitationSets <- {}, Answers <- {}, Retention <- 1, MaxClock <- 3
Texts == INSTANCE TraceStore WITH
    Batches <- TextChanges, CitationSets <- TwoCitations, Retention <- 0
Orders == INSTANCE TraceStore WITH
    Batches <- ManyChunks, CitationSets <- NoCitation, Contents <- {"good"},
    Answers <- {}

\* With one session it is trace t1's, and its user is called p1.
UsageInit == Init /\ usage \in {"cleanups", "texts", "orders"}
UsageNext == /\ \/ usage = "cleanups" /\ Cleanups!Next
                \/ usage = "texts" /\ Texts!Next
                \/ usage = "orders" /\ Orders!Next
             /\ usage # "cleanups" => created'[t2] = Never /\ session'[t1] \in {None, p1}
             /\ UNCHANGED usage
UsageSpec == UsageInit /\ [][UsageNext]_<<vars, usage>>

-----------------------------------------------------------------------------
(* What TraceStore promises of cleanups, for the use that has them.        *)

\* An expired trace is removed in the end, if cleanups keep being completed.
ExpiredIsCleanedUp == usage = "cleanups" => Cleanups!ExpiredIsRemoved
=============================================================================
