----------------------------- MODULE Integrations ------------------------------
(***************************************************************************)
(* The integrations into other frameworks, each a scenario of its own: the *)
(* FastAPI middleware (BackgroundLogger), writing in the background or     *)
(* every request awaiting its own write, and the callback handlers, one of *)
(* them chosen at the start: what LangChain sends with and without run     *)
(* ids, LlamaIndex with one parent id shared by all queries, LangGraph     *)
(* with and without run ids.                                               *)
(***************************************************************************)
EXTENDS BackgroundLogger, Sequences

CONSTANTS
    Contexts,                               \* threads and tasks
    ChainRuns, ChainParent, ChainKind,      \* LangChain runs that send their ids
    PlainRuns, PlainParent, PlainKind, PlainWhere,  \* LangChain runs that do not
    Events, EventParent, EventKind, EventContexts, EventWhere,  \* of LlamaIndex
    GraphRunIds, PlainGraphRuns, Implicit,  \* runs of LangGraph, with ids and without
    MaxEvents, Base, NoRun, NoState

\* What the frameworks send.  A chain, a tool or a retriever is nested in a chain
\* that is nested in none, and only a chain is nested in none.
Nested(parent, kind, runs) ==
    /\ parent \in [runs -> runs \cup {NoRun}] /\ NoRun \notin runs
    /\ \A r \in runs : parent[r] # NoRun => parent[parent[r]] = NoRun
    /\ \A r \in runs : parent[r] = NoRun => kind[r] = "chain"

ASSUME StateAssumption == NoState \notin Nat

ASSUME ChainsAssumption == Nested(ChainParent, ChainKind, ChainRuns)

\* Without ids a nested chain that answers ends the run for the handler, so only
\* tools and retrievers are nested; a run keeps to the context of its root.
ASSUME PlainChainsAssumption ==
    /\ Nested(PlainParent, PlainKind, PlainRuns)
    /\ \A r \in PlainRuns : PlainKind[r] = "chain" => PlainParent[r] = NoRun
    /\ \A r \in PlainRuns : PlainParent[r] # NoRun => PlainWhere[r] = PlainWhere[PlainParent[r]]
    /\ \A r \in PlainRuns : \E x \in Contexts : PlainWhere[r] = {x}

\* Queries and what is traced by hand are nested in nothing, all other events in a
\* query; what is traced by hand has a context of its own.
ASSUME EventsAssumption ==
    /\ EventParent \in [Events -> Events \cup {Base}] /\ Base \notin Events
    /\ \A e \in Events : EventParent[e] = Base <=> EventKind[e] \in {"query", "manual"}
    /\ \A e \in Events : EventParent[e] # Base => EventKind[EventParent[e]] = "query"
    /\ \A e \in Events : EventKind[e] = "manual" =>
          \E x \in EventContexts : EventWhere[e] = {x} /\ \A f \in Events \ {e} : x \notin EventWhere[f]

\* All runs without ids that begin with a node share one state, so there is one.
ASSUME ImplicitAssumption == \A r, x \in Implicit : r = x

VARIABLES scenario, background, handler, phase, states, registry, current, traces, home, logged

loggerVars   == <<vars, background>>
shared       == <<phase, states, registry, current, traces>>
own          == <<home, logged>>
callbackVars == <<handler, shared, own>>

Inline == INSTANCE BackgroundLogger WITH BackgroundLogging <- FALSE

Chains == INSTANCE CallbackRuns WITH
    Runs <- ChainRuns, Parent <- ChainParent, Kind <- ChainKind,
    Where <- [r \in ChainRuns |-> Contexts], WithIds <- TRUE, Unanswered <- TRUE
PlainChains == INSTANCE CallbackRuns WITH
    Runs <- PlainRuns, Parent <- PlainParent, Kind <- PlainKind,
    Where <- PlainWhere, WithIds <- FALSE, Unanswered <- FALSE
Queries == INSTANCE EventRuns WITH
    Parent <- EventParent, Kind <- EventKind, Contexts <- EventContexts, Where <- EventWhere
Workflows == INSTANCE GraphRuns WITH Runs <- GraphRunIds, WithIds <- TRUE, Implicit <- {}
PlainWorkflows == INSTANCE GraphRuns WITH Runs <- PlainGraphRuns, WithIds <- FALSE

OwnUnused == home = <<>> /\ logged = <<>>
CallbacksUnused == handler = "none" /\ Chains!Init /\ OwnUnused

CallbacksInit ==
    \/ handler = "chains" /\ Chains!Init /\ OwnUnused
    \/ handler = "plain chains" /\ PlainChains!Init /\ OwnUnused
    \/ handler = "queries" /\ Queries!Init /\ OwnUnused
    \/ handler = "workflows" /\ Workflows!Init
    \/ handler = "plain workflows" /\ PlainWorkflows!Init

CallbacksNext ==
    \/ handler = "chains" /\ Chains!Next /\ UNCHANGED own
    \/ handler = "plain chains" /\ PlainChains!Next /\ UNCHANGED own
    \/ handler = "queries" /\ Queries!Next /\ UNCHANGED own
    \/ handler = "workflows" /\ Workflows!Next
    \/ handler = "plain workflows" /\ PlainWorkflows!Next

IntegrationsInit ==
    \/ scenario = "middleware" /\ Init /\ background \in BOOLEAN /\ CallbacksUnused
    \/ scenario = "callbacks" /\ Init /\ background = FALSE /\ CallbacksInit

MiddlewareStep ==
    /\ scenario = "middleware"
    /\ (background /\ Next) \/ (~background /\ Inline!Next)
    /\ UNCHANGED <<scenario, background, callbackVars>>
CallbackStep ==
    /\ scenario = "callbacks" /\ CallbacksNext
    /\ UNCHANGED <<scenario, handler, loggerVars>>

\* The fairness of ServedSpec; the steps it names do not depend on the kind.
Served(A) == scenario = "middleware" /\ A

IntegrationsSpec ==
    /\ IntegrationsInit
    /\ [][MiddlewareStep \/ CallbackStep]_<<scenario, loggerVars, callbackVars>>
    /\ \A r \in Requests : WF_vars(Served(Loop(r))) /\ WF_vars(Served(Written(r) \/ Failed(r)))
    /\ \A d \in Drains : WF_vars(Served(DrainReturn(d)))

-----------------------------------------------------------------------------
\* However the callbacks of several runs interleave, and whichever contexts they
\* come in, no run's query, documents, answer or events land in the trace of
\* another one, and none's are scattered over several (_activate of each handler).
RunsKeepApart ==
    /\ handler = "chains" => Chains!OneRunPerTrace /\ Chains!OneTracePerRun
    /\ handler = "plain chains" => PlainChains!OneRunPerTrace /\ PlainChains!OneTracePerRun
    /\ handler = "queries" => Queries!OneQueryPerTrace /\ Queries!OneTracePerQuery
    /\ handler = "workflows" => Workflows!OneRunPerTrace /\ Workflows!OneTraceWhileOpen
    /\ handler = "plain workflows" => PlainWorkflows!OneRunPerTrace /\ PlainWorkflows!OneTraceWhileOpen

\* A run that came to an answer has one in its trace, and no trace has two (an
\* answer is logged only once, and must not be taken for logged too early); the
\* registry keeps no entry of a run that has come to its end, under none of the
\* ids its callbacks carried.
AnswerIsKept ==
    /\ handler = "chains" => Chains!OneAnswer /\ Chains!AnswerIsKept /\ Chains!EntriesReleased
    /\ handler = "plain chains" => PlainChains!OneAnswer /\ PlainChains!AnswerIsKept
    /\ handler = "queries" => Queries!AnsweredOnce /\ Queries!EntriesReleased
    /\ handler = "workflows" => Workflows!OneAnswer /\ Workflows!EntriesReleased
    /\ handler = "plain workflows" => PlainWorkflows!OneAnswer
=============================================================================
