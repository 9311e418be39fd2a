------------------------------ MODULE EventRuns ------------------------------
(***************************************************************************)
(* ContextTraceLlamaIndexCallbackHandler (integrations/llamaindex.py): the *)
(* start and end of LlamaIndex events, and the handler's own trace_query   *)
(* and trace_response, are written to one trace per query.  An event finds *)
(* the state of its query by its id, then by its parent's, then by a       *)
(* context variable.  Ends carry no parent.  Callbacks are steps.          *)
(***************************************************************************)
EXTENDS Naturals, Sequences, FiniteSets

CONSTANTS
    Events,    \* event ids
    Base,      \* the parent id all top level events share
    Parent,    \* Parent[e]: the event e is nested in, or Base
    Kind,      \* "query", "retrieve", "synthesize"; "manual" for trace_query and trace_response
    Contexts,  \* threads and tasks, each with its own context variables
    Where,     \* Where[e]: the contexts the callbacks of e may come in
    NoState

Ids == Events \cup {Base}

VARIABLES
    phase,     \* phase[e]: "waiting", "open", "done"; "answered" if it gave a text
    states,    \* the _RunState objects; states[1] is _default_state
    registry,  \* _event_states
    current,   \* current[c]: _current_state in context c
    traces     \* traces in the order they were started

vars == <<phase, states, registry, current, traces>>

\* The query an event belongs to: the innermost one it is nested in.
Query[e \in Events] == IF Kind[e] \in {"query", "manual"} \/ Parent[e] = Base THEN e ELSE Query[Parent[e]]

\* Mutation: a new state counts as answered.
FreshStateAnswered == [trace |-> 0, answered |-> TRUE, retrieved |-> {}]

FreshState == [trace |-> 0, answered |-> FALSE, retrieved |-> {}]
DefaultState == 1

Init ==
    /\ phase = [e \in Events |-> "waiting"]
    /\ states = <<FreshState>>
    /\ registry = [i \in Ids |-> NoState]
    /\ current = [c \in Contexts |-> NoState]
    /\ traces = <<>>

-----------------------------------------------------------------------------
(* _activate: the parent's entry is not looked at for a new root, and is   *)
(* not known at an event's end; whatever was found is entered under both.  *)

\* Mutation: a new root takes its parent's state like any other event.
StateForInherited(e, parents, c, newRoot) ==
    LET known == {i \in {e} : registry[i] # NoState}
        above == {i \in parents : registry[i] # NoState}
    IN CASE known # {} -> registry[e]
         [] known = {} /\ above # {} -> registry[CHOOSE i \in above : TRUE]
         [] known = {} /\ above = {} /\ newRoot -> Len(states) + 1
         [] OTHER -> IF current[c] # NoState THEN current[c] ELSE DefaultState

\* Mutation: an event with an unknown id starts a state of its own.
StateForAlone(e, parents, c, newRoot) ==
    IF registry[e] # NoState THEN registry[e] ELSE Len(states) + 1

StateFor(e, parents, c, newRoot) ==
    LET known == {i \in {e} : registry[i] # NoState}
        above == {i \in parents : registry[i] # NoState}
    IN CASE known # {} -> registry[e]
         [] known = {} /\ newRoot -> Len(states) + 1
         [] known = {} /\ ~newRoot /\ above # {} -> registry[CHOOSE i \in above : TRUE]
         [] OTHER -> IF current[c] # NoState THEN current[c] ELSE DefaultState

Activate(e, parents, s) == [i \in Ids |-> IF i = e \/ i \in parents THEN s ELSE registry[i]]

\* Mutation: the entries of a state are kept.
ReleaseNone(entries, s) == entries

Release(entries, s) == [i \in Ids |-> IF entries[i] = s THEN NoState ELSE entries[i]]

-----------------------------------------------------------------------------
(* What a callback writes.  log is the pair of states and traces.          *)

Log(s) == [states |-> IF s > Len(states) THEN Append(states, FreshState) ELSE states,
           traces |-> traces]

Write(log, s, owners) == [log EXCEPT !.traces[log.states[s].trace].by = @ \cup owners]

EnsureTrace(log, s, e) ==
    IF log.states[s].trace # 0 THEN log
    ELSE [states |-> [log.states EXCEPT ![s].trace = Len(log.traces) + 1],
          traces |-> Append(log.traces, [by |-> {Query[e]}, answers |-> <<>>])]

\* _log_retrieved_nodes
LogRetrieved(log, s, e) ==
    Write(EnsureTrace([log EXCEPT !.states[s].retrieved = {Query[e]}], s, e), s, {Query[e]})

\* Mutation: the answer is logged whether or not the state has one.
LogResponseAgain(log, s, e, text) ==
    LET written == Write(EnsureTrace(log, s, e), s, log.states[s].retrieved \cup {Query[e]})
    IN IF text THEN [written EXCEPT !.traces[written.states[s].trace].answers = Append(@, e),
                                    !.states[s].answered = TRUE]
       ELSE written

\* _log_response: the selected context is the response's nodes, else the
\* nodes retrieved before.
LogResponse(log, s, e, text) ==
    LET written == Write(EnsureTrace(log, s, e), s, log.states[s].retrieved \cup {Query[e]})
    IN IF text /\ ~written.states[s].answered
       THEN [written EXCEPT !.traces[written.states[s].trace].answers = Append(@, e),
                            !.states[s].answered = TRUE]
       ELSE written

Becomes(log, entries, c, s) ==
    /\ states' = log.states
    /\ traces' = log.traces
    /\ registry' = entries
    /\ current' = [current EXCEPT ![c] = s]

-----------------------------------------------------------------------------
Open(e) == phase[e] = "open"

MayStart(e, c) ==
    /\ phase[e] = "waiting"
    /\ c \in Where[e]
    /\ Parent[e] # Base => Open(Parent[e])

MayEnd(e, c) ==
    /\ Open(e)
    /\ c \in Where[e]
    /\ \A x \in Events : Parent[x] = e => ~Open(x)

Goes(e, to) == phase' = [phase EXCEPT ![e] = to]

\* on_event_start: only a query with a text starts a trace.
EventStart(e, c) ==
    LET query == Kind[e] = "query"
        s == StateFor(e, {Parent[e]}, c, query)
    IN /\ Kind[e] # "manual" /\ MayStart(e, c)
       /\ \E text \in BOOLEAN :
            Becomes(IF query /\ text THEN EnsureTrace(Log(s), s, e) ELSE Log(s),
                    Activate(e, {Parent[e]}, s), c, s)
       /\ Goes(e, "open")

\* on_event_end of a retrieve event
RetrieveEnd(e, c) ==
    LET s == StateFor(e, {}, c, FALSE)
    IN /\ Kind[e] = "retrieve" /\ MayEnd(e, c)
       /\ Becomes(LogRetrieved(Log(s), s, e), Activate(e, {}, s), c, s)
       /\ Goes(e, "done")

\* on_event_end of a synthesize or query event
ResponseEnd(e, c) ==
    LET s == StateFor(e, {}, c, FALSE)
        entries == Activate(e, {}, s)
    IN /\ Kind[e] \in {"query", "synthesize"} /\ MayEnd(e, c)
       /\ \E text \in BOOLEAN :
            LET log == LogResponse(Log(s), s, e, text)
            IN /\ Becomes(log, IF Kind[e] = "query" /\ log.states[s].answered
                               THEN Release(entries, s) ELSE entries, c, s)
               /\ Goes(e, IF text THEN "answered" ELSE "done")

\* trace_query: a new state unless the context holds an unanswered one.
TraceQuery(e, c) ==
    LET s == IF current[c] # NoState /\ ~states[current[c]].answered
             THEN current[c] ELSE Len(states) + 1
    IN /\ Kind[e] = "manual" /\ MayStart(e, c)
       /\ Becomes(EnsureTrace(Log(s), s, e), registry, c, s)
       /\ Goes(e, "open")

\* trace_response
TraceResponse(e, c) ==
    /\ Kind[e] = "manual" /\ MayEnd(e, c)
    /\ \E text \in BOOLEAN :
         /\ Becomes(LogResponse(Log(current[c]), current[c], e, text), registry, c, current[c])
         /\ Goes(e, IF text THEN "answered" ELSE "done")

Next ==
    \E e \in Events, c \in Contexts :
       \/ EventStart(e, c)
       \/ RetrieveEnd(e, c)
       \/ ResponseEnd(e, c)
       \/ TraceQuery(e, c)
       \/ TraceResponse(e, c)

Spec == Init /\ [][Next]_vars

-----------------------------------------------------------------------------
TypeOK ==
    /\ phase \in [Events -> {"waiting", "open", "done", "answered"}]
    /\ \A s \in DOMAIN states : /\ states[s].trace \in 0..Len(traces)
                                /\ states[s].answered => states[s].trace # 0
                                /\ states[s].retrieved \subseteq Events
    /\ registry \in [Ids -> DOMAIN states \cup {NoState}]
    /\ current \in [Contexts -> DOMAIN states \cup {NoState}]

\* Queries that interleave under the parent id they share never write their
\* text, nodes, context or answer into each other's trace.
OneQueryPerTrace == \A t \in DOMAIN traces : Cardinality(traces[t].by) = 1

\* The retrieve and synthesize events of a query write to the trace it opened.
OneTracePerQuery == \A t, u \in DOMAIN traces : traces[t].by \cap traces[u].by # {} => t = u

\* A query that gave a text has exactly one answer in the trace it wrote to
\* (docs/integrations/llamaindex.md: the final response text is captured).
AnswersOf(e) == [t \in {u \in DOMAIN traces : e \in traces[u].by} |-> Len(traces[t].answers)]
AnsweredOnce ==
    \A e \in Events :
        Kind[e] \in {"query", "manual"} /\ phase[e] = "answered" =>
            /\ DOMAIN AnswersOf(e) # {}
            /\ \A t \in DOMAIN AnswersOf(e) : AnswersOf(e)[t] = 1

\* An answered query leaves no entry behind, its own or its events'.
EntriesReleased ==
    \A e \in Events : Query[e] # e /\ phase[Query[e]] = "answered" => registry[e] = NoState
=============================================================================
