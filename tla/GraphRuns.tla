------------------------------ MODULE GraphRuns -------------------------------
(***************************************************************************)
(* ContextTraceLangGraphTracer (integrations/langgraph.py): start_trace,   *)
(* the node, tool and error events of a graph and end_trace are written to *)
(* one trace per run of the graph.  A call finds the state of its run by   *)
(* the run id it may carry, else by a context variable, else it takes a    *)
(* state that all calls share.  Calls are steps.                           *)
(***************************************************************************)
EXTENDS Naturals, Sequences, FiniteSets

CONSTANTS
    Runs,       \* runs of graphs
    WithIds,    \* do start_trace, end_trace and the events carry run_id?
    Implicit,   \* runs that begin with a node instead of start_trace
    Contexts,   \* threads and tasks, each with its own context variables
    MaxEvents,  \* bound: events after the first of a run
    NoState

VARIABLES
    phase,     \* phase[r]: "waiting", "open", "ended"
    home,      \* home[r]: the contexts in which the code of r runs
    logged,    \* logged[r]: events of r after its first
    states,    \* the _RunState objects; states[1] is _default_state
    registry,  \* _run_states
    current,   \* current[c]: _current_state in context c
    traces     \* traces in the order they were started

vars == <<phase, home, logged, states, registry, current, traces>>

FreshState == [trace |-> 0, query |-> FALSE]
DefaultState == 1

Init ==
    /\ phase = [r \in Runs |-> "waiting"]
    /\ home = [r \in Runs |-> {}]
    /\ logged = [r \in Runs |-> 0]
    /\ states = <<FreshState>>
    /\ registry = [r \in Runs |-> NoState]
    /\ current = [c \in Contexts |-> NoState]
    /\ traces = <<>>

-----------------------------------------------------------------------------
(* _activate.  log is the pair of states and traces a call works on.       *)

Now == [states |-> states, traces |-> traces]

CurrentOr(now) == IF now # NoState THEN now ELSE DefaultState

\* The context's state was used for a run that has ended.
Spent(log, now) == now # NoState /\ log.states[now].trace = 0 /\ log.states[now].query

\* Mutation: a root in a context that has a state keeps it.
NeedsStateNever(log, keyed, now) == keyed \/ now = NoState

NeedsState(log, keyed, now) == keyed \/ now = NoState \/ Spent(log, now)

StateFor(log, known, keyed, now, create) ==
    IF known # NoState THEN known
    ELSE IF create /\ NeedsState(log, keyed, now) THEN Len(log.states) + 1
    ELSE CurrentOr(now)

With(log, s) == IF s > Len(log.states) THEN [log EXCEPT !.states = Append(@, FreshState)] ELSE log

Known(r) == IF WithIds THEN registry[r] ELSE NoState

\* Mutation: a state is not entered under the run's id.
EnteredNever(r, s) == registry

Entered(r, s) == IF WithIds THEN [registry EXCEPT ![r] = s] ELSE registry

-----------------------------------------------------------------------------
(* start_trace, _ensure_trace                                              *)

HasTrace(log, s) == log.states[s].trace # 0

Opened(log, s, r) ==
    IF HasTrace(log, s) THEN log
    ELSE [states |-> [log.states EXCEPT ![s] = [trace |-> Len(log.traces) + 1, query |-> TRUE]],
          traces |-> Append(log.traces, [by |-> {r}, answers |-> <<>>])]

\* _ensure_trace calls start_trace without an id when the state has no trace:
\* the state it takes is the activated one, or a new one if that is spent.
Ensured(log, s) ==
    IF HasTrace(log, s) THEN s ELSE StateFor(log, NoState, FALSE, s, TRUE)

Write(log, s, r) == [log EXCEPT !.traces[log.states[s].trace].by = @ \cup {r}]

Becomes(log, entries, c, s) ==
    /\ states' = log.states /\ traces' = log.traces
    /\ registry' = entries
    /\ current' = [current EXCEPT ![c] = s]

\* An event: the state of the run is activated, its trace made sure of, the
\* event written to the trace of what is the current state then.
LogsEvent(r, c) ==
    LET s   == StateFor(Now, Known(r), WithIds, current[c], FALSE)
        at  == Ensured(Now, s)
        log == Opened(With(Now, at), at, r)
    IN Becomes(Write(log, at, r), Entered(r, s), c, at)

-----------------------------------------------------------------------------
(* When calls come.  Without ids a run has contexts of its own: the one it *)
(* begins in and those forked from it.                                     *)

Busy(c) == \E r \in Runs : phase[r] = "open" /\ c \in home[r]

MayBegin(r, c) == phase[r] = "waiting" /\ (WithIds \/ ~Busy(c))

Begins(r, c) ==
    /\ phase' = [phase EXCEPT ![r] = "open"]
    /\ home' = [home EXCEPT ![r] = {c}]
    /\ UNCHANGED logged

StartTrace(r, c) ==
    LET s == StateFor(Now, Known(r), WithIds, current[c], TRUE)
    IN /\ r \notin Implicit /\ MayBegin(r, c)
       /\ Becomes(Opened(With(Now, s), s, r), Entered(r, s), c, s)
       /\ Begins(r, c)

\* A run that begins with a node.
FirstNode(r, c) ==
    /\ r \in Implicit /\ MayBegin(r, c)
    /\ LogsEvent(r, c)
    /\ Begins(r, c)

\* on_node_start, on_node_end, on_tool_start, on_tool_end, on_error, wrap_node
Event(r, c) ==
    /\ phase[r] = "open" /\ (WithIds \/ c \in home[r])
    /\ logged[r] < MaxEvents
    /\ LogsEvent(r, c)
    /\ logged' = [logged EXCEPT ![r] = @ + 1]
    /\ UNCHANGED <<phase, home>>

\* Mutation: the entry of the run that ends is removed, not those of its state.
ReleaseOwn(entries, s, r) == entries

Release(entries, s, r) == [x \in Runs |-> IF entries[x] = s THEN NoState ELSE entries[x]]

\* Mutation: the state keeps its trace when the run ends.
ClosedNever(log, s) == log

Closed(log, s) == [log EXCEPT !.states[s].trace = 0]

EndTrace(r, c) ==
    LET s    == StateFor(Now, Known(r), WithIds, current[c], FALSE)
        held == Entered(r, s)
    IN /\ phase[r] = "open" /\ (WithIds \/ c \in home[r])
       /\ \E answer \in BOOLEAN :
            IF ~HasTrace(Now, s) THEN Becomes(Now, held, c, s)
            ELSE LET log == IF answer
                            THEN [Write(Now, s, r) EXCEPT !.traces[states[s].trace].answers = Append(@, r)]
                            ELSE Now
                 IN Becomes(Closed(log, s), Release(held, s, r), c, s)
       /\ phase' = [phase EXCEPT ![r] = "ended"]
       /\ UNCHANGED <<home, logged>>

\* A task or thread that starts copies the context variables of its maker and
\* works for the runs its maker works for.
Fork(c, d) ==
    /\ c # d /\ ~Busy(d)
    /\ current' = [current EXCEPT ![d] = current[c]]
    /\ home' = [r \in Runs |-> CASE phase[r] = "open" /\ c \in home[r] -> home[r] \cup {d}
                                 [] OTHER -> home[r] \ {d}]
    /\ UNCHANGED <<phase, logged, states, registry, traces>>

Next ==
    \/ \E r \in Runs, c \in Contexts :
          \/ StartTrace(r, c) \/ FirstNode(r, c)
          \/ Event(r, c) \/ EndTrace(r, c)
    \/ \E c, d \in Contexts : Fork(c, d)

Spec == Init /\ [][Next]_vars

-----------------------------------------------------------------------------
TypeOK ==
    /\ phase \in [Runs -> {"waiting", "open", "ended"}]
    /\ \A s \in DOMAIN states : states[s].trace \in 0..Len(traces) /\ states[s].query \in BOOLEAN
    /\ registry \in [Runs -> DOMAIN states \cup {NoState}]
    /\ current \in [Contexts -> DOMAIN states \cup {NoState}]

\* No event or answer of one run is written to the trace of another, in whatever
\* contexts and order they come.
OneRunPerTrace == \A t \in DOMAIN traces : Cardinality(traces[t].by) = 1

\* While a run is open all it logs goes to one trace.
TracesOf(r) == {t \in DOMAIN traces : r \in traces[t].by}
OneTraceWhileOpen == \A r \in Runs : phase[r] = "open" => Cardinality(TracesOf(r)) = 1

\* An answer is the one its run was ended with, and it is the trace's only one.
OneAnswer == \A t \in DOMAIN traces :
                 Len(traces[t].answers) <= 1 /\ \A i \in DOMAIN traces[t].answers : traces[t].answers[i] \in traces[t].by

\* The tracer forgets a run that has ended, however many ids led to its state.
EntriesReleased == \A r \in Runs : phase[r] = "ended" => registry[r] = NoState
=============================================================================
