---------------------------- MODULE CallbackRuns -----------------------------
(***************************************************************************)
(* ContextTraceCallbackHandler (integrations/langchain.py): one handler    *)
(* receives the callbacks of interleaved LangChain runs and writes each    *)
(* run's query, documents, answer and events to a trace.  A callback finds *)
(* the state of its run by its run ids, else by a context variable, else   *)
(* it takes a state all callbacks share.  Callbacks are steps.             *)
(***************************************************************************)
EXTENDS Naturals, Sequences, FiniteSets

CONSTANTS
    Runs,        \* run ids
    Parent,      \* Parent[r]: the chain r is nested in, itself a root; NoRun for a root
    Kind,        \* Kind[r]: "chain", "retriever" or "tool"
    Contexts,    \* threads and tasks, each with its own context variables
    Where,       \* Where[r]: the contexts the callbacks of r may come in
    WithIds,     \* do callbacks carry run_id and parent_run_id?
    Unanswered,  \* may a chain's outputs hold no answer?
    NoRun, NoState

VARIABLES
    phase,     \* phase[r]: "waiting", "open", or how r ended
    states,    \* the _RunState objects; states[1] is _default_state
    registry,  \* _run_states
    current,   \* current[c]: _current_state in context c
    traces     \* traces in the order they were started

vars == <<phase, states, registry, current, traces>>

Root(r) == IF Parent[r] = NoRun THEN r ELSE Parent[r]

FreshState == [trace |-> 0, answered |-> FALSE]
DefaultState == 1

Init ==
    /\ phase = [r \in Runs |-> "waiting"]
    /\ states = <<FreshState>>
    /\ registry = [r \in Runs |-> NoState]
    /\ current = [c \in Contexts |-> NoState]
    /\ traces = <<>>

-----------------------------------------------------------------------------
(* _activate, _release_state                                               *)

\* _run_states.get(parent_id) or _run_states.get(run_id)
Registered(r) ==
    IF Parent[r] # NoRun /\ registry[Parent[r]] # NoState
    THEN registry[Parent[r]] ELSE registry[r]

Allocated == Len(states) + 1

\* not (current is None or current.answer_logged)
HoldsUnanswered(c) == current[c] # NoState /\ ~states[current[c]].answered

\* Mutation: every chain start without ids makes a state, even inside a run.
StateForAlwaysFresh(r, c, newRoot) ==
    IF WithIds /\ Registered(r) # NoState THEN Registered(r) ELSE Allocated

\* Mutation: a root with an id keeps the context's unanswered state.
StateForUnlessCurrent(r, c, newRoot) ==
    CASE WithIds /\ Registered(r) # NoState -> Registered(r)
      [] ~(WithIds /\ Registered(r) # NoState)
            /\ newRoot /\ ~HoldsUnanswered(c) -> Allocated
      [] OTHER -> IF current[c] # NoState THEN current[c] ELSE DefaultState

\* Mutation: without ids every new root shares what the context holds.
StateForWithoutFresh(r, c, newRoot) ==
    CASE WithIds /\ Registered(r) # NoState -> Registered(r)
      [] ~(WithIds /\ Registered(r) # NoState)
            /\ newRoot /\ (WithIds \/ current[c] = NoState) -> Allocated
      [] OTHER -> IF current[c] # NoState THEN current[c] ELSE DefaultState

StateFor(r, c, newRoot) ==
    CASE WithIds /\ Registered(r) # NoState -> Registered(r)
      [] ~(WithIds /\ Registered(r) # NoState)
            /\ newRoot /\ (WithIds \/ ~HoldsUnanswered(c)) -> Allocated
      [] OTHER -> IF current[c] # NoState THEN current[c] ELSE DefaultState

Activate(r, c, s) ==
    [x \in Runs |-> IF WithIds /\ x \in {r, Parent[r]} THEN s ELSE registry[x]]

Release(entries, s) == [x \in Runs |-> IF entries[x] = s THEN NoState ELSE entries[x]]

\* Mutation: only the entry of the run that ended is removed.
ReleaseAtEndOwn(r, entries, s) ==
    IF Parent[r] = NoRun THEN [entries EXCEPT ![r] = NoState] ELSE entries

\* if not kwargs.get("parent_run_id"): self._release_state(state)
ReleaseAtEnd(r, entries, s) ==
    IF Parent[r] = NoRun \/ ~WithIds THEN Release(entries, s) ELSE entries

-----------------------------------------------------------------------------
(* What a callback writes.  log is the pair of states and traces.          *)

Log(s) == [states |-> IF s > Len(states) THEN Append(states, FreshState) ELSE states,
           traces |-> traces]

TraceOf(log, s) == log.states[s].trace
HasTrace(log, s) == TraceOf(log, s) # 0

Write(log, s, r) ==
    IF HasTrace(log, s) THEN [log EXCEPT !.traces[TraceOf(log, s)].by = @ \cup {Root(r)}] ELSE log

\* Mutation: a new trace comes with the mark that its answer is logged.
EnsureTraceAnswered(log, s, r) ==
    IF HasTrace(log, s) THEN log
    ELSE [states |-> [log.states EXCEPT ![s] = [trace |-> Len(log.traces) + 1, answered |-> TRUE]],
          traces |-> Append(log.traces, [by |-> {Root(r)}, answers |-> <<>>])]

EnsureTrace(log, s, r) ==
    IF HasTrace(log, s) THEN log
    ELSE [states |-> [log.states EXCEPT ![s].trace = Len(log.traces) + 1],
          traces |-> Append(log.traces, [by |-> {Root(r)}, answers |-> <<>>])]

LogAnswer(log, s, r, what) ==
    [Write(log, s, r) EXCEPT !.traces[TraceOf(log, s)].answers = Append(@, <<r, what>>),
                             !.states[s].answered = TRUE]

Becomes(log, entries, c, s) ==
    /\ states' = log.states
    /\ traces' = log.traces
    /\ registry' = entries
    /\ current' = [current EXCEPT ![c] = s]

-----------------------------------------------------------------------------
(* When callbacks come: a run is open inside its parent; without ids the   *)
(* callbacks of a root and its children come in one context, one root at a *)
(* time.                                                                   *)

Open(r) == phase[r] = "open"

MayStart(r, c) ==
    /\ phase[r] = "waiting"
    /\ c \in Where[r]
    /\ Parent[r] # NoRun => Open(Parent[r])
    /\ ~WithIds /\ Parent[r] = NoRun => \A x \in Runs : Open(x) => c \notin Where[x]

MayEnd(r, c) ==
    /\ Open(r)
    /\ c \in Where[r]
    /\ \A x \in Runs : Parent[x] = r => ~Open(x)

Goes(r, to) == phase' = [phase EXCEPT ![r] = to]

\* on_chain_start
ChainStart(r, c) ==
    LET s == StateFor(r, c, ~WithIds \/ Parent[r] = NoRun)
    IN /\ Kind[r] = "chain" /\ MayStart(r, c)
       /\ \E query \in BOOLEAN :
            Becomes(IF query THEN EnsureTrace(Log(s), s, r) ELSE Log(s), Activate(r, c, s), c, s)
       /\ Goes(r, "open")

\* on_chain_end
ChainEnd(r, c) ==
    LET s == StateFor(r, c, FALSE)
        entries == Activate(r, c, s)
        log == EnsureTrace(Log(s), s, r)
    IN /\ Kind[r] = "chain" /\ MayEnd(r, c)
       /\ \/ /\ Unanswered \/ Parent[r] # NoRun
             /\ Becomes(Log(s), entries, c, s)
             /\ Goes(r, "silent")
          \/ /\ IF log.states[s].answered
                THEN Becomes(log, entries, c, s)
                ELSE Becomes(LogAnswer(log, s, r, "answer"), ReleaseAtEnd(r, entries, s), c, s)
             /\ Goes(r, "answered")

\* on_chain_error
ChainError(r, c) ==
    LET s == StateFor(r, c, FALSE)
        log == Write(Log(s), s, r)
    IN /\ Kind[r] = "chain" /\ MayEnd(r, c)
       /\ Becomes(IF HasTrace(log, s) /\ ~log.states[s].answered
                  THEN LogAnswer(log, s, r, "failure") ELSE log,
                  ReleaseAtEnd(r, Activate(r, c, s), s), c, s)
       /\ Goes(r, "failed")

\* on_retriever_start, on_retriever_end
RetrieverStart(r, c) ==
    LET s == StateFor(r, c, FALSE)
    IN /\ Kind[r] = "retriever" /\ MayStart(r, c)
       /\ Becomes(EnsureTrace(Log(s), s, r), Activate(r, c, s), c, s)
       /\ Goes(r, "open")

RetrieverEnd(r, c) ==
    LET s == StateFor(r, c, FALSE)
        log == EnsureTrace(Log(s), s, r)
    IN /\ Kind[r] = "retriever" /\ MayEnd(r, c)
       /\ \E documents \in BOOLEAN :
            Becomes(IF documents THEN Write(log, s, r) ELSE log, Activate(r, c, s), c, s)
       /\ Goes(r, "answered")

\* on_tool_start; on_tool_end and on_tool_error
ToolStart(r, c) ==
    LET s == StateFor(r, c, FALSE)
    IN /\ Kind[r] = "tool" /\ MayStart(r, c)
       /\ Becomes(Write(EnsureTrace(Log(s), s, r), s, r), Activate(r, c, s), c, s)
       /\ Goes(r, "open")

ToolEnd(r, c) ==
    LET s == StateFor(r, c, FALSE)
    IN /\ Kind[r] = "tool" /\ MayEnd(r, c)
       /\ Becomes(Write(Log(s), s, r), Activate(r, c, s), c, s)
       /\ \E how \in {"answered", "failed"} : Goes(r, how)

\* A task that starts copies the context variables of the one that made it.
\* Without ids that one must not hold an unanswered state: tasks that copy the
\* same one would be one run to the handler.
Fork(c, d) ==
    /\ WithIds \/ ~HoldsUnanswered(c)
    /\ \A r \in Runs : Open(r) => d \notin Where[r]
    /\ current' = [current EXCEPT ![d] = current[c]]
    /\ UNCHANGED <<phase, states, registry, traces>>

Next ==
    \/ \E r \in Runs, c \in Contexts :
          \/ ChainStart(r, c)
          \/ ChainEnd(r, c)
          \/ ChainError(r, c)
          \/ RetrieverStart(r, c)
          \/ RetrieverEnd(r, c)
          \/ ToolStart(r, c)
          \/ ToolEnd(r, c)
    \/ \E c, d \in Contexts : Fork(c, d)

Spec == Init /\ [][Next]_vars

-----------------------------------------------------------------------------
TypeOK ==
    /\ phase \in [Runs -> {"waiting", "open", "answered", "silent", "failed"}]
    /\ \A s \in DOMAIN states : states[s].trace \in 0..Len(traces) /\ states[s].answered \in BOOLEAN
    /\ registry \in [Runs -> DOMAIN states \cup {NoState}]
    /\ current \in [Contexts -> DOMAIN states \cup {NoState}]
    /\ \A t \in DOMAIN traces : traces[t].by \subseteq Runs

\* No run's query, documents, answer or events land in the trace of another
\* run, however their callbacks interleave and whichever context they come in.
OneRunPerTrace == \A t \in DOMAIN traces : Cardinality(traces[t].by) = 1

\* What belongs to one run is not scattered: nested chains, tools and
\* retrievers write to the trace their root opened.
OneTracePerRun ==
    \A t, u \in DOMAIN traces : traces[t].by \cap traces[u].by # {} => t = u

\* A trace gets one answer, the failure text counted as one.
OneAnswer == \A t \in DOMAIN traces : Len(traces[t].answers) <= 1

\* A root that came to an answer or an error has one in its trace.
Answers(r) == UNION {{traces[t].answers[i] : i \in DOMAIN traces[t].answers} :
                        t \in {u \in DOMAIN traces : r \in traces[u].by}}
AnswerIsKept == \A r \in Runs : Parent[r] = NoRun /\ phase[r] = "answered" => Answers(r) # {}

\* The handler forgets a run when its root fails or answers for itself: no
\* entry under any of the run's ids is left (a root a nested chain answered
\* for, or that ended silently, keeps its entries).
EntriesReleased ==
    \A r \in Runs :
        phase[Root(r)] = "failed" \/ <<Root(r), "answer">> \in Answers(Root(r)) => registry[r] = NoState

\* docs/integrations/langchain.md promises the final answer: the text in the
\* trace of a root that answered is the root's own.
FinalAnswerIsCaptured ==
    \A r \in Runs : Parent[r] = NoRun /\ phase[r] = "answered" => Answers(r) \subseteq {<<r, "answer">>}
=============================================================================
