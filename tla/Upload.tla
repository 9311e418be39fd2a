------------------------------- MODULE Upload --------------------------------
(***************************************************************************)
(* ContextTrace.upload_traces and _replay_trace (client.py): local traces  *)
(* are replayed, call by call, into a hosted store, over the retrying      *)
(* transport of HttpRetry.  The server's side of each call is that of      *)
(* TraceService (apps/api/app/services/traces.py), one commit per request. *)
(*                                                                         *)
(* A remote trace is named by the request that created it: a start that is *)
(* tried twice may create two of them, of which the client learns one.     *)
(***************************************************************************)
EXTENDS HttpRetry, SequencesExt

CONSTANTS
    Chunks, Checks, Events, \* what local traces hold
    TraceLists, \* what list_traces may return: sequences of the local traces' contents
    MaxRuns,    \* bound: how often upload_traces is called
    None

\* The selected chunks are picked from the chunks of the trace.
LocalTrace == [chunks : SUBSET Chunks, selected : SUBSET Chunks, answer : BOOLEAN,
               checks : SUBSET Checks, events : Seq(Events)]
HostedTrace == [of : Nat, chunks : SUBSET Chunks, selected : SUBSET Chunks, answer : BOOLEAN,
                checks : SUBSET Checks, events : Seq(Events)]

ASSUME TraceListsAssumption ==
    \A list \in TraceLists :
        list \in Seq(LocalTrace) /\ \A i \in DOMAIN list : list[i].selected \subseteq list[i].chunks
ASSUME NoneAssumption == None \notin Requests /\ None \notin HostedTrace

VARIABLES
    traces,     \* the local traces, read once before the first call
    run,        \* "running", "returned", "raised"
    runs,       \* calls of upload_traces so far
    at,         \* the trace that is replayed
    step,       \* the calls made for it
    target,     \* remote_trace_id
    ops,        \* ops[c]: what call c asks of the server
    remote,     \* remote[id]: the hosted trace
    uploaded    \* pairs of a local trace and the id it was reported under

replay == <<traces, run, runs, at, step, target, ops, uploaded>>
allvars == <<vars, replay, remote>>

-----------------------------------------------------------------------------
(* The calls a local trace is replayed as.                                 *)

Posts == [kind : {"start", "retrieval", "context", "answer", "citations"}]
           \cup [kind : {"event"}, event : Events]

Post(kind)      == [kind |-> kind]
EventPost(e)    == [kind |-> "event", event |-> e]
When(cond, kind) == IF cond THEN <<Post(kind)>> ELSE <<>>

PostsBeforeEvents(t) ==
    <<Post("start")>>
      \o When(t.chunks # {}, "retrieval")
      \o When(t.selected # {}, "context")
      \o When(t.answer, "answer")
      \o When(t.checks # {}, "citations")

Steps(t) == PostsBeforeEvents(t) \o [i \in DOMAIN t.events |-> EventPost(t.events[i])]

-----------------------------------------------------------------------------
(* The server's side of a call.                                            *)

Empty(i) == [of |-> i, chunks |-> {}, selected |-> {}, answer |-> FALSE, checks |-> {}, events |-> <<>>]

\* Mutation: a retrieval logged again replaces the chunk rows.
AppliedToReplacing(row, t, post) ==
    CASE post.kind = "retrieval" -> [row EXCEPT !.chunks = t.chunks, !.selected = {}]
      [] post.kind = "context"   -> [row EXCEPT !.chunks = @ \cup t.selected, !.selected = @ \cup t.selected]
      [] post.kind = "answer"    -> [row EXCEPT !.answer = TRUE]
      [] post.kind = "citations" -> [row EXCEPT !.checks = t.checks]
      [] post.kind = "event"     -> [row EXCEPT !.events = Append(@, post.event)]

\* Chunks are upserted and stay selected, the answer is written over, citations
\* replace the ones before, an event is one more row every time.
AppliedTo(row, t, post) ==
    CASE post.kind = "retrieval" -> [row EXCEPT !.chunks = @ \cup t.chunks]
      [] post.kind = "context"   -> [row EXCEPT !.chunks = @ \cup t.selected, !.selected = @ \cup t.selected]
      [] post.kind = "answer"    -> [row EXCEPT !.answer = TRUE]
      [] post.kind = "citations" -> [row EXCEPT !.checks = t.checks]
      [] post.kind = "event"     -> [row EXCEPT !.events = Append(@, post.event)]

Effect(r) ==
    LET op == ops[r[1]]
    IN IF op.post.kind = "start"
       THEN [remote EXCEPT ![r] = Empty(op.trace)]
       ELSE [remote EXCEPT ![op.target] = AppliedTo(@, traces[op.trace], op.post)]

ServeUpload ==
    /\ \E r \in network, answer \in Answers, commits \in BOOLEAN :
        /\ Serve(r, answer, commits)
        /\ remote' = IF commits THEN Effect(r) ELSE remote
    /\ UNCHANGED replay

-----------------------------------------------------------------------------
(* The client's side.                                                      *)

UploadInit ==
    /\ Init
    /\ traces \in TraceLists
    /\ run = "running" /\ runs = 1
    /\ at = 1 /\ step = 0 /\ target = None
    /\ ops = [c \in Calls |-> None]
    /\ remote = [r \in Requests |-> None]
    /\ uploaded = {}

\* The answer of the start call brings the id that the calls after it carry.
TargetOf == IF step = 1 THEN Current ELSE target
LastRaised == step > 0 /\ issued \in failed

NextCall ==
    /\ run = "running" /\ at <= Len(traces) /\ ~LastRaised
    /\ step < Len(Steps(traces[at]))
    /\ Call
    /\ target' = TargetOf
    /\ step' = step + 1
    /\ ops' = [ops EXCEPT ![issued + 1] =
                 [trace |-> at, target |-> TargetOf, post |-> Steps(traces[at])[step + 1]]]
    /\ UNCHANGED <<traces, run, runs, at, remote, uploaded>>

TraceUploaded ==
    /\ run = "running" /\ at <= Len(traces) /\ phase = "idle" /\ ~LastRaised
    /\ step = Len(Steps(traces[at]))
    /\ uploaded' = uploaded \cup {[local |-> at, id |-> TargetOf]}
    /\ at' = at + 1 /\ step' = 0 /\ target' = None
    /\ UNCHANGED <<vars, traces, run, runs, ops, remote>>

UploadReturns ==
    /\ run = "running" /\ at > Len(traces)
    /\ run' = "returned"
    /\ UNCHANGED <<vars, traces, runs, at, step, target, ops, remote, uploaded>>

\* Mutation: the trace is replayed from its start when a call raises.
UploadRestartsTrace ==
    /\ run = "running" /\ phase = "idle" /\ LastRaised
    /\ step' = 0 /\ target' = None
    /\ UNCHANGED <<vars, traces, run, runs, at, ops, remote, uploaded>>

\* An exception leaves upload_traces; what was uploaded before it stays there.
UploadRaises ==
    /\ run = "running" /\ phase = "idle" /\ LastRaised
    /\ run' = "raised"
    /\ UNCHANGED <<vars, traces, runs, at, step, target, ops, remote, uploaded>>

\* Calls that one upload makes if none fails.
CallsFor(list) == FoldLeft(LAMBDA n, t : n + Len(Steps(t)), 0, list)

\* The user tries again: every trace anew (as long as the bound on calls allows).
UploadAgain ==
    /\ run # "running" /\ runs < MaxRuns
    /\ issued + CallsFor(traces) <= MaxCalls
    /\ run' = "running" /\ runs' = runs + 1
    /\ at' = 1 /\ step' = 0 /\ target' = None
    /\ UNCHANGED <<vars, traces, ops, remote, uploaded>>

TransportStep == Transport /\ UNCHANGED <<replay, remote>>

Client == NextCall \/ TraceUploaded \/ UploadReturns \/ UploadRaises
UploadNext == Client \/ TransportStep \/ ServeUpload \/ UploadAgain

UploadSpec == UploadInit /\ [][UploadNext]_allvars

\* The client runs by itself, its timeouts included; nothing is asked of the server.
UploadFairSpec == UploadSpec /\ WF_allvars(Client) /\ WF_allvars(TransportStep)

-----------------------------------------------------------------------------
(* Properties.                                                             *)

RemoteIds == {r \in Requests : remote[r] # None}

\* An event stands only behind those that stand before it in the local trace.
InOrder(s, events) ==
    \A p \in DOMAIN s : \E j \in DOMAIN events :
        s[p] = events[j] /\ \A i \in 1..(j - 1) : \E q \in 1..(p - 1) : s[q] = events[i]

HasAll(s, events) == \A i \in DOMAIN events : \E p \in DOMAIN s : s[p] = events[i]

\* A trace that upload_traces reports is in the hosted store with all its parts,
\* its events in their order, and stays so when requests that were given up
\* arrive late; a repeated call shows in repeated events and in nothing else.
UploadedIsComplete ==
    \A u \in uploaded :
        LET t == traces[u.local]
            row == remote[u.id]
        IN /\ row # None
           /\ <<row.of, row.chunks, row.selected, row.answer, row.checks>>
                = <<u.local, t.chunks, t.selected, t.answer, t.checks>>
           /\ HasAll(row.events, t.events) /\ InOrder(row.events, t.events)

\* A start that was applied twice, or applied and reported as failed, leaves a
\* remote trace without content: each call of upload_traces fills at most one
\* copy of a local trace.
OneFilledCopyPerRun ==
    \A i \in DOMAIN traces :
        Cardinality({r \in RemoteIds : remote[r].of = i /\ remote[r] # Empty(i)}) <= runs

\* upload_traces comes to an end, whatever the server does.
UploadEnds == run = "running" ~> run # "running"
-----------------------------------------------------------------------------
(* The inductive invariant behind the two safety properties.               *)

\* A call of the replay.
Ops == [trace : Nat, target : Requests \cup {None}, post : Posts]

UploadTypes ==
    /\ traces \in TraceLists
    /\ run \in {"running", "returned", "raised"}
    /\ runs \in Nat /\ at \in Nat /\ step \in Nat
    /\ target \in Requests \cup {None}
    /\ ops \in [Calls -> Ops \cup {None}]
    /\ remote \in [Requests -> HostedTrace \cup {None}]
    /\ uploaded \subseteq [local : Nat, id : Requests]

\* A try is sent once, so it is applied once.
SentOnce ==
    /\ network \cap applied = {}
    /\ phase = "sending" => Current \notin network \cup applied

\* id is a copy of local trace i, and the k-th call that fills it was applied.
IsCopy(id, i) == id \in applied /\ ops[id[1]].trace = i /\ ops[id[1]].post = Post("start")
Done(i, id, k) ==
    \E r \in applied : ops[r[1]] = [trace |-> i, target |-> id, post |-> Steps(traces[i])[k]]
Filled(i, id, n) == IsCopy(id, i) /\ \A k \in 2..n : Done(i, id, k)

\* Call c belongs to the replay of a local trace, and those before it are applied.
InTurn(c) ==
    LET op == ops[c] IN
    /\ op \in Ops /\ op.trace \in DOMAIN traces
    /\ \E k \in DOMAIN Steps(traces[op.trace]) :
          /\ op.post = Steps(traces[op.trace])[k]
          /\ k > 1 => Filled(op.trace, op.target, k - 1)

\* A copy holds nothing that its local trace does not hold.
NothingElse(row, t) ==
    /\ row.chunks \subseteq t.chunks /\ row.selected \subseteq t.selected
    /\ row.answer => t.answer
    /\ row.checks \in {{}, t.checks}
    /\ InOrder(row.events, t.events)

RemoteInv ==
    /\ \A r \in Requests : remote[r] # None <=> r \in applied /\ ops[r[1]].post = Post("start")
    /\ \A r \in RemoteIds :
          remote[r].of = ops[r[1]].trace /\ NothingElse(remote[r], traces[remote[r].of])

\* What a call has brought to a copy stays there.
Shows(row, t, post) ==
    /\ post.kind = "retrieval" => t.chunks \subseteq row.chunks
    /\ post.kind = "context" => t.selected \subseteq row.selected
    /\ post.kind = "answer" => row.answer
    /\ post.kind = "citations" => row.checks = t.checks
    /\ post.kind = "event" => \E p \in DOMAIN row.events : row.events[p] = post.event

EffectsStay ==
    \A r \in applied :
        LET op == ops[r[1]] IN
        op.post.kind # "start" => Shows(remote[op.target], traces[op.trace], op.post)

\* Where upload_traces is.
ReplayInv ==
    /\ run # "running" => phase = "idle"
    /\ run = "running" =>
         /\ at \in 1..(Len(traces) + 1)
         /\ at > Len(traces) => step = 0
         /\ phase # "idle" => step > 0
         /\ step > 0 =>
              /\ step \in DOMAIN Steps(traces[at]) /\ issued > 0
              /\ ops[issued] = [trace |-> at, target |-> target, post |-> Steps(traces[at])[step]]
         /\ step > 1 => Filled(at, target, step - 1)

UploadedInv ==
    \A u \in uploaded :
        u.local \in DOMAIN traces /\ Filled(u.local, u.id, Len(Steps(traces[u.local])))

\* The copies that calls of the replay fill, and whether this run may fill another.
Filling(i) == {ops[c].target : c \in {d \in 1..issued : ops[d].trace = i /\ ops[d].post # Post("start")}}
NotYet(i) == run = "running" /\ (at < i \/ (at = i /\ step < 2))

FillingInv ==
    /\ \A i \in DOMAIN traces, r \in RemoteIds :
          remote[r].of = i /\ remote[r] # Empty(i) => r \in Filling(i)
    /\ \A i \in DOMAIN traces : Cardinality(Filling(i)) + (IF NotYet(i) THEN 1 ELSE 0) <= runs

UploadInv ==
    /\ UploadTypes /\ SentOnce
    /\ \A c \in 1..issued : InTurn(c)
    /\ RemoteInv /\ EffectsStay /\ ReplayInv /\ UploadedInv /\ FillingInv

=============================================================================
