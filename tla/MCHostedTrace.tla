---------------------------- MODULE MCHostedTrace ----------------------------
(* Instances of HostedTrace: the lists that requests carry.                *)
EXTENDS HostedTrace, TLC

CONSTANTS k1, x, y, q, other, w1, w2

WorkerSymmetry == Permutations(Workers)

Chunk(id, text) == [id |-> id, content |-> text]

\* One chunk, whose text may change between calls.
OneChunk == {<<Chunk(k1, x)>>, <<Chunk(k1, y)>>}

\* Also one that is listed twice.
Lists == OneChunk \cup {<<Chunk(k1, x), Chunk(k1, y)>>}

CitesOne  == {{[claim |-> q, source |-> k1]}}
CitesSome == CitesOne \cup {{[claim |-> q, source |-> other]}}

-----------------------------------------------------------------------------
(* How much comes together, chosen at the start: requests one after another *)
(* with more kinds of lists; two at once with one evaluation at a time, of  *)
(* the kinds that write what an evaluation reads; or any two at once (and   *)
(* one request less).                                                       *)
VARIABLE load

Alone == INSTANCE HostedTrace WITH Batches <- Lists, CitationLists <- CitesSome

Used        == {w \in Workers : request[w] # Fresh}
Others      == {w \in Active : request[w].kind \in {"event", "context"}}

LoadInit == Init /\ load \in {"alone", "one judge", "crowd"}
LoadNext == /\ \/ load = "alone" /\ Alone!Next /\ Cardinality(Used') <= 1
               \/ load = "one judge" /\ Next /\ Cardinality(Judging') <= 1 /\ Others' = {}
               \/ load = "crowd" /\ Next
            /\ load = "crowd" => begun' < MaxRequests
            /\ UNCHANGED load
LoadSpec == LoadInit /\ [][LoadNext]_<<vars, load>>
=============================================================================
