----------------------------- MODULE MCTraceStore -----------------------------
(***************************************************************************)
(* Instances of TraceStore for TLC: chunk texts "good" and "bad", of which *)
(* only the first supports the claims, and a few chunk lists and citation  *)
(* sets to log.                                                            *)
(***************************************************************************)
EXTENDS TraceStore, TLC

MCSupport == [k \in Claims |-> [text \in Contents |->
                IF text = "good" THEN 650 ELSE 349]]

Item(id, content) == [id |-> id, content |-> content]
Cite(claim, id) == [claim |-> claim, source |-> id]

OneChunk == {<<>>, <<Item("c1", "good")>>}
TextChanges == {<<>>, <<Item("c1", "good")>>, <<Item("c1", "bad")>>}
ManyChunks == {<<>>, <<Item("c1", "good")>>,
               <<Item("c2", "good"), Item("c1", "good")>>,
               <<Item("c2", "good"), Item("c3", "good")>>}
NoCitation == {{}}
OneCitation == {{Cite("k", "c1")}}
TwoCitations == {{}, {Cite("k", "c1")}, {Cite("k", "c2")}}

ClientSymmetry == Permutations(Clients)
=============================================================================
