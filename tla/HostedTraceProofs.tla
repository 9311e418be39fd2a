--------------------------- MODULE HostedTraceProofs ---------------------------
(***************************************************************************)
(* Theorems about the requests on one hosted trace, for every number of    *)
(* requests, chunk lists, citation lists and sources.                      *)
(***************************************************************************)
EXTENDS HostedTrace, TLAPS, WellFoundedInduction

-----------------------------------------------------------------------------
(* The operators.                                                          *)

\* A set of places in a list has a last one.
LEMMA LastPlace ==
    ASSUME NEW n \in Nat, NEW places, places \subseteq 1..n, places # {}
    PROVE  \E i \in places : \A j \in places : j <= i
<1> DEFINE left == {k \in 0..n : n - k \in places}
<1>1. left \subseteq Nat /\ \A i \in places : n - i \in left
  <2>1. \A i \in places : n - i \in 0..n /\ n - (n - i) = i
    OBVIOUS
  <2> QED
    BY <2>1
<1>2. left # {}
  BY <1>1
<1>3. PICK m \in left : \A k \in left : <<k, m>> \notin OpToRel(<, Nat)
  <2> HIDE DEF left
  <2> QED
    BY <1>1, <1>2, WFMin, NatLessThanWellFounded, Zenon
<1>4. ASSUME NEW k \in left PROVE m <= k
  <2>1. ~(k < m)
    BY <1>1, <1>3, Zenon DEF OpToRel
  <2> QED
    BY <2>1
<1>5. n - m \in places
  OBVIOUS
<1>6. ASSUME NEW j \in places PROVE j <= n - m
  <2>1. n - j \in left
    BY <1>1
  <2>2. m <= n - j
    BY <1>4, <2>1
  <2> QED
    BY <2>2
<1> QED
  BY <1>5, <1>6

\* The text a list leaves a chunk with is one of the list's.
LEMMA LastContentType ==
    ASSUME NEW batch \in Seq(Item), NEW id \in IdsIn(batch)
    PROVE  LastContent(batch, id) \in Contents
<1> DEFINE places == {i \in DOMAIN batch : batch[i].id = id}
           IsLast(i) == batch[i].id = id /\ \A j \in DOMAIN batch : batch[j].id = id => j <= i
<1>1. \E i \in DOMAIN batch : IsLast(i)
  <2>1. Len(batch) \in Nat /\ places \subseteq 1..Len(batch) /\ places # {}
    BY DEF IdsIn
  <2>2. \E i \in places : \A j \in places : j <= i
    BY <2>1, LastPlace
  <2> QED
    BY <2>2
<1>2. (CHOOSE i \in DOMAIN batch : IsLast(i)) \in DOMAIN batch
  BY <1>1
<1>3. ASSUME NEW i \in DOMAIN batch PROVE batch[i].content \in Contents
  <2>1. batch[i] \in Item
    OBVIOUS
  <2> QED
    BY <2>1 DEF Item
<1> QED
  BY <1>2, <1>3 DEF LastContent

\* What a session of an id holds after a query for it.
LEMMA MappedType ==
    ASSUME TypeOK, NEW r \in Request, NEW ids
    PROVE  /\ Mapped(r, ids) \in [ChunkIds -> ChunkRow \cup {None}]
           /\ \A id \in ChunkIds :
                /\ r.found[id] \in {None, chunks[id]} => Mapped(r, ids)[id] \in {None, chunks[id]}
                /\ id \in ids /\ r.found[id] \in {None, chunks[id]} => Mapped(r, ids)[id] = chunks[id]
                /\ r.found[id] = chunks[id] => Mapped(r, ids)[id] = chunks[id]
<1>1. r.found \in [ChunkIds -> ChunkRow \cup {None}] /\ chunks \in [ChunkIds -> ChunkRow \cup {None}]
  BY DEF Request, TypeOK
<1> QED
  BY <1>1 DEF Mapped

\* A verdict is a row in the place of the check it judges.
LEMMA VerdictType ==
    ASSUME NEW r \in Request, NEW c \in Check, NEW d \in VerdictsFor(r, c)
    PROVE  /\ d \in Check /\ KeyOf(d) = KeyOf(c) /\ d.cites = c.cites
           /\ d.status \in Verdicts
           /\ d.basis = IF c.cites.source \in ChunkIds /\ r.found[c.cites.source] # None
                        THEN r.found[c.cites.source].content ELSE None
<1> DEFINE row == IF c.cites.source \in ChunkIds THEN r.found[c.cites.source] ELSE None
<1>1. row \in ChunkRow \cup {None}
  BY DEF Request
<1>2. CASE row = None
  <2>1. d = [c EXCEPT !.status = "not_enough_info", !.basis = None]
    BY <1>2 DEF VerdictsFor
  <2> QED
    BY <1>2, <2>1 DEF Check, KeyOf, Verdicts
<1>3. CASE row # None
  <2>1. PICK v \in Verdicts : d = [c EXCEPT !.status = v, !.basis = row.content]
    BY <1>3 DEF VerdictsFor
  <2>2. row.content \in Contents
    BY <1>1, <1>3 DEF ChunkRow
  <2> QED
    BY <1>3, <2>1, <2>2 DEF Check, KeyOf, Verdicts
<1> QED
  BY <1>2, <1>3

\* The verdicts depend on the chunks a session holds, and on nothing else of it.
LEMMA VerdictsOfFound ==
    ASSUME NEW r, NEW s, s.found = r.found, NEW c
    PROVE  VerdictsFor(s, c) = VerdictsFor(r, c)
BY DEF VerdictsFor

\* What a commit writes of a chunk is a row, or none as before.
LEMMA ChunkAfterType ==
    ASSUME TypeOK, NEW r \in Request, NEW id \in ChunkIds,
           r.found[id] # None => chunks[id] # None
    PROVE  ChunkAfter(r, id) \in ChunkRow \cup {None}
<1>1. /\ r.found[id] \in ChunkRow \cup {None} /\ chunks[id] \in ChunkRow \cup {None}
      /\ r.batch \in Seq(Item) /\ r.kind \in Kinds
  BY DEF Request, TypeOK
<1>2. id \in IdsIn(r.batch) => LastContent(r.batch, id) \in Contents
  BY <1>1, LastContentType
<1>3. /\ chunks[id] # None => chunks[id].content \in Contents /\ chunks[id].selected \in BOOLEAN
  BY <1>1 DEF ChunkRow
<1>4. CASE r.found[id] = None /\ id \notin IdsIn(r.batch)
  BY <1>1, <1>4 DEF ChunkAfter
<1>5. CASE r.found[id] = None /\ id \in IdsIn(r.batch)
  <2>1. ChunkAfter(r, id) = [content |-> LastContent(r.batch, id), selected |-> r.kind = "context"]
    BY <1>5 DEF ChunkAfter
  <2> QED
    BY <1>2, <1>5, <2>1 DEF ChunkRow
<1>6. CASE r.found[id] # None /\ (id \in IdsIn(r.batch) \/ id \in r.ids)
  <2>1. ChunkAfter(r, id) =
          [content |-> IF id \in IdsIn(r.batch) /\ LastContent(r.batch, id) # r.found[id].content
                       THEN LastContent(r.batch, id) ELSE chunks[id].content,
           selected |-> (r.kind = "context" /\ ~r.found[id].selected) \/ chunks[id].selected]
    BY <1>6 DEF ChunkAfter
  <2>2. ((r.kind = "context" /\ ~r.found[id].selected) \/ chunks[id].selected) \in BOOLEAN
    BY <1>3, <1>6
  <2> QED
    BY <1>2, <1>3, <1>6, <2>1, <2>2 DEF ChunkRow
<1>7. CASE r.found[id] # None /\ ~(id \in IdsIn(r.batch) \/ id \in r.ids)
  BY <1>1, <1>7 DEF ChunkAfter
<1> QED
  BY <1>4, <1>5, <1>6, <1>7
-----------------------------------------------------------------------------
(* Steps that only read.                                                   *)

\* A session after a read, if it keeps what the invariant asks of it.
LEMMA ReadStep ==
    ASSUME IndInv, NEW w \in Workers, request[w].pc \notin Ended,
           NEW pc, NEW read \in Request, Reads(w, pc, read),
           read.number = request[w].number, read.kind = request[w].kind,
           read.raced = request[w].raced, RequestInv(read)
    PROVE  IndInv'
<1>1. TypeOK /\ NumbersDiffer /\ CompanyIsTold
  BY DEF IndInv
<1>2. /\ request'[w] = read /\ \A v \in Workers \ {w} : request'[v] = request[v]
      /\ UNCHANGED <<tables, begun, company>>
  BY <1>1 DEF Reads, TypeOK
<1>3. TypeOK'
  BY <1>1 DEF Reads, TypeOK, tables
<1>4. /\ Active' \subseteq Active /\ Judging' \subseteq Judging
      /\ \A v \in Active' : /\ request'[v].number = request[v].number
                            /\ request'[v].raced = request[v].raced
  BY <1>2 DEF Active, Judging
<1>5. NumbersDiffer'
  BY <1>1, <1>2, <1>4 DEF NumbersDiffer, tables
<1>6. CompanyIsTold'
  BY <1>1, <1>2, <1>4 DEF CompanyIsTold
<1>7. (OneOfEach(checks) /\ VerdictHasReport /\ ReportAgreesIfOneJudge /\ FreshIfAlone)'
  BY <1>2 DEF IndInv, OneOfEach, VerdictHasReport, ReportAgreesIfOneJudge, FreshIfAlone, tables
<1>8. ASSUME NEW v \in Workers PROVE RequestInv(request[v])'
  <2>1. RequestInv(request'[v])
    BY <1>2 DEF IndInv
  <2> QED
    BY <1>2, <2>1
    DEF tables, RequestInv, FoundRowsStay, InOrder, AnswerIsThere, OneVerdictEach, StillCurrent,
        HasSeenVerdicts, FailedForCause
<1> QED
  BY <1>3, <1>5, <1>6, <1>7, <1>8 DEF IndInv

\* The chunk queries: what was found stays as it was, what is found now is current.
LEMMA QueryChunks ==
    ASSUME TypeOK, NEW r \in Request, RequestInv(r), NEW ids
    PROVE  /\ Mapped(r, ids) \in [ChunkIds -> ChunkRow \cup {None}]
           /\ \A id \in ChunkIds :
                /\ Mapped(r, ids)[id] # None => chunks[id] # None
                /\ r.pc \notin Ended /\ ~r.raced =>
                      /\ Mapped(r, ids)[id] \in {None, chunks[id]}
                      /\ id \in ids \/ r.found[id] = chunks[id] => Mapped(r, ids)[id] = chunks[id]
<1>1. FoundRowsStay(r) /\ StillCurrent(r)
  BY DEF RequestInv
<1>2. /\ r.found \in [ChunkIds -> ChunkRow \cup {None}]
      /\ chunks \in [ChunkIds -> ChunkRow \cup {None}]
  BY DEF Request, TypeOK
<1> QED
  BY <1>1, <1>2 DEF Mapped, FoundRowsStay, StillCurrent

\* log_context selects, and counts before it looks chunks up.
LEMMA SelectStep ==
    ASSUME IndInv, NEW w \in Workers, SelectChunks(w) \/ CountChunks(w)
    PROVE  IndInv'
<1> DEFINE r == request[w]
           selected == [r EXCEPT !.found = Mapped(r, r.ids), !.pc = "count"]
           counted == [r EXCEPT !.found = Mapped(r, ChunkIds), !.pc = "lookup"]
<1>1. r \in Request /\ RequestInv(r) /\ TypeOK
  BY DEF IndInv, TypeOK
<1>2. /\ Mapped(r, r.ids) \in [ChunkIds -> ChunkRow \cup {None}]
      /\ Mapped(r, ChunkIds) \in [ChunkIds -> ChunkRow \cup {None}]
  BY <1>1, QueryChunks
<1>3. r.batch \in Seq(Item) /\ \A i \in DOMAIN r.batch : r.batch[i].id \in ChunkIds
  <2>1. r.batch \in Seq(Item)
    BY <1>1 DEF Request
  <2>2. \A i \in DOMAIN r.batch : r.batch[i] \in Item
    BY <2>1
  <2> QED
    BY <2>1, <2>2 DEF Item
<1>4. CASE SelectChunks(w)
  <2>1. r.pc = "select" /\ Reads(w, "select", selected)
    BY <1>4 DEF SelectChunks, Reads
  <2>2. selected \in Request
    BY <1>1, <1>2 DEF Request, Ended
  <2>3. RequestInv(selected)
    <3>1. /\ selected.pc = "count" /\ selected.found = Mapped(r, r.ids) /\ selected.kind = r.kind
          /\ selected.batch = r.batch /\ selected.ids = r.ids /\ selected.status = r.status
          /\ selected.raced = r.raced /\ selected.next = r.next
          /\ r.kind = "context" /\ r.next = 1
      BY <1>1, <2>1 DEF Request, RequestInv, InOrder
    <3>2. FoundRowsStay(selected) /\ InOrder(selected) /\ AnswerIsThere(selected)
      BY <1>1, <3>1, QueryChunks DEF FoundRowsStay, InOrder, AnswerIsThere
    <3>3. OneVerdictEach(selected) /\ HasSeenVerdicts(selected) /\ FailedForCause(selected)
      BY <3>1 DEF OneVerdictEach, HasSeenVerdicts, FailedForCause
    <3>4. StillCurrent(selected)
      BY <1>1, <2>1, <3>1, QueryChunks DEF StillCurrent, RequestInv, Ended
    <3> QED
      BY <3>2, <3>3, <3>4 DEF RequestInv
  <2> QED
    BY <1>1, <2>1, <2>2, <2>3, ReadStep DEF Request, Ended
<1>5. CASE CountChunks(w) /\ r.batch # <<>>
  <2>1. r.pc = "count" /\ Reads(w, "count", counted)
    BY <1>5 DEF CountChunks, Reads
  <2>2. counted \in Request
    BY <1>1, <1>2 DEF Request, Ended
  <2>3. RequestInv(counted)
    <3>1. /\ counted.pc = "lookup" /\ counted.found = Mapped(r, ChunkIds) /\ counted.kind = r.kind
          /\ counted.batch = r.batch /\ counted.ids = r.ids /\ counted.status = r.status
          /\ counted.raced = r.raced /\ counted.next = r.next /\ r.kind = "context"
      BY <1>1, <2>1 DEF Request, RequestInv, InOrder
    <3>2. FoundRowsStay(counted) /\ AnswerIsThere(counted)
      BY <1>1, <3>1, QueryChunks DEF FoundRowsStay, AnswerIsThere
    <3>3. OneVerdictEach(counted) /\ HasSeenVerdicts(counted) /\ FailedForCause(counted)
      BY <3>1 DEF OneVerdictEach, HasSeenVerdicts, FailedForCause
    <3>4. InOrder(counted)
      <4>1. r.next = 1 /\ 1 \in DOMAIN r.batch
        BY <1>1, <1>3, <1>5, <2>1 DEF RequestInv, InOrder
      <4> QED
        BY <3>1, <4>1 DEF InOrder
    <3>5. StillCurrent(counted)
      BY <1>1, <1>3, <2>1, <3>1, QueryChunks DEF StillCurrent, RequestInv, Ended
    <3> QED
      BY <3>2, <3>3, <3>4, <3>5 DEF RequestInv
  <2> QED
    BY <1>1, <2>1, <2>2, <2>3, ReadStep DEF Request, Ended
<1>6. CASE CountChunks(w) /\ r.batch = <<>>
  <2> DEFINE named == [r EXCEPT !.pc = "commit"]
  <2>1. r.pc = "count" /\ Reads(w, "count", named)
    BY <1>6 DEF CountChunks, Reads
  <2>2. named \in Request
    BY <1>1 DEF Request, Ended
  <2>3. /\ named.pc = "commit" /\ named.found = r.found /\ named.kind = r.kind
        /\ named.batch = r.batch /\ named.ids = r.ids /\ named.status = r.status
        /\ named.raced = r.raced /\ r.kind = "context"
    BY <1>1, <2>1 DEF Request, RequestInv, InOrder
  <2>4. RequestInv(named)
    BY <1>1, <1>6, <2>1, <2>3
    DEF RequestInv, FoundRowsStay, InOrder, AnswerIsThere, OneVerdictEach, StillCurrent,
        HasSeenVerdicts, FailedForCause, Ended
  <2> QED
    BY <1>1, <2>1, <2>2, <2>4, ReadStep DEF Request, Ended
<1> QED
  BY <1>4, <1>5, <1>6

\* _upsert_chunk looks for the next chunk of the list.
LEMMA LookupStep ==
    ASSUME IndInv, NEW w \in Workers, LookupChunk(w)
    PROVE  IndInv'
<1> DEFINE r == request[w]
           id == r.batch[r.next].id
           after == IF r.next = Len(r.batch) THEN "commit" ELSE "lookup"
           read == [r EXCEPT !.found = Mapped(r, {id}), !.next = @ + 1, !.pc = after]
<1>1. r \in Request /\ RequestInv(r) /\ TypeOK
  BY DEF IndInv, TypeOK
<1>2. r.batch \in Seq(Item) /\ \A i \in DOMAIN r.batch : r.batch[i].id \in ChunkIds
  <2>1. r.batch \in Seq(Item)
    BY <1>1 DEF Request
  <2>2. \A i \in DOMAIN r.batch : r.batch[i] \in Item
    BY <2>1
  <2> QED
    BY <2>1, <2>2 DEF Item
<1>3. r.pc = "lookup" /\ Reads(w, "lookup", read)
  BY DEF LookupChunk, Reads
<1>4. /\ r.kind \in {"retrieval", "context"} /\ r.next \in DOMAIN r.batch
      /\ Len(r.batch) \in Nat /\ DOMAIN r.batch = 1..Len(r.batch) /\ id \in ChunkIds
  BY <1>1, <1>2, <1>3 DEF RequestInv, InOrder
<1>5. read \in Request
  <2>1. Mapped(r, {id}) \in [ChunkIds -> ChunkRow \cup {None}] /\ r.next + 1 \in Nat
    BY <1>1, <1>4, QueryChunks
  <2> QED
    BY <1>1, <2>1 DEF Request, Ended
<1>6. /\ read.pc = after /\ read.found = Mapped(r, {id}) /\ read.kind = r.kind
      /\ read.batch = r.batch /\ read.ids = r.ids /\ read.status = r.status
      /\ read.raced = r.raced /\ read.next = r.next + 1
  BY <1>1 DEF Request
<1>7. FoundRowsStay(read) /\ AnswerIsThere(read)
  BY <1>1, <1>4, <1>6, QueryChunks DEF FoundRowsStay, AnswerIsThere
<1>8. OneVerdictEach(read) /\ HasSeenVerdicts(read) /\ FailedForCause(read) /\ InOrder(read)
  BY <1>4, <1>6 DEF OneVerdictEach, HasSeenVerdicts, FailedForCause, InOrder
<1>9. StillCurrent(read)
  <2> SUFFICES ASSUME ~r.raced PROVE StillCurrent(read)
    BY <1>6 DEF StillCurrent
  <2>1. /\ r.status = status
        /\ \A i \in DOMAIN r.batch : i < r.next => r.found[r.batch[i].id] = chunks[r.batch[i].id]
    BY <1>1, <1>3 DEF StillCurrent, RequestInv, Ended
  <2>2. \A x \in ChunkIds : /\ Mapped(r, {id})[x] \in {None, chunks[x]}
                            /\ x = id \/ r.found[x] = chunks[x] => Mapped(r, {id})[x] = chunks[x]
    BY <1>1, <1>3, QueryChunks DEF Ended
  <2>3. ASSUME NEW i \in DOMAIN r.batch, i < r.next + 1 \/ r.next = Len(r.batch)
        PROVE  Mapped(r, {id})[r.batch[i].id] = chunks[r.batch[i].id]
    <3>1. i = r.next \/ i < r.next
      BY <1>4, <2>3
    <3> QED
      BY <1>2, <2>1, <2>2, <3>1
  <2>4. /\ read.pc \in {"lookup", "commit"} /\ read.kind \in {"retrieval", "context"}
        /\ read.pc = "commit" => r.next = Len(r.batch)
    BY <1>4, <1>6
  <2> HIDE DEF read
  <2> QED
    BY <1>6, <2>1, <2>2, <2>3, <2>4 DEF StillCurrent
<1>10. RequestInv(read)
  BY <1>7, <1>8, <1>9 DEF RequestInv
<1> QED
  BY <1>1, <1>3, <1>5, <1>10, ReadStep DEF Request, Ended

\* trace.answer: an evaluation goes on only with an answer.
LEMMA AnswerStep ==
    ASSUME IndInv, NEW w \in Workers, LoadAnswer(w)
    PROVE  IndInv'
<1> DEFINE r == request[w]
           after == CASE r.kind = "answer" -> "commit"
                      [] r.kind = "evaluate" /\ answer -> "load_chunks"
                      [] r.kind = "evaluate" /\ ~answer -> "failed"
           read == [r EXCEPT !.answered = answer, !.pc = after]
<1>1. r \in Request /\ RequestInv(r) /\ TypeOK
  BY DEF IndInv, TypeOK
<1>2. r.pc = "load_answer" /\ Reads(w, "load_answer", read)
  BY DEF LoadAnswer, Reads
<1>3. r.kind \in {"answer", "evaluate"} /\ answer \in BOOLEAN /\ r.batch = <<>> /\ r.ids = {}
  BY <1>1, <1>2 DEF RequestInv, InOrder, TypeOK
<1>4. /\ r.kind = "answer" => after = "commit"
      /\ r.kind = "evaluate" => after = IF answer THEN "load_chunks" ELSE "failed"
  BY <1>3
<1> HIDE DEF after
<1>5. read \in Request
  BY <1>1, <1>3, <1>4 DEF Request, Ended
<1>6. /\ read.pc = after /\ read.found = r.found /\ read.kind = r.kind /\ read.answered = answer
      /\ read.batch = r.batch /\ read.ids = r.ids /\ read.status = r.status
      /\ read.raced = r.raced
  BY <1>1 DEF Request
<1>7. RequestInv(read)
  <2>1. FoundRowsStay(read) /\ AnswerIsThere(read) /\ InOrder(read)
    BY <1>1, <1>3, <1>4, <1>6 DEF RequestInv, FoundRowsStay, AnswerIsThere, InOrder
  <2>2. OneVerdictEach(read) /\ HasSeenVerdicts(read) /\ FailedForCause(read)
    BY <1>3, <1>4, <1>6 DEF OneVerdictEach, HasSeenVerdicts, FailedForCause
  <2>3. StillCurrent(read)
    BY <1>1, <1>2, <1>3, <1>4, <1>6 DEF RequestInv, StillCurrent, Ended
  <2> QED
    BY <2>1, <2>2, <2>3 DEF RequestInv
<1> QED
  BY <1>1, <1>2, <1>5, <1>7, ReadStep DEF Request, Ended

\* log_citations deletes what it sees.
LEMMA DeleteStep ==
    ASSUME IndInv, NEW w \in Workers, DeleteChecks(w)
    PROVE  IndInv'
<1> DEFINE r == request[w]
           read == [r EXCEPT !.old = {KeyOf(c) : c \in checks}, !.pc = "commit"]
<1>1. r \in Request /\ RequestInv(r) /\ TypeOK
  BY DEF IndInv, TypeOK
<1>2. r.pc = "delete" /\ Reads(w, "delete", read)
  BY DEF DeleteChecks, Reads
<1>3. {KeyOf(c) : c \in checks} \in SUBSET (Nat \X Cited)
  <2>1. \A c \in checks : c.request \in Nat /\ c.cites \in Cited
    BY <1>1, RequestsAssumption DEF TypeOK, Check
  <2> QED
    BY <2>1 DEF KeyOf
<1>4. read \in Request
  BY <1>1, <1>3 DEF Request, Ended
<1>5. /\ read.pc = "commit" /\ read.found = r.found /\ read.kind = r.kind
      /\ read.batch = r.batch /\ read.ids = r.ids /\ read.status = r.status
      /\ read.raced = r.raced
  BY <1>1 DEF Request
<1>6. r.kind = "citations" /\ r.batch = <<>> /\ r.ids = {}
  BY <1>1, <1>2 DEF RequestInv, InOrder
<1>7. RequestInv(read)
  <2>1. FoundRowsStay(read) /\ AnswerIsThere(read) /\ InOrder(read)
    BY <1>1, <1>5, <1>6 DEF RequestInv, FoundRowsStay, AnswerIsThere, InOrder
  <2>2. OneVerdictEach(read) /\ HasSeenVerdicts(read) /\ FailedForCause(read)
    BY <1>5, <1>6 DEF OneVerdictEach, HasSeenVerdicts, FailedForCause
  <2>3. StillCurrent(read)
    BY <1>1, <1>2, <1>5, <1>6 DEF RequestInv, StillCurrent, Ended
  <2> QED
    BY <2>1, <2>2, <2>3 DEF RequestInv
<1> QED
  BY <1>1, <1>2, <1>4, <1>7, ReadStep DEF Request, Ended

\* An evaluation reads the chunks and the checks.
LEMMA LoadStep ==
    ASSUME IndInv, NEW w \in Workers, LoadChunks(w) \/ LoadChecks(w)
    PROVE  IndInv'
<1> DEFINE r == request[w]
           withChunks == [r EXCEPT !.found = chunks, !.pc = "load_checks"]
           withChecks == [r EXCEPT !.loaded = checks, !.pc = "judge"]
<1>1. r \in Request /\ RequestInv(r) /\ TypeOK /\ OneOfEach(checks)
  BY DEF IndInv, TypeOK
<1>2. CASE LoadChunks(w)
  <2>1. r.pc = "load_chunks" /\ Reads(w, "load_chunks", withChunks)
    BY <1>2 DEF LoadChunks, Reads
  <2>2. withChunks \in Request
    BY <1>1 DEF Request, TypeOK, Ended
  <2>3. /\ withChunks.pc = "load_checks" /\ withChunks.found = chunks /\ withChunks.kind = r.kind
        /\ withChunks.batch = r.batch /\ withChunks.ids = r.ids /\ withChunks.status = r.status
        /\ withChunks.raced = r.raced
    BY <1>1 DEF Request
  <2>4. r.kind = "evaluate" /\ r.batch = <<>> /\ r.ids = {}
    BY <1>1, <2>1 DEF RequestInv, InOrder
  <2> HIDE DEF withChunks
  <2>5. FoundRowsStay(withChunks) /\ AnswerIsThere(withChunks) /\ InOrder(withChunks)
    BY <1>1, <2>1, <2>3, <2>4 DEF RequestInv, FoundRowsStay, AnswerIsThere, InOrder
  <2>6. OneVerdictEach(withChunks) /\ HasSeenVerdicts(withChunks) /\ FailedForCause(withChunks)
    BY <2>3 DEF OneVerdictEach, HasSeenVerdicts, FailedForCause
  <2>7. StillCurrent(withChunks)
    BY <1>1, <2>1, <2>3, <2>4 DEF RequestInv, StillCurrent, Ended
  <2>8. RequestInv(withChunks)
    BY <2>5, <2>6, <2>7 DEF RequestInv
  <2>9. withChunks.number = r.number
    BY <1>1 DEF Request, withChunks
  <2> QED
    BY <1>1, <2>1, <2>2, <2>3, <2>8, <2>9, ReadStep DEF Ended
<1>3. CASE LoadChecks(w)
  <2>1. r.pc = "load_checks" /\ Reads(w, "load_checks", withChecks)
    BY <1>3 DEF LoadChecks, Reads
  <2>2. withChecks \in Request
    BY <1>1 DEF Request, TypeOK, Ended
  <2>3. /\ withChecks.pc = "judge" /\ withChecks.found = r.found /\ withChecks.kind = r.kind
        /\ withChecks.batch = r.batch /\ withChecks.ids = r.ids /\ withChecks.status = r.status
        /\ withChecks.raced = r.raced /\ withChecks.loaded = checks
    BY <1>1 DEF Request
  <2>4. r.kind = "evaluate" /\ r.batch = <<>> /\ r.ids = {}
    BY <1>1, <2>1 DEF RequestInv, InOrder
  <2> HIDE DEF withChecks
  <2>5. FoundRowsStay(withChecks) /\ AnswerIsThere(withChecks) /\ InOrder(withChecks)
    BY <1>1, <2>1, <2>3, <2>4 DEF RequestInv, FoundRowsStay, AnswerIsThere, InOrder
  <2>6. OneVerdictEach(withChecks) /\ HasSeenVerdicts(withChecks) /\ FailedForCause(withChecks)
    BY <1>1, <2>3 DEF OneVerdictEach, HasSeenVerdicts, FailedForCause
  <2>7. StillCurrent(withChecks)
    BY <1>1, <2>1, <2>3, <2>4 DEF RequestInv, StillCurrent, Ended
  <2>8. RequestInv(withChecks)
    BY <2>5, <2>6, <2>7 DEF RequestInv
  <2>9. withChecks.number = r.number
    BY <1>1 DEF Request, withChecks
  <2> QED
    BY <1>1, <2>1, <2>2, <2>3, <2>8, <2>9, ReadStep DEF Ended
<1> QED
  BY <1>2, <1>3

\* The judge gives one verdict for each check that was loaded.
LEMMA JudgeStep ==
    ASSUME IndInv, NEW w \in Workers, Judge(w)
    PROVE  IndInv'
<1> DEFINE r == request[w]
<1>1. r \in Request /\ RequestInv(r) /\ TypeOK /\ r.loaded \subseteq Check
  <2>1. r \in Request /\ RequestInv(r) /\ TypeOK
    BY DEF IndInv, TypeOK
  <2> QED
    BY <2>1 DEF Request
<1>2. PICK said \in [r.loaded -> UNION {VerdictsFor(r, c) : c \in r.loaded}] :
        /\ \A c \in r.loaded : said[c] \in VerdictsFor(r, c)
        /\ Reads(w, "judge", [r EXCEPT !.judged = {said[c] : c \in r.loaded}, !.pc = "load_report"])
  BY DEF Judge
<1> DEFINE judged == {said[c] : c \in r.loaded}
           read == [r EXCEPT !.judged = judged, !.pc = "load_report"]
<1>3. r.pc = "judge" /\ r.kind = "evaluate" /\ r.batch = <<>> /\ r.ids = {}
  BY <1>1, <1>2 DEF Reads, RequestInv, InOrder
<1>4. \A c \in r.loaded : said[c] \in Check /\ KeyOf(said[c]) = KeyOf(c)
  BY <1>1, <1>2, VerdictType
<1>5. judged \subseteq Check
  BY <1>4
<1>6. OneOfEach(r.loaded)
  BY <1>1, <1>3 DEF RequestInv, OneVerdictEach
<1>7. OneOfEach(judged)
  <2> SUFFICES ASSUME NEW c \in r.loaded, NEW d \in r.loaded, KeyOf(said[c]) = KeyOf(said[d])
               PROVE  said[c] = said[d]
    BY DEF OneOfEach
  <2>1. KeyOf(c) = KeyOf(d)
    BY <1>4
  <2> QED
    BY <1>6, <2>1 DEF OneOfEach
<1>8. read \in Request
  BY <1>1, <1>5 DEF Request, Ended
<1>9. /\ read.pc = "load_report" /\ read.found = r.found /\ read.kind = r.kind
      /\ read.batch = r.batch /\ read.ids = r.ids /\ read.status = r.status
      /\ read.raced = r.raced /\ read.loaded = r.loaded /\ read.judged = judged
      /\ read.number = r.number
  BY <1>1 DEF Request
<1> HIDE DEF read
<1>10. FoundRowsStay(read) /\ AnswerIsThere(read) /\ InOrder(read)
  BY <1>1, <1>3, <1>9 DEF RequestInv, FoundRowsStay, AnswerIsThere, InOrder
<1>11. HasSeenVerdicts(read) /\ FailedForCause(read)
  BY <1>1, <1>3, <1>9 DEF RequestInv, HasSeenVerdicts, FailedForCause
<1>12. StillCurrent(read)
  BY <1>1, <1>3, <1>9 DEF RequestInv, StillCurrent, Ended
<1>13. OneVerdictEach(read)
  <2>1. \A c : VerdictsFor(read, c) = VerdictsFor(r, c)
    BY <1>9, VerdictsOfFound
  <2>2. \A d \in judged : \E c \in r.loaded : d \in VerdictsFor(read, c)
    BY <1>2, <2>1
  <2>3. \A c \in r.loaded : \E d \in judged : KeyOf(d) = KeyOf(c)
    BY <1>4
  <2> QED
    BY <1>6, <1>7, <1>9, <2>2, <2>3 DEF OneVerdictEach
<1>14. RequestInv(read)
  BY <1>10, <1>11, <1>12, <1>13 DEF RequestInv
<1>15. Reads(w, "judge", read)
  BY <1>2 DEF read
<1> QED
  BY <1>3, <1>8, <1>9, <1>14, <1>15, ReadStep DEF Ended

\* db.scalar of the failure report.
LEMMA ReportStep ==
    ASSUME IndInv, NEW w \in Workers, LoadReport(w)
    PROVE  IndInv'
<1> DEFINE r == request[w]
           read == [r EXCEPT !.reported = (report # None), !.pc = "commit"]
<1>1. r \in Request /\ RequestInv(r) /\ TypeOK
  BY DEF IndInv, TypeOK
<1>2. r.pc = "load_report" /\ Reads(w, "load_report", read)
  BY DEF LoadReport, Reads
<1>3. read \in Request
  BY <1>1 DEF Request, Ended
<1>4. /\ read.pc = "commit" /\ read.found = r.found /\ read.kind = r.kind
      /\ read.batch = r.batch /\ read.ids = r.ids /\ read.status = r.status
      /\ read.raced = r.raced /\ read.loaded = r.loaded /\ read.judged = r.judged
      /\ read.number = r.number
  BY <1>1 DEF Request
<1>5. read.reported = (report # None)
  BY <1>1 DEF Request
<1>6. r.kind = "evaluate" /\ r.batch = <<>> /\ r.ids = {}
  BY <1>1, <1>2 DEF RequestInv, InOrder
<1> HIDE DEF read
<1>7. FoundRowsStay(read) /\ AnswerIsThere(read) /\ InOrder(read)
  BY <1>1, <1>2, <1>4, <1>6 DEF RequestInv, FoundRowsStay, AnswerIsThere, InOrder
<1>8. HasSeenVerdicts(read) /\ FailedForCause(read)
  BY <1>1, <1>2, <1>4, <1>6 DEF RequestInv, HasSeenVerdicts, FailedForCause
<1>9. StillCurrent(read)
  BY <1>1, <1>2, <1>4, <1>5, <1>6 DEF RequestInv, StillCurrent, Ended
<1>10. OneVerdictEach(read)
  <2>1. \A c : VerdictsFor(read, c) = VerdictsFor(r, c)
    BY <1>4, VerdictsOfFound
  <2> QED
    BY <1>1, <1>2, <1>4, <1>6, <2>1 DEF RequestInv, OneVerdictEach
<1>11. RequestInv(read)
  BY <1>7, <1>8, <1>9, <1>10 DEF RequestInv
<1> QED
  BY <1>2, <1>3, <1>4, <1>11, ReadStep DEF Ended

-----------------------------------------------------------------------------
(* A request begins.                                                       *)

\* company only ever grows.
LEMMA CompanyGrows ==
    ASSUME TypeOK, NEW kind
    PROVE  /\ CompanyWith(kind) \in {"alone", "others", "judges"}
           /\ CompanyWith(kind) = "alone" => company = "alone" /\ Active = {}
           /\ CompanyWith(kind) # "judges" =>
                /\ company # "judges"
                /\ kind = "evaluate" => Judging = {}
BY DEF CompanyWith, TypeOK

\* The session of a request that begins has read the row of its trace, no more.
LEMMA BeginStep ==
    ASSUME IndInv, NEW w \in Workers, NEW opened \in Request, Begin(w, opened),
           opened.pc \in {"select", "lookup", "load_answer", "delete", "commit"},
           opened.raced = FALSE, opened.found = NoRow, opened.next = 1, InOrder(opened),
           opened.kind = "evaluate" => opened.pc = "load_answer",
           opened.pc = "commit" => opened.batch = <<>> /\ opened.kind # "answer"
    PROVE  IndInv'
<1> DEFINE new == [opened EXCEPT !.number = begun + 1, !.status = status]
<1>1. TypeOK /\ NumbersDiffer /\ CompanyIsTold
  BY DEF IndInv
<1>2. begun \in Nat /\ begun + 1 \in 0..MaxRequests /\ status \in Statuses
  BY <1>1, RequestsAssumption DEF Begin, TypeOK
<1>3. new \in Request
  <2>1. begun + 1 \in Nat
    BY <1>2
  <2> QED
    BY <1>2, <2>1 DEF Request
<1>4. /\ new.number = begun + 1 /\ new.status = status /\ new.pc = opened.pc
      /\ new.kind = opened.kind /\ new.raced = FALSE /\ new.found = NoRow
      /\ new.batch = opened.batch /\ new.ids = opened.ids /\ new.next = 1
  BY DEF Request
<1>5. /\ request' = [request EXCEPT ![w] = new]
      /\ UNCHANGED tables /\ begun' = begun + 1 /\ company' = CompanyWith(opened.kind)
      /\ request[w].pc \in Ended
  BY DEF Begin
<1> HIDE DEF new
<1>6. request'[w] = new /\ \A v \in Workers \ {w} : request'[v] = request[v]
  BY <1>1, <1>5 DEF TypeOK
<1>7. TypeOK'
  <2>1. company' \in {"alone", "others", "judges"}
    BY <1>1, <1>5, CompanyGrows
  <2> QED
    BY <1>1, <1>2, <1>3, <1>5, <2>1 DEF TypeOK, tables
<1>8. /\ Active' = Active \cup {w} /\ w \notin Active
      /\ opened.kind = "evaluate" => Judging' = Judging \cup {w}
      /\ opened.kind # "evaluate" => Judging' = Judging
  <2>1. opened.pc \notin Ended
    BY DEF Ended
  <2>2. Active' = Active \cup {w} /\ w \notin Active
    BY <1>4, <1>5, <1>6, <2>1 DEF Active
  <2>3. /\ request'[w].kind = opened.kind
        /\ \A v \in Active : v # w /\ request'[v].kind = request[v].kind
    BY <1>4, <1>6, <2>2 DEF Active
  <2>4. Judging' = {v \in Active' : request'[v].kind = "evaluate"}
    BY DEF Judging
  <2> QED
    BY <2>2, <2>3, <2>4 DEF Judging
<1>9. NumbersDiffer'
  <2>1. checks' = checks /\ \A c \in checks : c.request \in Nat
    BY <1>1, <1>5, RequestsAssumption DEF tables, TypeOK, Check
  <2>2. \A v \in Active : request'[v] = request[v] /\ request[v].number \in 1..begun
    BY <1>1, <1>6, <1>8 DEF NumbersDiffer, Active
  <2>3. \A v \in Active' : request'[v].number \in 1..begun'
    BY <1>2, <1>4, <1>5, <1>6, <1>8, <2>2
  <2>4. \A u, v \in Active' : request'[u].number = request'[v].number => u = v
    BY <1>1, <1>2, <1>4, <1>6, <1>8, <2>2 DEF NumbersDiffer
  <2>5. \A c \in checks' : c.request <= begun' /\ \A v \in Active' : c.request # request'[v].number
    BY <1>1, <1>2, <1>4, <1>5, <1>6, <1>8, <2>1, <2>2 DEF NumbersDiffer
  <2> QED
    BY <2>3, <2>4, <2>5 DEF NumbersDiffer
<1>10. CompanyIsTold'
  <2>1. company' = "alone" => (\A u, v \in Active' : u = v) /\ \A v \in Active' : ~request'[v].raced
    BY <1>1, <1>4, <1>5, <1>6, <1>8, CompanyGrows
  <2>2. company' # "judges" => \A u, v \in Judging' : u = v
    BY <1>1, <1>5, <1>8, CompanyGrows DEF CompanyIsTold
  <2> QED
    BY <2>1, <2>2 DEF CompanyIsTold
<1>11. (OneOfEach(checks) /\ VerdictHasReport /\ ReportAgreesIfOneJudge /\ FreshIfAlone)'
  <2>1. /\ company' = "alone" => company = "alone"
        /\ company' # "judges" => company # "judges"
    BY <1>1, <1>5, CompanyGrows
  <2> QED
    BY <1>5, <2>1
    DEF IndInv, OneOfEach, VerdictHasReport, ReportAgreesIfOneJudge, FreshIfAlone, tables
<1>12. RequestInv(request[w])'
  <2>1. FoundRowsStay(new) /\ InOrder(new) /\ AnswerIsThere(new)
    BY <1>4 DEF FoundRowsStay, NoRow, InOrder, AnswerIsThere
  <2>2. OneVerdictEach(new) /\ HasSeenVerdicts(new) /\ FailedForCause(new)
    BY <1>4 DEF OneVerdictEach, HasSeenVerdicts, FailedForCause
  <2>3. StillCurrent(new)
    <3>1. \A id \in ChunkIds : new.found[id] = None
      BY <1>4 DEF NoRow
    <3>2. ASSUME NEW i \in DOMAIN new.batch,
                 new.pc = "commit" \/ (new.pc = "lookup" /\ i < new.next)
          PROVE  FALSE
      <4>1. new.batch \in Seq(Item)
        BY <1>3 DEF Request
      <4> QED
        BY <1>4, <3>2, <4>1
    <3> QED
      BY <1>4, <3>1, <3>2 DEF StillCurrent
  <2>4. company' # "judges" => company # "judges"
    BY <1>1, <1>5, CompanyGrows
  <2> QED
    BY <1>5, <1>6, <2>1, <2>2, <2>3, <2>4
    DEF tables, RequestInv, FoundRowsStay, InOrder, AnswerIsThere, OneVerdictEach, StillCurrent,
        HasSeenVerdicts, FailedForCause
<1>13. ASSUME NEW v \in Workers \ {w} PROVE RequestInv(request[v])'
  <2>1. RequestInv(request[v]) /\ request'[v] = request[v]
    BY <1>6 DEF IndInv
  <2>2. company' # "judges" => company # "judges"
    BY <1>1, <1>5, CompanyGrows
  <2> QED
    BY <1>5, <2>1, <2>2
    DEF tables, RequestInv, FoundRowsStay, InOrder, AnswerIsThere, OneVerdictEach, StillCurrent,
        HasSeenVerdicts, FailedForCause
<1> QED
  BY <1>7, <1>9, <1>10, <1>11, <1>12, <1>13 DEF IndInv

\* The bodies requests can carry open sessions of that kind.
LEMMA BeginsStep ==
    ASSUME IndInv, NEW w \in Workers,
           \/ BeginRetrieval(w) \/ BeginContext(w) \/ BeginAnswer(w) \/ BeginCitations(w)
           \/ BeginEvent(w) \/ BeginEvaluate(w)
    PROVE  IndInv'
<1>1. Fresh \in Request
  BY DEF Fresh, Request, NoRow, Ended, Kinds, Statuses
<1>2. /\ <<>> \in Seq(Item)
      /\ \A batch \in Batches : batch \in Seq(Item) /\ batch # <<>> /\ 1 \in DOMAIN batch
  BY RequestsAssumption
<1>3. CASE BeginRetrieval(w)
  <2>1. PICK batch \in Batches \cup {<<>>} :
          Begin(w, [Fresh EXCEPT !.pc = IF batch = <<>> THEN "commit" ELSE "lookup",
                                 !.kind = "retrieval", !.batch = batch])
    BY <1>3 DEF BeginRetrieval
  <2> DEFINE opened == [Fresh EXCEPT !.pc = IF batch = <<>> THEN "commit" ELSE "lookup",
                                     !.kind = "retrieval", !.batch = batch]
  <2>2. opened \in Request
    BY <1>1, <1>2 DEF Request, Ended, Kinds
  <2>3. /\ opened.pc = IF batch = <<>> THEN "commit" ELSE "lookup"
        /\ opened.kind = "retrieval" /\ opened.batch = batch /\ opened.ids = {}
        /\ opened.raced = FALSE /\ opened.found = NoRow /\ opened.next = 1
    BY DEF Fresh
  <2> HIDE DEF opened
  <2>4. InOrder(opened)
    BY <1>2, <2>3 DEF InOrder
  <2>5. Begin(w, opened)
    BY <2>1 DEF opened
  <2> QED
    BY <2>2, <2>3, <2>4, <2>5, BeginStep
<1>4. CASE BeginContext(w)
  <2>1. PICK batch \in Batches \cup {<<>>}, ids \in SUBSET ChunkIds :
          Begin(w, [Fresh EXCEPT !.pc = "select", !.kind = "context", !.batch = batch, !.ids = ids])
    BY <1>4 DEF BeginContext
  <2> DEFINE opened == [Fresh EXCEPT !.pc = "select", !.kind = "context", !.batch = batch, !.ids = ids]
  <2>2. opened \in Request
    BY <1>1, <1>2 DEF Request, Ended, Kinds
  <2>3. /\ opened.pc = "select" /\ opened.kind = "context"
        /\ opened.raced = FALSE /\ opened.found = NoRow /\ opened.next = 1
    BY DEF Fresh
  <2> HIDE DEF opened
  <2>4. InOrder(opened)
    BY <2>3 DEF InOrder
  <2>5. Begin(w, opened)
    BY <2>1 DEF opened
  <2> QED
    BY <2>2, <2>3, <2>4, <2>5, BeginStep
<1>5. CASE BeginCitations(w)
  <2>1. PICK list \in CitationLists :
          Begin(w, [Fresh EXCEPT !.pc = "delete", !.kind = "citations", !.cited = list])
    BY <1>5 DEF BeginCitations
  <2> DEFINE opened == [Fresh EXCEPT !.pc = "delete", !.kind = "citations", !.cited = list]
  <2>2. opened \in Request
    <3>1. list \subseteq Cited
      BY RequestsAssumption DEF Cited
    <3> QED
      BY <1>1, <3>1 DEF Request, Ended, Kinds
  <2>3. /\ opened.pc = "delete" /\ opened.kind = "citations" /\ opened.batch = <<>>
        /\ opened.ids = {} /\ opened.raced = FALSE /\ opened.found = NoRow /\ opened.next = 1
    BY DEF Fresh
  <2> HIDE DEF opened
  <2>4. InOrder(opened)
    BY <2>3 DEF InOrder
  <2>5. Begin(w, opened)
    BY <2>1 DEF opened
  <2> QED
    BY <2>2, <2>3, <2>4, <2>5, BeginStep
<1>6. ASSUME NEW pc \in {"load_answer", "commit"}, NEW kind \in {"answer", "event", "evaluate"},
             pc = "commit" <=> kind = "event",
             Begin(w, [Fresh EXCEPT !.pc = pc, !.kind = kind])
      PROVE  IndInv'
  <2> DEFINE opened == [Fresh EXCEPT !.pc = pc, !.kind = kind]
  <2>2. opened \in Request
    BY <1>1 DEF Request, Ended, Kinds
  <2>3. /\ opened.pc = pc /\ opened.kind = kind /\ opened.batch = <<>>
        /\ opened.ids = {} /\ opened.raced = FALSE /\ opened.found = NoRow /\ opened.next = 1
    BY DEF Fresh
  <2> HIDE DEF opened
  <2>4. InOrder(opened)
    BY <1>6, <2>3 DEF InOrder
  <2>5. Begin(w, opened)
    BY <1>6 DEF opened
  <2> QED
    BY <1>6, <2>2, <2>3, <2>4, <2>5, BeginStep
<1>7. CASE BeginAnswer(w)
  BY <1>6, <1>7 DEF BeginAnswer
<1>8. CASE BeginEvent(w)
  BY <1>6, <1>8 DEF BeginEvent
<1>9. CASE BeginEvaluate(w)
  BY <1>6, <1>9 DEF BeginEvaluate
<1> QED
  BY <1>3, <1>4, <1>5, <1>7, <1>8, <1>9

-----------------------------------------------------------------------------
(* A request ends.                                                         *)

\* The end of one request: the others go on, aware that they were raced if it wrote.
LEMMA FinishStep ==
    ASSUME TypeOK, NEW w \in Workers, request[w].pc = "commit", Finish(w, "done")
    PROVE  /\ request' \in [Workers -> Request]
           /\ request'[w] = [request[w] EXCEPT !.pc = "done"]
           /\ \A v \in Workers \ {w} :
                request'[v] = IF request[v].pc \in Ended THEN request[v]
                              ELSE [request[v] EXCEPT !.raced = TRUE]
           /\ w \in Active /\ Active' = Active \ {w} /\ Judging' \subseteq Judging \ {w}
           /\ \A v \in Active' : request'[v].number = request[v].number
<1>1. \A v \in Workers : request[v] \in Request
  BY DEF TypeOK
<1>2. request'[w] = [request[w] EXCEPT !.pc = "done"]
  BY DEF Finish
<1>3. \A v \in Workers \ {w} :
        request'[v] = IF request[v].pc \in Ended THEN request[v]
                      ELSE [request[v] EXCEPT !.raced = TRUE]
  BY DEF Finish, Active
<1>4. ASSUME NEW v \in Workers \ {w}
      PROVE  /\ request'[v] \in Request /\ request'[v].pc = request[v].pc
             /\ request'[v].kind = request[v].kind /\ request'[v].number = request[v].number
  <2>1. \A r \in Request : LET s == [r EXCEPT !.raced = TRUE]
                          IN /\ s \in Request /\ s.pc = r.pc /\ s.kind = r.kind
                             /\ s.number = r.number
    BY DEF Request
  <2> QED
    BY <1>1, <1>3, <2>1
<1>5. request'[w] \in Request /\ request'[w].pc = "done"
  BY <1>1, <1>2 DEF Request, Ended
<1>6. request' \in [Workers -> Request]
  <2>1. \A v \in Workers : request'[v] \in Request
    BY <1>4, <1>5
  <2> QED
    BY <2>1 DEF Finish
<1>7. Active' = Active \ {w} /\ w \in Active /\ Judging' \subseteq Judging \ {w}
  <2>1. Active' = Active \ {w} /\ w \in Active
    BY <1>4, <1>5 DEF Active, Ended
  <2> QED
    BY <1>4, <2>1 DEF Judging, Active
<1> QED
  BY <1>2, <1>3, <1>4, <1>6, <1>7 DEF Active

\* What the others rely on stands after a commit that takes back no answer, no
\* chunk, and gives no verdict beside the only evaluation there is.
LEMMA OthersStand ==
    ASSUME IndInv, NEW v \in Workers,
           request'[v] = IF request[v].pc \in Ended THEN request[v]
                         ELSE [request[v] EXCEPT !.raced = TRUE],
           answer => answer', company' = company,
           \A id \in ChunkIds : chunks[id] # None => chunks'[id] # None,
           company # "judges" /\ v \in Judging =>
              \A c \in checks' : c.status # "pending" => c \in checks
    PROVE  RequestInv(request[v])'
<1>1. request[v] \in Request /\ RequestInv(request[v])
  BY DEF IndInv, TypeOK
<1>2. CASE request[v].pc \in Ended
  <2>1. request'[v] = request[v] /\ request[v].pc \in {"idle", "done", "failed"}
    BY <1>2 DEF Ended
  <2> QED
    BY <1>1, <2>1
    DEF RequestInv, FoundRowsStay, InOrder, AnswerIsThere, OneVerdictEach, StillCurrent,
        HasSeenVerdicts, FailedForCause, Ended
<1>3. CASE request[v].pc \notin Ended
  <2> DEFINE r == request[v]  s == [r EXCEPT !.raced = TRUE]
  <2>1. request'[v] = s /\ v \in Active
    BY <1>3 DEF Active
  <2>2. /\ s.pc = r.pc /\ s.kind = r.kind /\ s.batch = r.batch /\ s.ids = r.ids
        /\ s.found = r.found /\ s.next = r.next /\ s.loaded = r.loaded /\ s.judged = r.judged
        /\ s.raced = TRUE
    BY <1>1 DEF Request
  <2>3. r.kind = "evaluate" => v \in Judging
    BY <2>1 DEF Judging
  <2> HIDE DEF s
  <2>4. \A c : VerdictsFor(s, c) = VerdictsFor(r, c)
    BY <2>2, VerdictsOfFound
  <2>5. FoundRowsStay(request[v])' /\ InOrder(request[v])' /\ AnswerIsThere(request[v])'
    BY <1>1, <2>1, <2>2 DEF RequestInv, FoundRowsStay, InOrder, AnswerIsThere
  <2>6. OneVerdictEach(request[v])'
    <3>1. OneVerdictEach(s)
      BY <1>1, <2>2, <2>4 DEF RequestInv, OneVerdictEach
    <3> QED
      BY <2>1, <3>1
  <2>7. StillCurrent(request[v])' /\ FailedForCause(request[v])'
    BY <2>1, <2>2 DEF StillCurrent, FailedForCause
  <2>8. HasSeenVerdicts(request[v])'
    BY <1>1, <2>1, <2>2, <2>3 DEF RequestInv, HasSeenVerdicts
  <2> QED
    BY <2>5, <2>6, <2>7, <2>8 DEF RequestInv
<1> QED
  BY <1>2, <1>3

\* A request that is through relies on nothing but that chunk rows stay.
LEMMA DoneStands ==
    ASSUME IndInv, NEW w \in Workers, request[w].pc = "commit",
           request'[w] = [request[w] EXCEPT !.pc = "done"],
           \A id \in ChunkIds : chunks[id] # None => chunks'[id] # None
    PROVE  RequestInv(request[w])'
<1> DEFINE r == request[w]  s == [r EXCEPT !.pc = "done"]
<1>1. r \in Request /\ RequestInv(r)
  BY DEF IndInv, TypeOK
<1>2. /\ s.pc = "done" /\ s.kind = r.kind /\ s.batch = r.batch /\ s.ids = r.ids
      /\ s.found = r.found /\ request'[w] = s
  BY <1>1 DEF Request
<1> HIDE DEF s
<1> QED
  BY <1>1, <1>2
  DEF RequestInv, FoundRowsStay, InOrder, AnswerIsThere, OneVerdictEach, StillCurrent,
      HasSeenVerdicts, FailedForCause, Ended

\* Numbers and company after the end of a request that adds only rows of its own.
LEMMA EndOfOne ==
    ASSUME IndInv, TypeOK', NEW w \in Workers, request[w].pc = "commit", Finish(w, "done"),
           begun' = begun, company' = company,
           \A c \in checks' : c.request = request[w].number \/ \E b \in checks : b.request = c.request
    PROVE  NumbersDiffer' /\ CompanyIsTold'
<1>1. TypeOK /\ NumbersDiffer /\ CompanyIsTold
  BY DEF IndInv
<1>2. /\ w \in Active /\ Active' = Active \ {w} /\ Judging' \subseteq Judging \ {w}
      /\ \A v \in Active' : request'[v].number = request[v].number
  BY <1>1, FinishStep
<1>3. NumbersDiffer'
  <2>1. request[w].number <= begun
    BY <1>1, <1>2 DEF NumbersDiffer, TypeOK
  <2> QED
    BY <1>1, <1>2, <2>1 DEF NumbersDiffer
<1>4. CompanyIsTold'
  BY <1>1, <1>2 DEF CompanyIsTold
<1> QED
  BY <1>3, <1>4

\* A call that logs something commits: what it writes carries no verdict, and an
\* unraced session takes the status back from "evaluated".
LEMMA CommitLogStep ==
    ASSUME IndInv, NEW w \in Workers, CommitLog(w)
    PROVE  IndInv'
<1> DEFINE r == request[w]
           added == {[request |-> r.number, cites |-> x, status |-> "pending", basis |-> None] :
                         x \in r.cited}
           new == CASE r.kind = "retrieval" -> "retrieval_logged"
                    [] r.kind = "context" -> "context_logged"
                    [] r.kind = "answer" -> "answer_logged"
                    [] r.kind = "citations" -> "citations_logged"
                    [] r.kind = "event" -> "agent_event_logged"
<1>1. /\ TypeOK /\ NumbersDiffer /\ CompanyIsTold /\ OneOfEach(checks) /\ RequestInv(r)
      /\ r \in Request
  BY DEF IndInv, TypeOK
<1>2. /\ r.pc = "commit" /\ Finish(w, "done") /\ UNCHANGED <<report, begun, company>>
      /\ r.kind \in {"retrieval", "context", "answer", "citations", "event"}
      /\ chunks' = [id \in ChunkIds |-> ChunkAfter(r, id)]
      /\ answer' = (answer \/ r.kind = "answer")
      /\ checks' = IF r.kind # "citations" THEN checks
                   ELSE {c \in checks : KeyOf(c) \notin r.old} \cup added
      /\ status' = StatusAfter(r, new)
  BY DEF CommitLog, Commits
<1>3. new \in Statuses \ {"evaluated"}
  BY <1>2 DEF Statuses
<1> HIDE DEF new
<1>4. /\ request' \in [Workers -> Request] /\ request'[w] = [r EXCEPT !.pc = "done"]
      /\ \A v \in Workers \ {w} :
            request'[v] = IF request[v].pc \in Ended THEN request[v]
                          ELSE [request[v] EXCEPT !.raced = TRUE]
      /\ w \in Active
  BY <1>1, <1>2, FinishStep
<1>5. r.number \in 1..MaxRequests /\ r.cited \subseteq Cited
  <2>1. r.number \in 1..begun
    BY <1>1, <1>4 DEF NumbersDiffer
  <2> QED
    BY <1>1, <2>1, RequestsAssumption DEF TypeOK, Request
<1>6. \A id \in ChunkIds : /\ chunks'[id] \in ChunkRow \cup {None}
                           /\ chunks[id] # None => chunks'[id] # None
  <2> TAKE id \in ChunkIds
  <2>1. r.found[id] # None => chunks[id] # None
    BY <1>1 DEF RequestInv, FoundRowsStay
  <2>2. chunks'[id] = ChunkAfter(r, id)
    BY <1>2
  <2>3. ChunkAfter(r, id) \in ChunkRow \cup {None}
    BY <1>1, <2>1, ChunkAfterType
  <2>4. ASSUME chunks[id] # None PROVE ChunkAfter(r, id) # None
    <3>1. CASE id \in IdsIn(r.batch) /\ r.found[id] = None
      <4>1. LastContent(r.batch, id) \in Contents
        BY <1>1, <3>1, LastContentType DEF Request
      <4>2. [content |-> LastContent(r.batch, id), selected |-> r.kind = "context"] \in ChunkRow
        BY <4>1 DEF ChunkRow
      <4> QED
        BY <3>1, <4>2, NoneAssumption DEF ChunkAfter
    <3>2. CASE (id \in IdsIn(r.batch) \/ id \in r.ids) /\ r.found[id] # None
      <4> DEFINE row == [content |-> IF id \in IdsIn(r.batch) /\ LastContent(r.batch, id) # r.found[id].content
                                     THEN LastContent(r.batch, id) ELSE chunks[id].content,
                         selected |-> (r.kind = "context" /\ ~r.found[id].selected) \/ chunks[id].selected]
      <4>1. ChunkAfter(r, id) = row
        BY <3>2 DEF ChunkAfter
      <4>2. chunks[id] \in ChunkRow
        BY <1>1, <2>4 DEF TypeOK
      <4>3. id \in IdsIn(r.batch) => LastContent(r.batch, id) \in Contents
        BY <1>1, LastContentType DEF Request
      <4>4. row \in ChunkRow
        BY <4>2, <4>3 DEF ChunkRow
      <4> QED
        BY <4>1, <4>4, NoneAssumption
    <3>3. CASE /\ ~(id \in IdsIn(r.batch) /\ r.found[id] = None)
               /\ ~((id \in IdsIn(r.batch) \/ id \in r.ids) /\ r.found[id] # None)
      BY <2>4, <3>3 DEF ChunkAfter
    <3> QED
      BY <3>1, <3>2, <3>3
  <2> QED
    BY <2>2, <2>3, <2>4
<1>7. \A c \in checks' : \/ c \in checks
                         \/ /\ c \in Check /\ c.request = r.number /\ c.status = "pending"
                            /\ c \in added
  <2>1. \A c \in added : c \in Check /\ c.request = r.number /\ c.status = "pending"
    BY <1>5 DEF Check
  <2> QED
    BY <1>2, <2>1
<1>8. TypeOK'
  <2>1. checks' \subseteq Check
    BY <1>1, <1>7 DEF TypeOK
  <2>2. chunks' \in [ChunkIds -> ChunkRow \cup {None}]
    BY <1>2, <1>6
  <2>3. status' \in Statuses /\ answer' \in BOOLEAN
    BY <1>1, <1>2, <1>3 DEF StatusAfter, TypeOK
  <2> QED
    BY <1>1, <1>2, <1>4, <2>1, <2>2, <2>3 DEF TypeOK
<1>9. OneOfEach(checks)'
  <2> SUFFICES ASSUME NEW c \in checks', NEW d \in checks', KeyOf(c) = KeyOf(d) PROVE c = d
    BY DEF OneOfEach, KeyOf
  <2>1. c.request = d.request /\ c.cites = d.cites
    BY DEF KeyOf
  <2>2. \A b \in checks : b.request # r.number
    BY <1>1, <1>4 DEF NumbersDiffer
  <2>3. CASE c \in checks /\ d \in checks
    BY <1>1, <2>3 DEF OneOfEach
  <2>4. CASE c \in added /\ d \in added
    BY <2>1, <2>4
  <2> QED
    BY <1>7, <2>1, <2>2, <2>3, <2>4
<1>10. NumbersDiffer' /\ CompanyIsTold'
  <2>1. \A c \in checks' : c.request = r.number \/ \E b \in checks : b.request = c.request
    BY <1>7
  <2> QED
    BY <1>2, <1>8, <2>1, EndOfOne
<1>11. VerdictHasReport' /\ ReportAgreesIfOneJudge'
  <2>1. status' = "evaluated" => status = "evaluated"
    BY <1>2, <1>3 DEF StatusAfter
  <2>2. \A c \in checks' : c.status # "pending" => c \in checks
    BY <1>7
  <2> QED
    BY <1>2, <2>1, <2>2 DEF IndInv, VerdictHasReport, ReportAgreesIfOneJudge
<1>12. FreshIfAlone'
  <2> SUFFICES ASSUME company = "alone" PROVE status' # "evaluated"
    BY <1>2 DEF FreshIfAlone
  <2>1. r.status = status
    BY <1>1, <1>2, <1>4 DEF CompanyIsTold, RequestInv, StillCurrent, Ended
  <2> QED
    BY <1>2, <1>3, <2>1 DEF StatusAfter
<1>13. ASSUME NEW v \in Workers PROVE RequestInv(request[v])'
  <2>1. CASE v = w
    BY <1>2, <1>4, <1>6, <2>1, DoneStands
  <2>2. CASE v # w
    <3>1. \A c \in checks' : c.status # "pending" => c \in checks
      BY <1>7
    <3> QED
      BY <1>2, <1>4, <1>6, <2>2, <3>1, OthersStand
  <2> QED
    BY <2>1, <2>2
<1> QED
  BY <1>8, <1>9, <1>10, <1>11, <1>12, <1>13 DEF IndInv

\* A session that ends without writing, for a cause.
LEMMA FailStep ==
    ASSUME IndInv, NEW w \in Workers, request[w].pc = "commit", Finish(w, "failed"),
           UNCHANGED <<tables, begun, company>>,
           request[w].raced \/ Repeats(request[w])
    PROVE  IndInv'
<1> DEFINE r == request[w]  read == [r EXCEPT !.pc = "failed"]
<1>1. r \in Request /\ RequestInv(r) /\ request \in [Workers -> Request]
  BY DEF IndInv, TypeOK
<1>2. Reads(w, "commit", read)
  BY <1>1 DEF Finish, Reads
<1>3. /\ read \in Request /\ read.pc = "failed" /\ read.kind = r.kind /\ read.batch = r.batch
      /\ read.ids = r.ids /\ read.found = r.found /\ read.raced = r.raced /\ read.number = r.number
  BY <1>1 DEF Request, Ended
<1> HIDE DEF read
<1>4. Repeats(r) => Repeats(read)
  BY <1>3 DEF Repeats, Added
<1>5. RequestInv(read)
  BY <1>1, <1>3, <1>4
  DEF RequestInv, FoundRowsStay, InOrder, AnswerIsThere, OneVerdictEach, StillCurrent,
      HasSeenVerdicts, FailedForCause, Ended
<1> QED
  BY <1>2, <1>3, <1>5, ReadStep DEF Ended

\* Alone, a call that logs finds the rows it saw, and no others.
LEMMA LogFailsStep ==
    ASSUME IndInv, NEW w \in Workers, LogFails(w)
    PROVE  IndInv'
<1> DEFINE r == request[w]
<1>1. r \in Request /\ RequestInv(r)
  BY DEF IndInv, TypeOK
<1>2. r.pc = "commit" /\ LogConflict(r) /\ Finish(w, "failed") /\ UNCHANGED <<tables, begun, company>>
  BY DEF LogFails, Commits
<1>3. ASSUME ~r.raced PROVE Repeats(r)
  <2>1. /\ \A i \in DOMAIN r.batch : r.found[r.batch[i].id] = chunks[r.batch[i].id]
        /\ r.kind = "answer" => r.answered = answer
    BY <1>1, <1>2, <1>3 DEF RequestInv, StillCurrent, Ended
  <2>2. \A id \in Added(r) : chunks[id] = None
    BY <2>1 DEF Added, IdsIn
  <2> QED
    BY <1>2, <2>1, <2>2 DEF LogConflict
<1> QED
  BY <1>2, <1>3, FailStep

\* An evaluation commits what it judged, if every check it judged is still there.
LEMMA CommitEvaluationStep ==
    ASSUME IndInv, NEW w \in Workers, CommitEvaluation(w)
    PROVE  IndInv'
<1> DEFINE r == request[w]
<1>1. /\ TypeOK /\ NumbersDiffer /\ CompanyIsTold /\ OneOfEach(checks) /\ RequestInv(r)
      /\ r \in Request /\ r.loaded \subseteq Check /\ r.judged \subseteq Check
  <2>1. r \in Request
    BY DEF IndInv, TypeOK
  <2> QED
    BY <2>1 DEF IndInv, Request
<1>2. PICK W \in Written(r) :
        /\ r.pc = "commit" /\ r.kind = "evaluate" /\ UNCHANGED <<begun, company>>
        /\ IF EvaluationConflict(r, W)
           THEN Finish(w, "failed") /\ UNCHANGED tables
           ELSE /\ checks' = {c \in checks : \A d \in W : KeyOf(d) # KeyOf(c)}
                               \cup {d \in W : \E c \in checks : KeyOf(c) = KeyOf(d)}
                /\ report' = ReportAfter(r)
                /\ status' = StatusAfter(r, "evaluated")
                /\ Finish(w, "done")
                /\ UNCHANGED <<chunks, answer>>
  BY DEF CommitEvaluation, Commits
<1>3. W \subseteq r.judged /\ r.judged \ r.loaded \subseteq W
  BY DEF Written
<1>4. /\ OneOfEach(r.loaded) /\ OneOfEach(r.judged)
      /\ \A d \in r.judged : \E c \in r.loaded : d \in VerdictsFor(r, c)
      /\ \A c \in r.loaded : \E d \in r.judged : KeyOf(d) = KeyOf(c)
      /\ answer
  BY <1>1, <1>2 DEF RequestInv, OneVerdictEach, AnswerIsThere
<1>5. ~r.raced => /\ r.loaded = checks /\ r.found = chunks /\ r.reported = (report # None)
                  /\ r.status = status
  BY <1>1, <1>2 DEF RequestInv, StillCurrent, Ended
<1>6. CASE EvaluationConflict(r, W)
  <2>1. ASSUME ~r.raced PROVE FALSE
    <3>1. PICK d \in W : \A c \in checks : KeyOf(c) # KeyOf(d)
      BY <1>5, <1>6, <2>1 DEF EvaluationConflict
    <3>2. PICK c \in r.loaded : d \in VerdictsFor(r, c)
      BY <1>3, <1>4
    <3>3. KeyOf(d) = KeyOf(c)
      BY <1>1, <3>2, VerdictType
    <3> QED
      BY <1>5, <2>1, <3>1, <3>3
  <2> QED
    BY <1>2, <1>6, <2>1, FailStep
<1>7. CASE ~EvaluationConflict(r, W)
  <2>1. /\ \A c \in checks' : c \in W \/ (c \in checks /\ \A d \in W : KeyOf(d) # KeyOf(c))
        /\ report' = ReportAfter(r) /\ status' = StatusAfter(r, "evaluated")
        /\ Finish(w, "done") /\ UNCHANGED <<chunks, answer, begun, company>>
    BY <1>2, <1>7
  <2>2. /\ request' \in [Workers -> Request] /\ request'[w] = [r EXCEPT !.pc = "done"]
        /\ \A v \in Workers \ {w} :
              request'[v] = IF request[v].pc \in Ended THEN request[v]
                            ELSE [request[v] EXCEPT !.raced = TRUE]
        /\ w \in Active /\ w \in Judging
    BY <1>1, <1>2, <2>1, FinishStep DEF Judging
  <2>3. \A d \in r.judged : d.status \in Verdicts /\ d.cites \in Cited
    <3> TAKE d \in r.judged
    <3>1. PICK c \in r.loaded : d \in VerdictsFor(r, c)
      BY <1>4
    <3>2. d.status \in Verdicts
      BY <1>1, <3>1, VerdictType
    <3> QED
      BY <1>1, <3>2 DEF Check
  <2>4. report' \subseteq Result /\ report' # None
    <3>1. report' \subseteq Result
      BY <2>1, <2>3 DEF ReportAfter, Result
    <3> QED
      BY <3>1, NoneAssumption
  <2>5. TypeOK'
    <3>1. checks' \subseteq Check /\ status' \in Statuses
      BY <1>1, <1>3, <2>1 DEF TypeOK, StatusAfter, Statuses
    <3> QED
      BY <1>1, <2>1, <2>2, <2>4, <3>1 DEF TypeOK
  <2>6. OneOfEach(checks)'
    <3> SUFFICES ASSUME NEW c \in checks', NEW d \in checks', KeyOf(c) = KeyOf(d) PROVE c = d
      BY DEF OneOfEach, KeyOf
    <3>1. CASE c \in W /\ d \in W
      BY <1>3, <1>4, <3>1 DEF OneOfEach
    <3>2. CASE c \notin W /\ d \notin W
      BY <1>1, <2>1, <3>2 DEF OneOfEach
    <3> QED
      BY <2>1, <3>1, <3>2
  <2>7. NumbersDiffer' /\ CompanyIsTold'
    <3>1. \A c \in checks' : \E b \in checks : b.request = c.request
      <4>1. \A c \in checks' : \E b \in checks : KeyOf(b) = KeyOf(c)
        BY <1>2, <1>7
      <4> QED
        BY <4>1 DEF KeyOf
    <3> QED
      BY <1>2, <2>1, <2>5, <3>1, EndOfOne
  <2>8. VerdictHasReport'
    BY <1>4, <2>1, <2>4 DEF VerdictHasReport
  \* A check that is judged and not written had this verdict when it was loaded.
  <2>9. ASSUME NEW c \in checks, c \in r.loaded, \A d \in W : KeyOf(d) # KeyOf(c)
        PROVE  c \in r.judged
    <3>1. PICK d \in r.judged : KeyOf(d) = KeyOf(c)
      BY <1>4, <2>9
    <3>2. d \in r.loaded
      BY <1>3, <2>9, <3>1
    <3> QED
      BY <1>4, <2>9, <3>1, <3>2 DEF OneOfEach
  <2>10. ReportAgreesIfOneJudge'
    <3> SUFFICES ASSUME company # "judges", NEW c \in checks', c.status # "pending"
                 PROVE  c \in r.judged
      BY <2>1 DEF ReportAgreesIfOneJudge, ReportAfter
    <3>1. c \in checks => c \in r.loaded
      BY <1>1, <1>2 DEF RequestInv, HasSeenVerdicts
    <3> QED
      BY <1>3, <2>1, <2>9, <3>1
  <2>11. FreshIfAlone'
    <3> SUFFICES ASSUME company = "alone", NEW c \in checks'
                 PROVE  /\ c.status # "pending"
                        /\ c.basis = IF c.cites.source \in ChunkIds /\ chunks[c.cites.source] # None
                                     THEN chunks[c.cites.source].content ELSE None
      BY <2>1 DEF FreshIfAlone
    <3>1. r.loaded = checks /\ r.found = chunks
      BY <1>1, <1>5, <2>2 DEF CompanyIsTold
    <3>2. c \in r.judged
      BY <1>3, <2>1, <2>9, <3>1
    <3>3. PICK b \in r.loaded : c \in VerdictsFor(r, b)
      BY <1>4, <3>2
    <3>4. /\ c.cites = b.cites /\ c.status \in Verdicts
          /\ c.basis = IF b.cites.source \in ChunkIds /\ chunks[b.cites.source] # None
                       THEN chunks[b.cites.source].content ELSE None
      BY <1>1, <3>1, <3>3, VerdictType
    <3> QED
      BY <3>4 DEF Verdicts
  <2>12. ASSUME NEW v \in Workers PROVE RequestInv(request[v])'
    <3>1. CASE v = w
      BY <1>2, <2>1, <2>2, <3>1, DoneStands
    <3>2. CASE v # w
      <4>1. company # "judges" => v \notin Judging
        BY <1>1, <2>2, <3>2 DEF CompanyIsTold
      <4> QED
        BY <2>1, <2>2, <3>2, <4>1, OthersStand
    <3> QED
      BY <3>1, <3>2
  <2> QED
    BY <2>5, <2>6, <2>7, <2>8, <2>10, <2>11, <2>12 DEF IndInv
<1> QED
  BY <1>6, <1>7

-----------------------------------------------------------------------------
(* The theorems.                                                           *)

\* A trace on which nothing was logged satisfies the invariant.
THEOREM IndInit == Init => IndInv
<1> SUFFICES ASSUME Init PROVE IndInv
  OBVIOUS
<1>1. Fresh \in Request /\ Fresh.pc = "idle" /\ Fresh.found = NoRow /\ Fresh.kind = "none"
      /\ Fresh.batch = <<>> /\ Fresh.ids = {}
  BY DEF Fresh, Request, NoRow, Ended, Kinds, Statuses
<1>2. \A w \in Workers : request[w] = Fresh
  BY DEF Init
<1>3. Active = {} /\ Judging = {}
  BY <1>1, <1>2 DEF Active, Judging, Ended
<1>4. TypeOK
  <2>1. chunks \in [ChunkIds -> ChunkRow \cup {None}]
    BY DEF Init, NoRow
  <2>2. request \in [Workers -> Request]
    BY <1>1 DEF Init
  <2>3. begun \in 0..MaxRequests
    BY RequestsAssumption DEF Init
  <2> QED
    BY <2>1, <2>2, <2>3 DEF Init, TypeOK, Statuses
<1>5. OneOfEach(checks) /\ NumbersDiffer /\ CompanyIsTold
  BY <1>3 DEF Init, OneOfEach, NumbersDiffer, CompanyIsTold
<1>6. VerdictHasReport /\ ReportAgreesIfOneJudge /\ FreshIfAlone
  BY DEF Init, VerdictHasReport, ReportAgreesIfOneJudge, FreshIfAlone
<1>7. ASSUME NEW w \in Workers PROVE RequestInv(request[w])
  <2>1. FoundRowsStay(Fresh)
    BY <1>1 DEF FoundRowsStay, NoRow
  <2>2. RequestInv(Fresh)
    BY <1>1, <2>1
    DEF RequestInv, InOrder, AnswerIsThere, OneVerdictEach, StillCurrent, HasSeenVerdicts,
        FailedForCause, Ended
  <2> QED
    BY <1>2, <2>2
<1> QED
  BY <1>4, <1>5, <1>6, <1>7 DEF IndInv

\* Every statement of every request keeps the invariant.
THEOREM IndStep == IndInv /\ [Next]_vars => IndInv'
<1> SUFFICES ASSUME IndInv, [Next]_vars PROVE IndInv'
  OBVIOUS
<1>1. ASSUME NEW w \in Workers,
             \/ BeginRetrieval(w) \/ BeginContext(w) \/ BeginAnswer(w) \/ BeginCitations(w)
             \/ BeginEvent(w) \/ BeginEvaluate(w)
      PROVE  IndInv'
  BY <1>1, BeginsStep
<1>2. ASSUME NEW w \in Workers,
             \/ SelectChunks(w) \/ CountChunks(w) \/ LookupChunk(w) \/ LoadAnswer(w)
             \/ DeleteChecks(w) \/ LoadChunks(w) \/ LoadChecks(w) \/ Judge(w) \/ LoadReport(w)
      PROVE  IndInv'
  BY <1>2, SelectStep, LookupStep, AnswerStep, DeleteStep, LoadStep, JudgeStep, ReportStep
<1>3. ASSUME NEW w \in Workers, CommitLog(w) \/ LogFails(w) \/ CommitEvaluation(w)
      PROVE  IndInv'
  BY <1>3, CommitLogStep, LogFailsStep, CommitEvaluationStep
<1>4. CASE UNCHANGED vars
  <2>1. UNCHANGED <<status, chunks, answer, checks, report, begun, company, request>>
    BY <1>4 DEF vars, tables
  <2>2. ASSUME NEW w \in Workers PROVE RequestInv(request[w])'
    BY <2>1
    DEF IndInv, RequestInv, FoundRowsStay, InOrder, AnswerIsThere, OneVerdictEach, StillCurrent,
        HasSeenVerdicts, FailedForCause
  <2>3. (TypeOK /\ OneOfEach(checks))'
    BY <2>1 DEF IndInv, TypeOK, OneOfEach
  <2>4. (NumbersDiffer /\ CompanyIsTold)'
    BY <2>1 DEF IndInv, NumbersDiffer, CompanyIsTold, Active, Judging
  <2>5. (VerdictHasReport /\ ReportAgreesIfOneJudge /\ FreshIfAlone)'
    BY <2>1 DEF IndInv, VerdictHasReport, ReportAgreesIfOneJudge, FreshIfAlone
  <2> QED
    BY <2>2, <2>3, <2>4, <2>5 DEF IndInv
<1> QED
  BY <1>1, <1>2, <1>3, <1>4 DEF Next

\* The invariant holds in every state, whatever requests meet on the trace.
THEOREM Invariance == Spec => []IndInv
<1> QED
  BY IndInit, IndStep, PTL DEF Spec

\* The columns, and what each session holds of them, stay in their ranges.
THEOREM TypesHold == Spec => []TypeOK
<1>1. IndInv => TypeOK
  BY DEF IndInv
<1> QED
  BY <1>1, Invariance, PTL

\* A verdict, and the status "evaluated", never stand without report and answer:
\* the one commit of evaluate_trace writes them together, and a first evaluation
\* that loses the race for the report writes none of them.
THEOREM VerdictsHaveReports == Spec => []VerdictHasReport
<1>1. IndInv => VerdictHasReport
  BY DEF IndInv
<1> QED
  BY <1>1, Invariance, PTL

\* A request fails only for what another one committed while it ran, for a chunk
\* listed twice, or as evaluation without an answer.
THEOREM FailuresHaveCauses == Spec => []FailsOnlyWhenRaced
<1>1. IndInv => FailsOnlyWhenRaced
  BY DEF IndInv, RequestInv, FailedForCause, FailsOnlyWhenRaced
<1> QED
  BY <1>1, Invariance, PTL

\* With one evaluation at a time, whatever else is logged, the verdicts in the
\* table are those of the stored report; with one request at a time, what is shown
\* as evaluated was evaluated as it is.
THEOREM EvaluationsHold == Spec => []EvaluationsAgree
<1>1. IndInv => EvaluationsAgree
  BY DEF IndInv, EvaluationsAgree
<1> QED
  BY <1>1, Invariance, PTL


=============================================================================
