------------------------------ MODULE Playground -------------------------------
(***************************************************************************)
(* The playground of the hosted API (services/playground.py, playground/): *)
(* users upload documents, which are cut into chunks, embedded and kept in *)
(* a vector store; a query retrieves chunks by one strategy or by several  *)
(* to compare, selects a context, has it answered, and is stored and       *)
(* evaluated as a trace.                                                   *)
(*                                                                         *)
(* Providers of embeddings, answers and verdicts are awaited and may fail; *)
(* the store may be shared with other processes (Qdrant), so every read of *)
(* it is a step.  Records are numbered in the order they were stored.      *)
(*                                                                         *)
(* A document is [tokens, words]: how long it is, and which of the words   *)
(* of a query it has.  A query is what is asked of the words:              *)
(*   timely, broad, comparing, parts, vague   what the classifier looks at *)
(*   complex                the adaptive strategy takes it for a hard one  *)
(*   dense, lexical         the scores of a text with these words, percent *)
(*   bonus                  what reranking adds to it                      *)
(*   terms                  the share of the query's terms it has          *)
(***************************************************************************)
EXTENDS Integers, Sequences, FiniteSets, FiniteSetsExt

CONSTANTS
    Users, Workers,
    Words,              \* which of the words of a query a text has
    Documents,          \* what may be uploaded
    Samples,            \* sequences of documents that are loaded together
    Queries,
    TopKs,              \* how many chunks a request asks for
    Comparisons,        \* sequences of strategies
    MaxTokens, Overlap, \* the chunker's settings, Overlap < MaxTokens
    ListLimit,          \* of list_records (1000)
    MaxRequests,        \* bound on the requests
    None

Document == [tokens : Nat, words : Words]

Strategies == {"dense_top_k", "bm25_top_k", "hybrid", "hybrid_rerank", "corrective_rag",
               "contexttrace_adaptive"}

VARIABLES
    store,              \* sequence of records [owner, upload, words, from, to]
    uploads,            \* documents that were reported as stored: [owner, upload, tokens, words]
    request,            \* per worker: the request it handles
    results,            \* the traces of queries
    begun               \* requests begun

vars == <<store, uploads, request, results, begun>>

\* What an upload has left to do, and a query its strategies, is left; dense is
\* what the first read of a strategy found, retrieved what the strategy did.
NoRequest ==
    [pc |-> "idle", user |-> None, no |-> 0, left |-> <<>>, query |-> None, k |-> 0, compare |-> FALSE,
     seen |-> {}, policy |-> None, strategy |-> None, limit |-> 0, dense |-> <<>>, retrieved |-> <<>>]

Init ==
    /\ store = <<>> /\ uploads = {} /\ results = {} /\ begun = 0
    /\ request = [w \in Workers |-> NoRequest]

-----------------------------------------------------------------------------
(* Cutting a document: chunk i has the tokens from[i] + 1 to to[i].        *)

Step == MaxTokens - Overlap

\* The chunks go on until one reaches the end.
\* Mutation: a last chunk of less than a step is not made.
ChunkCountShort(n) == (n - Overlap) \div Step
ChunkCount(n) ==
    IF n = 0 THEN 0 ELSE Min({k \in 1..n : (k - 1) * Step + MaxTokens >= n})

Chunks(doc) ==
    [i \in 1..ChunkCount(doc.tokens) |->
        [from |-> (i - 1) * Step, to |-> Min({(i - 1) * Step + MaxTokens, doc.tokens})]]

-----------------------------------------------------------------------------
(* Ranking.  A hit is a record's number with a score in percent.           *)

Hit(i, score) == [id |-> i, score |-> score]

\* The members of a finite set I in their order R, a set of pairs (i before j).
Ranked(I, R) ==
    [n \in 1..Cardinality(I) |-> CHOOSE i \in I : Cardinality({j \in I : <<j, i>> \in R}) = n - 1]

Ascending(I) == Ranked(I, {p \in I \X I : p[1] < p[2]})

\* The hits at the places I, in their order.
At(hits, I) == LET place == Ascending(I) IN [n \in DOMAIN place |-> hits[place[n]]]

\* The best of a sequence of hits; equals keep their order.
Best(hits, limit) ==
    LET I == DOMAIN hits
        order == Ranked(I, {p \in I \X I : \/ hits[p[1]].score > hits[p[2]].score
                                           \/ hits[p[1]].score = hits[p[2]].score /\ p[1] < p[2]})
    IN [n \in 1..Min({Len(hits), limit}) |-> hits[order[n]]]

Ids(hits)    == {hits[i].id : i \in DOMAIN hits}
Scores(hits) == {hits[i].score : i \in DOMAIN hits}

\* The records of a user: both kinds of store filter by user_id.
Own(user) == Ascending({i \in DOMAIN store : store[i].owner = user})

Search(user, q, limit) ==
    LET own == Own(user) IN Best([n \in DOMAIN own |-> Hit(own[n], q.dense[store[own[n]].words])], limit)

\* list_records and BM25: texts without a word of the query are left out.
Listed(user) == SubSeq(Own(user), 1, Min({Len(Own(user)), ListLimit}))
Bm25(user, q, limit) ==
    LET scored == [n \in DOMAIN Listed(user) |->
                      Hit(Listed(user)[n], q.lexical[store[Listed(user)[n]].words])]
    IN Best(At(scored, {n \in DOMAIN scored : scored[n].score > 0}), limit)

Normalized(hits, id) ==
    LET low == Min(Scores(hits)) high == Max(Scores(hits))
        own == hits[CHOOSE i \in DOMAIN hits : hits[i].id = id].score
    IN IF id \notin Ids(hits) THEN 0 ELSE IF low = high THEN 100
       ELSE (100 * (own - low)) \div (high - low)

\* Mutation: what both found is listed twice.
MergedTwice(dense, lexical, limit, weight) ==
    LET all == dense \o lexical
    IN Best([n \in DOMAIN all |->
                Hit(all[n].id, (Normalized(dense, all[n].id) * weight
                                  + Normalized(lexical, all[n].id) * (100 - weight)) \div 100)],
            limit)
Merged(dense, lexical, limit, weight) ==
    LET new == At(lexical, {n \in DOMAIN lexical : lexical[n].id \notin Ids(dense)})
        all == dense \o new
    IN Best([n \in DOMAIN all |->
                Hit(all[n].id, (Normalized(dense, all[n].id) * weight
                                  + Normalized(lexical, all[n].id) * (100 - weight)) \div 100)],
            limit)

Reranked(hits, q, limit) ==
    Best([n \in DOMAIN hits |-> [hits[n] EXCEPT !.score = @ + q.bonus[store[hits[n].id].words]]], limit)

-----------------------------------------------------------------------------
(* The policy of the adaptive strategy.                                    *)

QueryClass(q) ==
    IF q.timely THEN "unanswerable_risk"
    ELSE IF q.broad THEN "broad_summary"
    ELSE IF q.comparing \/ q.parts THEN "multi_hop"
    ELSE IF q.vague THEN "ambiguous"
    ELSE "fact_specific"

\* _retrieval_confidence of the first five hits.
Confidence(hits, q) ==
    IF hits = <<>> THEN 0
    ELSE Max({0, Min({100, Max(Scores(hits) \cup {q.terms[store[i].words] : i \in Ids(hits)})})})

\* What an abstention needs, by class.
Weak(class, confidence) ==
    confidence < (CASE class = "unanswerable_risk" -> 65 [] class = "ambiguous" -> 45 [] OTHER -> 15)

\* PolicySelector.select: the policy and the strategy it retrieves by.
Policy(class, confidence) ==
    CASE Weak(class, confidence) -> [policy |-> "abstain_low_confidence", strategy |-> "dense_top_k"]
      [] class = "broad_summary" -> [policy |-> "compressed_context", strategy |-> "hybrid_rerank"]
      [] class \in {"unanswerable_risk", "multi_hop"} ->
             [policy |-> "hybrid_rerank", strategy |-> "hybrid_rerank"]
      [] class = "fact_specific" /\ confidence >= 45 ->
             [policy |-> "dense_top_k", strategy |-> "dense_top_k"]
      [] OTHER -> [policy |-> "hybrid", strategy |-> "hybrid"]

CandidateTopK(k, policy) ==
    CASE policy = "compressed_context"     -> Max({k * 3, k + 6})
      [] policy = "abstain_low_confidence" -> Max({k, 3})
      [] OTHER                             -> Max({k * 2, k + 3})

\* The context of a policy: what is selected of the retrieved records, and cut.
Selected(hits, k, policy) ==
    IF policy = "abstain_low_confidence" THEN <<>>
    ELSE SubSeq(hits, 1, Min({Len(hits), IF policy = "compressed_context" THEN 2 * k ELSE k}))

-----------------------------------------------------------------------------
(* Uploads.  A sample is a sequence of documents, stored one by one.       *)

Idle(w)    == request[w].pc = "idle"
Goes(w, r) == request' = [request EXCEPT ![w] = r]
Ends(w)    == Goes(w, NoRequest)

BeginUpload(w) ==
    /\ Idle(w) /\ begun < MaxRequests /\ begun' = begun + 1
    /\ \E user \in Users, list \in {<<d>> : d \in Documents} \cup Samples :
          Goes(w, [NoRequest EXCEPT !.pc = "chunk", !.user = user, !.left = list, !.no = begun + 1])
    /\ UNCHANGED <<store, uploads, results>>

\* A document without text is refused.
ChunkDocument(w) ==
    /\ request[w].pc = "chunk"
    /\ IF Chunks(request[w].left[1]) = <<>> THEN Ends(w)
       ELSE Goes(w, [request[w] EXCEPT !.pc = "store"])
    /\ UNCHANGED <<store, uploads, results, begun>>

\* The embeddings have come: the chunks are stored at once.
StoreChunks(w) ==
    /\ request[w].pc = "store"
    /\ LET r == request[w]
           doc == r.left[1]
           cut == Chunks(doc)
           upload == <<r.no, Len(r.left)>>
       IN /\ store' = store \o [i \in DOMAIN cut |->
                          [owner |-> r.user, upload |-> upload, words |-> doc.words,
                           from |-> cut[i].from, to |-> cut[i].to]]
          /\ uploads' = uploads \cup {[owner |-> r.user, upload |-> upload, tokens |-> doc.tokens, words |-> doc.words]}
          /\ IF Len(r.left) = 1 THEN Ends(w) ELSE Goes(w, [r EXCEPT !.pc = "chunk", !.left = Tail(@)])
    /\ UNCHANGED <<results, begun>>

-----------------------------------------------------------------------------
(* Queries.                                                                *)

\* query asks for one strategy, and the adaptive one by its policy; compare for
\* several.  seen: the documents that were reported when it began.
BeginQuery(w) ==
    /\ Idle(w) /\ begun < MaxRequests /\ begun' = begun + 1
    /\ \E user \in Users, q \in Queries, k \in TopKs, run \in
            {[left |-> <<s>>, compare |-> FALSE] : s \in Strategies}
              \cup {[left |-> list, compare |-> TRUE] : list \in Comparisons} :
          Goes(w, [NoRequest EXCEPT !.pc = "select", !.user = user, !.query = q, !.k = k, !.no = begun + 1,
                                    !.left = run.left, !.compare = run.compare,
                                    !.seen = {u \in uploads : u.owner = user}])
    /\ UNCHANGED <<store, uploads, results>>

ByPolicy(r) == ~r.compare /\ r.left[1] = "contexttrace_adaptive"

\* The query is embedded (once for all strategies), and a policy is selected.
SelectPolicy(w) ==
    /\ request[w].pc = "select"
    /\ LET r == request[w]
           confidence == Confidence(Search(r.user, r.query, 5), r.query)
           p == IF ByPolicy(r) THEN Policy(QueryClass(r.query), confidence)
                ELSE [policy |-> r.left[1], strategy |-> r.left[1]]
       IN Goes(w, [r EXCEPT !.pc = "search", !.policy = p.policy, !.strategy = p.strategy,
                            !.limit = CandidateTopK(r.k, p.policy)])
    /\ UNCHANGED <<store, uploads, results, begun>>

Retrieves(w, hits)     == Goes(w, [request[w] EXCEPT !.pc = "answer", !.retrieved = hits])
Continues(w, pc, hits) == Goes(w, [request[w] EXCEPT !.pc = pc, !.dense = hits])

\* The corrective strategy reranks twice what it is asked for.
RerankLimit(r) == IF r.strategy = "corrective_rag" THEN 2 * r.limit ELSE r.limit

\* The first read of the store: a vector search, unless only words count.
SearchVectors(w) ==
    /\ request[w].pc = "search"
    /\ LET r == request[w]
           Hits(limit) == Search(r.user, r.query, limit)
           First == Hits(r.limit)
       IN CASE r.strategy = "dense_top_k" -> Retrieves(w, First)
            [] r.strategy = "bm25_top_k"  -> Retrieves(w, Bm25(r.user, r.query, r.limit))
            [] r.strategy = "hybrid" ->
                  Continues(w, "merge", Hits(Max({4 * r.limit, 20})))
            [] r.strategy \in {"hybrid_rerank", "corrective_rag"} ->
                  Continues(w, "rerank", Hits(Max({5 * RerankLimit(r), 30})))
            [] r.strategy = "contexttrace_adaptive" ->
                  IF r.query.complex
                  THEN Continues(w, "rerank", Hits(Max({5 * r.limit, 30})))
                  ELSE IF First # <<>> /\ First[1].score >= 42 THEN Retrieves(w, First)
                  ELSE Goes(w, [r EXCEPT !.strategy = "hybrid"])
    /\ UNCHANGED <<store, uploads, results, begun>>

\* HybridStrategy: the words are looked for in what is stored now.
MergeLists(w) ==
    /\ request[w].pc = "merge"
    /\ LET r == request[w]
       IN Retrieves(w, Merged(r.dense, Bm25(r.user, r.query, Max({4 * r.limit, 20})), r.limit, 50))
    /\ UNCHANGED <<store, uploads, results, begun>>

\* HybridRerankStrategy, and for the corrective one whether that was good enough.
Rerank(w) ==
    /\ request[w].pc = "rerank"
    /\ LET r == request[w]
           wide == Max({5 * RerankLimit(r), 30})
           hits == Reranked(Merged(r.dense, Bm25(r.user, r.query, wide), wide, 45), r.query, RerankLimit(r))
       IN IF r.strategy # "corrective_rag" THEN Retrieves(w, hits)
          ELSE IF hits # <<>> /\ Max(Scores(hits)) >= 25
               THEN Retrieves(w, SubSeq(hits, 1, Min({Len(hits), r.limit})))
          ELSE Continues(w, "correct", hits)
    /\ UNCHANGED <<store, uploads, results, begun>>

Correct(w) ==
    /\ request[w].pc = "correct"
    /\ LET r == request[w]
       IN Retrieves(w, Merged(r.dense, Bm25(r.user, r.query, Max({3 * r.limit, 10})), r.limit, 35))
    /\ UNCHANGED <<store, uploads, results, begun>>

\* The answer has come, citing what it likes; citations of other chunks are left
\* out.  The trace is stored with all of it, and its evaluation begins.
Answered(w) ==
    /\ request[w].pc = "answer"
    /\ LET r == request[w]
           context == Selected(r.retrieved, r.k, r.policy)
       IN \E cited \in SUBSET Ids(r.retrieved) :
             /\ r.policy = "abstain_low_confidence" => cited = {}
             /\ results' = results \cup
                   {[no |-> r.no, user |-> r.user, k |-> r.k, asked |-> r.left[1], policy |-> r.policy,
                     strategy |-> r.strategy, limit |-> r.limit, query |-> r.query, seen |-> r.seen,
                     retrieved |-> r.retrieved, context |-> Ids(context),
                     citations |-> cited \cap Ids(context), evaluated |-> FALSE]}
             /\ Goes(w, [r EXCEPT !.pc = "judge"])
    /\ UNCHANGED <<store, uploads, begun>>

\* The verdicts have come; compare goes on with its next strategy.
Evaluated(w) ==
    /\ request[w].pc = "judge"
    /\ LET r == request[w]
           Mine(t) == t.no = r.no /\ ~t.evaluated
       IN /\ results' = {IF Mine(t) THEN [t EXCEPT !.evaluated = TRUE] ELSE t : t \in results}
          /\ IF Len(r.left) = 1 THEN Ends(w) ELSE Goes(w, [r EXCEPT !.pc = "select", !.left = Tail(@)])
    /\ UNCHANGED <<store, uploads, begun>>

\* A provider, or the store, fails: what was stored before it stays.
ProviderFails(w) ==
    /\ request[w].pc \notin {"idle", "chunk"}
    /\ Ends(w)
    /\ UNCHANGED <<store, uploads, results, begun>>

Next ==
    \E w \in Workers :
        \/ BeginUpload(w) \/ ChunkDocument(w) \/ StoreChunks(w)
        \/ BeginQuery(w) \/ SelectPolicy(w) \/ SearchVectors(w) \/ MergeLists(w) \/ Rerank(w)
        \/ Correct(w) \/ Answered(w) \/ Evaluated(w) \/ ProviderFails(w)

Spec == Init /\ [][Next]_vars

-----------------------------------------------------------------------------
(* Properties.                                                             *)

TypeOK ==
    /\ \A i \in DOMAIN store : store[i].owner \in Users /\ store[i].from < store[i].to
    /\ \A u \in uploads : u.owner \in Users
    /\ \A w \in Workers : request[w].pc # "idle" => request[w].user \in Users
    /\ begun \in 0..MaxRequests

\* What a user is answered with is the user's own: a trace has each record once,
\* none of another user and no more than were asked for, and it cites only what
\* was in the context, which an abstention leaves empty (_run_strategy).
AnswerRestsOnOwnContext ==
    \A t \in results :
        /\ \A i \in Ids(t.retrieved) : store[i].owner = t.user
        /\ \A i, j \in DOMAIN t.retrieved : t.retrieved[i].id = t.retrieved[j].id => i = j
        /\ Len(t.retrieved) <= t.limit
        /\ t.citations \subseteq t.context /\ t.context \subseteq Ids(t.retrieved)
        /\ t.policy = "abstain_low_confidence" => t.context = {}

\* A query whose list of records has room left has found every word of every
\* document that its user had uploaded before, whatever the strategy and whatever
\* is uploaded meanwhile; by words alone, of the documents that have one of the
\* query's words, as long as list_records lists all.
NothingReportedIsMissed ==
    \A t \in results : \A u \in t.seen : \A token \in 1..u.tokens :
        LET Holds(i) == store[i].upload = u.upload /\ store[i].from < token /\ token <= store[i].to
        IN \/ Len(t.retrieved) = t.limit
           \/ /\ t.strategy = "bm25_top_k"
              /\ \/ Len(Own(t.user)) > ListLimit
                 \/ t.query.lexical[u.words] = 0
           \/ \E i \in Ids(t.retrieved) : Holds(i)
=============================================================================
