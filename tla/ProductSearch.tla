--------------------------- MODULE ProductSearch ---------------------------
(***************************************************************************)
(* Product retrieval: the vector index that every starting process brings  *)
(* up to date (Container.startup, bootstrap_product_index,                 *)
(* QdrantProductIndex), the embedding cache in Redis                       *)
(* (CachedEmbeddingClient) and the tiered search that uses both            *)
(* (CatalogSearchUseCase, HttpReranker).                                   *)
(*                                                                         *)
(* The processes share Qdrant and Redis.  Each runs a release: an          *)
(* embedding endpoint and model, a reranker or none, and a catalog, which  *)
(* comes with the release.  One action is one call to a service with what  *)
(* the code does up to its next await.  The reads and writes of one batch  *)
(* in the embedding cache are one action: a process that writes an entry   *)
(* between them is one whose entry was not found.                          *)
(***************************************************************************)
EXTENDS Naturals, Sequences, FiniteSets, Lists

CONSTANTS
    Process,        \* the API server and the workers
    Product,        \* product ids, numbered in the order of the catalog
    Text,           \* searchable texts and normalized queries
    Query,          \* the ProductSearchSpecs that are asked
    Release,        \* what may be deployed
    Dimension,      \* of the vectors of an endpoint's model
    Similarity,     \* cosine of two texts under one model
    Matched,        \* the number of terms two texts share
    Score,          \* the cosines that occur
    Response,       \* what the rerank service may answer
    RecallTopN,     \* _RECALL_TOP_N
    Initially,      \* the indexes the first process may find
    None,
    MaxStarts,      \* bound: starts of processes
    MaxSearches,    \* bound: searches
    MaxFaults       \* bound: failed calls

\* The vector that an endpoint's model computes for a text.  (the endpoint is
\* taken to number the vectors of a batch as it was asked)
Embedding(r, text) == [url |-> r.url, model |-> r.model, text |-> text]
Vector == {Embedding(r, t) : r \in Release, t \in Text}
Width(v) == Dimension[<<v.url, v.model>>]

ASSUME ProductSearchAssumption ==
    /\ Product \subseteq Nat /\ IsFiniteSet(Product)
    /\ \A r \in Release :
        /\ r.reranker \in BOOLEAN
        /\ DOMAIN r.catalog \subseteq Product
        /\ \A q \in DOMAIN r.catalog : r.catalog[q].text \in Text
    /\ \A s \in Query : s.text \in Text /\ s.topK \in Nat
    /\ Score \subseteq Nat
    /\ RecallTopN \in Nat
    /\ None \notin Vector /\ None \notin Release
    /\ \A v \in Vector : Width(v) # None
    /\ \A i \in Initially :
        /\ i.size \in {Width(v) : v \in Vector} \cup {None}
        /\ DOMAIN i.points \subseteq Product
        /\ \A q \in DOMAIN i.points : \E v \in Vector : \E f \in {v, None} :
                i.points[q] = [vector |-> v, fingerprint |-> f]
        /\ i.size = None => i.points = << >>
    /\ MaxStarts \in Nat /\ MaxSearches \in Nat /\ MaxFaults \in Nat

ASSUME ScoringAssumption ==
    /\ \A t, u \in Text : Matched[<<t, u>>] \in Nat
    /\ Response \subseteq Seq([index : Nat, score : Nat \cup {None}])
    /\ None \notin Response

VARIABLES
    \* Qdrant: the size of the collection's vectors (None: no collection) and
    \* its points, each with its vector and the fingerprint in its payload
    collection, point,
    \* Redis: the cached vectors of each model and text
    cached,
    \* the processes
    release,         \* what each runs (None: nothing)
    pc,              \* where its startup is
    pending,         \* the products to embed and write
    vectors,         \* their vectors
    indexed,         \* what bootstrap_product_index returned
    search,          \* the search it executes: the spec and its vector
    answer,          \* what its last search returned
    \* bookkeeping
    disturbed,       \* another release wrote points since it read fingerprints
    starts, searches, faults

indexVars == <<collection, point>>
bootVars == <<release, pc, pending, vectors, indexed, disturbed>>
searchVars == <<search, answer, searches>>
vars == <<indexVars, cached, bootVars, searchVars, starts, faults>>

Step == {"down", "fingerprints", "embed", "exists", "create", "upsert", "serving"}

Init ==
    /\ \E i \in Initially : collection = i.size /\ point = i.points
    /\ cached = << >>
    /\ release = [p \in Process |-> None]
    /\ pc = [p \in Process |-> "down"]
    /\ pending = [p \in Process |-> {}]
    /\ vectors = [p \in Process |-> << >>]
    /\ indexed = [p \in Process |-> None]
    /\ search = [p \in Process |-> None]
    /\ answer = [p \in Process |-> None]
    /\ disturbed = [p \in Process |-> FALSE]
    /\ starts = 0 /\ searches = 0 /\ faults = 0

CanFail == faults < MaxFaults
Fault == CanFail /\ faults' = faults + 1
Catalog(p) == release[p].catalog

-----------------------------------------------------------------------------
(* The embedding cache.                                                    *)

\* (mutant of CacheKey: the model is left out of the key)
KeyOfText(r, text) == <<"any", text>>

\* The key of a text's vector: the model and the text, not the endpoint.
CacheKey(r, text) == <<r.model, text>>

\* embed_batch: what Redis has is taken from it, the rest is computed and saved.
\* While Redis is out of reach, everything is computed and nothing saved.
Found(r, texts, reachable) ==
    {t \in texts : reachable /\ CacheKey(r, t) \in DOMAIN cached}
EmbedBatch(r, texts, found) ==
    [t \in texts |-> IF t \in found THEN cached[CacheKey(r, t)] ELSE Embedding(r, t)]
Saved(r, texts) ==
    LET fresh == {CacheKey(r, t) : t \in texts}
    IN  [k \in DOMAIN cached \cup fresh |->
            IF k \in fresh THEN Embedding(r, k[2]) ELSE cached[k]]

\* External: an entry's week is over, or Redis evicts it.
ExpireVector ==
    /\ \E k \in DOMAIN cached :
        cached' = [l \in DOMAIN cached \ {k} |-> cached[l]]
    /\ UNCHANGED <<indexVars, bootVars, searchVars, starts, faults>>

-----------------------------------------------------------------------------
(* Starting: Container.startup up to bootstrap_category_knowledge, which    *)
(* raises nothing and touches none of this.                                *)

\* A process is started with some release.  It gets to its index once the
\* queue, the schema and the knowledge store are ready, or startup raises and
\* the process ends.
Start(p) ==
    /\ pc[p] = "down" /\ starts < MaxStarts
    /\ starts' = starts + 1
    /\ \/ /\ \E r \in Release : release' = [release EXCEPT ![p] = r]
          /\ pc' = [pc EXCEPT ![p] = "fingerprints"]
          /\ UNCHANGED faults
       \/ Fault /\ UNCHANGED <<release, pc>>
    /\ UNCHANGED <<indexVars, cached, pending, vectors, indexed, disturbed, searchVars>>

\* bootstrap_product_index returns, and the process serves searches.
Bootstrapped(p, result) ==
    /\ pc' = [pc EXCEPT ![p] = "serving"]
    /\ indexed' = [indexed EXCEPT ![p] = result]
    /\ pending' = [pending EXCEPT ![p] = {}]
    /\ vectors' = [vectors EXCEPT ![p] = << >>]
    /\ UNCHANGED <<release, searchVars, starts>>

\* Any call of it that raises.
BootstrapFails(p) ==
    /\ Fault /\ Bootstrapped(p, FALSE)
    /\ UNCHANGED <<indexVars, disturbed>>

\* What a product's point must say to be up to date: _generate_fingerprint.
Fingerprint(r, q) == Embedding(r, r.catalog[q].text)
\* (mutant of UpToDate: every product that has a point is up to date)
HasPoint(r, q) == q \in DOMAIN point

UpToDate(r, q) == q \in DOMAIN point /\ point[q].fingerprint = Fingerprint(r, q)
Outdated(r) == {q \in DOMAIN r.catalog : ~UpToDate(r, q)}

\* get_fingerprints_dict, and which products are pending.  Without a catalog
\* there is nothing to read, and bootstrap_product_index returns False.
ReadFingerprints(p) ==
    /\ pc[p] = "fingerprints"
    /\ disturbed' = [disturbed EXCEPT ![p] = FALSE]
    /\ UNCHANGED <<indexVars, cached>>
    /\ \/ /\ Outdated(release[p]) = {}
          /\ Bootstrapped(p, DOMAIN Catalog(p) # {})
          /\ UNCHANGED faults
       \/ /\ Outdated(release[p]) # {}
          /\ pending' = [pending EXCEPT ![p] = Outdated(release[p])]
          /\ pc' = [pc EXCEPT ![p] = "embed"]
          /\ UNCHANGED <<release, vectors, indexed, searchVars, starts, faults>>
       \/ DOMAIN Catalog(p) # {} /\ Fault /\ Bootstrapped(p, FALSE)

PendingTexts(p) == {Catalog(p)[q].text : q \in pending[p]}
SameWidth(vs) == \A v, w \in vs : Width(v) = Width(w)

\* embed_batch for the pending products; vectors of unequal sizes are refused.
EmbedPending(p) ==
    /\ pc[p] = "embed"
    /\ \E reachable \in BOOLEAN :
        LET texts == PendingTexts(p)
            found == Found(release[p], texts, reachable)
            vector == EmbedBatch(release[p], texts, found)
            computed == {vector[t] : t \in texts}
        IN  \/ /\ cached' = IF reachable THEN Saved(release[p], texts \ found)
                                         ELSE cached
               /\ IF SameWidth(computed)
                  THEN /\ vectors' = [vectors EXCEPT ![p] =
                                        [q \in pending[p] |-> vector[Catalog(p)[q].text]]]
                       /\ pc' = [pc EXCEPT ![p] = "exists"]
                       /\ UNCHANGED <<release, pending, indexed, searchVars, starts>>
                  ELSE Bootstrapped(p, FALSE)
               /\ UNCHANGED <<indexVars, disturbed, faults>>
            \/ /\ found # texts
               /\ BootstrapFails(p) /\ UNCHANGED cached

\* ensure_ready: is there a collection?
CheckCollection(p) ==
    /\ pc[p] = "exists"
    /\ \/ /\ pc' = [pc EXCEPT ![p] = IF collection = None THEN "create" ELSE "upsert"]
          /\ UNCHANGED <<indexVars, release, pending, vectors, indexed, disturbed,
                         searchVars, starts, faults>>
       \/ BootstrapFails(p)
    /\ UNCHANGED cached

\* ensure_ready: create it.  Qdrant refuses when another process just has.
CreateCollection(p) ==
    /\ pc[p] = "create"
    /\ \/ /\ collection = None
          /\ \E q \in pending[p] : collection' = Width(vectors[p][q])
          /\ pc' = [pc EXCEPT ![p] = "upsert"]
          /\ UNCHANGED <<point, release, pending, vectors, indexed, disturbed,
                         searchVars, starts, faults>>
       \/ /\ collection # None /\ Bootstrapped(p, FALSE)
          /\ UNCHANGED <<indexVars, disturbed, faults>>
       \/ BootstrapFails(p)
    /\ UNCHANGED cached

\* (mutant of Written: the payload of a point is replaced, not its vector)
NewPayload(p) ==
    [q \in DOMAIN point \cup pending[p] |->
        IF q \in pending[p]
        THEN [vector |-> IF q \in DOMAIN point THEN point[q].vector ELSE vectors[p][q],
              fingerprint |-> Fingerprint(release[p], q)]
        ELSE point[q]]

Written(p) ==
    [q \in DOMAIN point \cup pending[p] |->
        IF q \in pending[p]
        THEN [vector |-> vectors[p][q], fingerprint |-> Fingerprint(release[p], q)]
        ELSE point[q]]

\* upsert_products: Qdrant takes all the points or, when their vectors have not
\* the collection's size, none.  A call that fails may have been carried out.
Upsert(p) ==
    LET fits == \A q \in pending[p] : Width(vectors[p][q]) = collection
        write == /\ point' = Written(p)
                 /\ disturbed' = [x \in Process |->
                        disturbed[x] \/ (pc[x] # "down" /\ release[x] # release[p])]
    IN  /\ pc[p] = "upsert"
        /\ \/ fits /\ write /\ Bootstrapped(p, TRUE) /\ UNCHANGED faults
           \/ fits /\ write /\ Bootstrapped(p, FALSE) /\ Fault
           \/ /\ Bootstrapped(p, FALSE) /\ UNCHANGED <<point, disturbed>>
              /\ IF fits THEN Fault ELSE UNCHANGED faults
        /\ UNCHANGED <<collection, cached>>

\* The process is stopped or dies; what it was doing is gone.
Halt(p) ==
    /\ pc[p] # "down"
    /\ pc' = [pc EXCEPT ![p] = "down"]
    /\ pending' = [pending EXCEPT ![p] = {}]
    /\ vectors' = [vectors EXCEPT ![p] = << >>]
    /\ search' = [search EXCEPT ![p] = None]
    /\ answer' = [answer EXCEPT ![p] = None]
    /\ release' = [release EXCEPT ![p] = None]
    /\ indexed' = [indexed EXCEPT ![p] = None]
    /\ disturbed' = [disturbed EXCEPT ![p] = FALSE]
    /\ UNCHANGED <<indexVars, cached, starts, searches, faults>>

-----------------------------------------------------------------------------
(* Searching: CatalogSearchUseCase.                                        *)

Elements(s) == {s[i] : i \in DOMAIN s}
FirstOf(s, n) == SubSeq(s, 1, IF Len(s) < n THEN Len(s) ELSE n)

\* The orders of a set by descending score: those of Qdrant, which breaks ties
\* in any way, ...
Ranked(S, score) ==
    {s \in [1..Cardinality(S) -> S] :
        /\ Elements(s) = S
        /\ \A i, j \in DOMAIN s : i < j => score[s[i]] >= score[s[j]]}
\* ... and that of a stable sort of a list without repetitions.
Sorted(s, score) ==
    LET before(i, j) == \/ score[s[i]] > score[s[j]]
                        \/ score[s[i]] = score[s[j]] /\ i < j
        place(j) == 1 + Cardinality({i \in DOMAIN s : before(i, j)})
    IN  [k \in DOMAIN s |-> s[CHOOSE j \in DOMAIN s : place(j) = k]]

\* _rejected_reason: the hard constraints of a spec; None when they are met.
RejectedReason(r, q, s) ==
    LET product == r.catalog[q]
    IN  IF s.shipTo # None /\ s.shipTo \notin product.shipsTo
        THEN "ship_to_unavailable"
        ELSE IF product.currency # s.currency
        THEN "currency_unsupported"
        ELSE IF s.priceMax # None /\ product.price > s.priceMax
        THEN "over_price_cap"
        ELSE None

\* _keyword_score and _keyword_recall.  (product.category stands for the
\* strings the category contains)
KeywordScore(r, q, s) ==
    LET product == r.catalog[q]
        terms == Matched[<<s.text, product.text>>]
    IN  IF terms = 0 THEN 0
        ELSE terms + (IF s.category # None /\ s.category \in product.category
                      THEN 3 ELSE 0)
KeywordRecall(r, s) ==
    LET score == [q \in DOMAIN r.catalog |-> KeywordScore(r, q, s)]
        matching == {q \in DOMAIN r.catalog : score[q] > 0}
        listed == CHOOSE l \in [1..Cardinality(matching) -> matching] :
                    \A i, j \in DOMAIN l : i < j => l[i] < l[j]
    IN  Sorted(listed, score)

\* HttpReranker: a score for every document, put in place by its index, or an
\* answer that is refused.
Valid(response, n) ==
    /\ Len(response) = n
    /\ \A i \in 1..n : /\ response[i].index \in 0..(n - 1)
                       /\ response[i].score # None
                       /\ \A j \in 1..n : response[j].index = response[i].index => i = j
\* (mutant of Aligned: the scores are taken in the order of the answer)
InOrderOfAnswer(response, n) == [k \in 1..n |-> response[k].score]

Aligned(response, n) ==
    [k \in 1..n |->
        response[CHOOSE i \in 1..n : response[i].index = k - 1].score]
Reranked(candidates, response) ==
    LET scores == Aligned(response, Len(candidates))
    IN  Sorted(candidates, [q \in Elements(candidates) |->
            scores[CHOOSE k \in DOMAIN candidates : candidates[k] = q]])

\* The hard constraints come last, and then the cut to top_k.
Accepted(r, s, ranked) ==
    Subsequence(ranked, {i \in DOMAIN ranked : RejectedReason(r, ranked[i], s) = None})
\* (mutant of Hits: the cut to top_k comes before the hard constraints)
CutFirst(r, s, ranked) == Accepted(r, s, FirstOf(ranked, s.topK))

Hits(r, s, ranked) == FirstOf(Accepted(r, s, ranked), s.topK)

\* What execute returns, with what it was made of.
Answer(p, s, vector, strategy, recalled, ranked, response) ==
    answer' = [answer EXCEPT ![p] =
        [query |-> s, vector |-> vector, strategy |-> strategy,
         hits |-> Hits(release[p], s, ranked),
         total |-> Len(Accepted(release[p], s, ranked)),
         recalled |-> recalled, response |-> response,
         compared |-> [q \in Elements(recalled) |-> point[q].vector],
         crowded |-> Cardinality(DOMAIN point) > RecallTopN,
         settled |-> indexed[p] = TRUE /\ ~disturbed[p]]]

KeywordAnswer(p, s) ==
    LET ranked == KeywordRecall(release[p], s)
    IN  Answer(p, s, None, "keyword_2gram", << >>, ranked, None)

\* execute begins by embedding the query; when that fails, keywords answer.
BeginSearch(p, s) ==
    /\ pc[p] = "serving" /\ search[p] = None
    /\ searches < MaxSearches /\ searches' = searches + 1
    /\ \/ \E reachable \in BOOLEAN :
            LET found == Found(release[p], {s.text}, reachable)
            IN  /\ cached' = IF reachable THEN Saved(release[p], {s.text} \ found)
                                          ELSE cached
                /\ search' = [search EXCEPT ![p] =
                        [query |-> s,
                         vector |-> EmbedBatch(release[p], {s.text}, found)[s.text]]]
                /\ answer' = [answer EXCEPT ![p] = None]
                /\ UNCHANGED faults
       \/ Fault /\ KeywordAnswer(p, s) /\ UNCHANGED <<cached, search>>
    /\ UNCHANGED <<indexVars, bootVars, starts>>

\* The cosines Qdrant finds: those of two models have no meaning.
Cosines(v) ==
    {score \in [DOMAIN point -> Score] :
        \A q \in DOMAIN point :
            LET w == point[q].vector
            IN  w.url = v.url /\ w.model = v.model =>
                    score[q] = Similarity[<<v.text, w.text>>]}

\* _vector_recall: the nearest points whose products the catalog has.
Recalled(r, ranking) ==
    LET nearest == FirstOf(ranking, RecallTopN)
    IN  Subsequence(nearest, {i \in DOMAIN nearest : nearest[i] \in DOMAIN r.catalog})

\* The recall, the reranking and the filtering of one search.
FinishSearch(p) ==
    LET s == search[p].query
        v == search[p].vector
        searchable == collection # None /\ Width(v) = collection
    IN  /\ search[p] # None
        /\ search' = [search EXCEPT ![p] = None]
        /\ \/ /\ searchable
              /\ \E score \in Cosines(v) : \E ranking \in Ranked(DOMAIN point, score) :
                    LET candidates == Recalled(release[p], ranking)
                    IN  IF candidates = << >>
                        THEN KeywordAnswer(p, s)
                        ELSE IF ~release[p].reranker
                        THEN Answer(p, s, v, "embedding_only", candidates, candidates, None)
                        ELSE \E response \in Response :
                            IF Valid(response, Len(candidates))
                            THEN Answer(p, s, v, "embedding_rerank", candidates,
                                        Reranked(candidates, response), response)
                            ELSE Answer(p, s, v, "embedding_only", candidates,
                                        candidates, None)
              /\ UNCHANGED faults
           \/ ~searchable /\ KeywordAnswer(p, s) /\ UNCHANGED faults
           \/ searchable /\ Fault /\ KeywordAnswer(p, s)
        /\ UNCHANGED <<indexVars, cached, bootVars, searches, starts>>

-----------------------------------------------------------------------------
Startup(p) ==
    \/ ReadFingerprints(p) \/ EmbedPending(p) \/ CheckCollection(p)
    \/ CreateCollection(p) \/ Upsert(p)

Next ==
    \/ \E p \in Process :
        \/ Start(p) \/ Startup(p) \/ Halt(p)
        \/ \E s \in Query : BeginSearch(p, s)
        \/ FinishSearch(p)
    \/ ExpireVector

Spec == Init /\ [][Next]_vars

-----------------------------------------------------------------------------
Point == [vector : Vector, fingerprint : Vector \cup {None}]

\* The variables hold what the code keeps in them, and a process that starts
\* up has vectors for exactly the products it still has to write.
TypeOK ==
    /\ collection \in {Width(v) : v \in Vector} \cup {None}
    /\ DOMAIN point \subseteq Product
    /\ \A q \in DOMAIN point : point[q] \in Point
    /\ collection = None => point = << >>
    /\ \A k \in DOMAIN cached : cached[k] \in Vector
    /\ release \in [Process -> Release \cup {None}]
    /\ pc \in [Process -> Step]
    /\ pending \in [Process -> SUBSET Product]
    /\ DOMAIN vectors = Process
    /\ search \in [Process -> [query : Query, vector : Vector] \cup {None}]
    /\ \A p \in Process :
        /\ release[p] = None <=> pc[p] = "down"
        /\ pending[p] # {} => pending[p] \subseteq DOMAIN Catalog(p)
        /\ pc[p] \in {"exists", "create", "upsert"} =>
            vectors[p] \in [pending[p] -> Vector]
        /\ pc[p] \in {"embed", "exists", "create", "upsert"} <=> pending[p] # {}
        /\ pc[p] = "upsert" => collection # None
        /\ search[p] # None => pc[p] = "serving"
    /\ indexed \in [Process -> BOOLEAN \cup {None}]
    /\ disturbed \in [Process -> BOOLEAN]
    /\ DOMAIN answer = Process
    /\ starts \in 0..MaxStarts /\ searches \in 0..MaxSearches
    /\ faults \in 0..MaxFaults

\* No endpoint but this vector's offers a model of that name.
OneEndpoint(v) == \A r \in Release : r.model = v.model => r.url = v.url

\* A point's fingerprint tells what its vector was computed from: whichever
\* release wrote it and whatever the cache held, the model and the text are
\* those, and so is the endpoint unless another release had a model of the
\* same name elsewhere.  (index_bootstrap.py:50 trusts it to skip the product.)
FingerprintTellsVector ==
    \A q \in DOMAIN point :
        LET v == point[q].vector
            f == point[q].fingerprint
        IN  f # None => /\ v.model = f.model /\ v.text = f.text
                        /\ OneEndpoint(f) => v.url = f.url

\* When bootstrap_product_index has returned True, every product of the
\* catalog has a point of this release's model and text: what it skipped was
\* current and what it wrote is there, however the startups of several
\* processes overlapped, until another release writes to the index.
BootstrapLeavesCurrentIndex ==
    \A p \in Process :
        pc[p] = "serving" /\ indexed[p] = TRUE /\ ~disturbed[p]
            => \A q \in DOMAIN Catalog(p) :
                q \in DOMAIN point /\ point[q].fingerprint = Fingerprint(release[p], q)

Shown(a) == Elements(a.hits)
VectorAnswer(a) == a.strategy \in {"embedding_only", "embedding_rerank"}

\* After such a bootstrap a search compares like with like: the vectors it
\* ranks are those of the products' present texts, by the model its query was
\* embedded with ("Indexing and querying must use the same embedding model",
\* docs/chapter-12.en.md:121).
RecallComparesLike ==
    \A p \in Process :
        answer[p] # None /\ VectorAnswer(answer[p]) /\ answer[p].settled =>
            \A q \in DOMAIN answer[p].compared :
                LET v == answer[p].compared[q]
                IN  /\ v.model = answer[p].vector.model
                    /\ v.text = Catalog(p)[q].text

\* What an answer shows meets its query's constraints; a settled one by vectors
\* that shows less than top_k products shows all that do.
Complete(r, a) ==
    LET fitting == {q \in DOMAIN r.catalog : RejectedReason(r, q, a.query) = None}
    IN  /\ Shown(a) \subseteq fitting
        /\ /\ VectorAnswer(a) /\ a.settled /\ ~a.crowded
           /\ Len(a.hits) < a.query.topK
           => Shown(a) = fitting

\* After such a bootstrap a search by vectors that shows less than top_k
\* products shows every product that meets the spec's constraints, unless the
\* index has more points than the recall takes (those of products that left
\* the catalog stay in it); and it never shows one that does not meet them.
NothingThatFitsIsMissed ==
    \A p \in Process : answer[p] # None => Complete(release[p], answer[p])

\* The places of the recalled products that meet the constraints.
FittingPlaces(r, a) ==
    {k \in DOMAIN a.recalled : RejectedReason(r, a.recalled[k], a.query) = None}

\* Where the rerank service speaks of the k-th document.
Given(a, k) == {i \in DOMAIN a.response : a.response[i].index = k - 1}

\* Whichever place is better than that of a hit is shown before it.
BestFirst(a, better) ==
    \A i \in DOMAIN a.hits : \A pair \in better :
        a.recalled[pair[2]] = a.hits[i]
            => a.recalled[pair[1]] \in Elements(FirstOf(a.hits, i - 1))

Honest(r, a) ==
    LET places == FittingPlaces(r, a) \X FittingPlaces(r, a)
    IN  IF a.response = None
        THEN /\ a.strategy = "embedding_only"
             /\ BestFirst(a, {pair \in places : pair[1] < pair[2]})
        ELSE /\ a.strategy = "embedding_rerank"
             /\ \A k \in DOMAIN a.recalled : Cardinality(Given(a, k)) = 1
             /\ BestFirst(a, {pair \in places :
                    \E x \in Given(a, pair[1]), y \in Given(a, pair[2]) :
                        a.response[x].score > a.response[y].score})

\* A reply that says it was reranked shows the products that the rerank service
\* scored best among those that fit, by the scores it gave these very products,
\* each exactly one; whatever else the service answers leaves the order of the
\* vectors ("Fallback never ... reports reranking that did not happen.
\* Reranker failure preserves vector order", docs/chapter-13.en.md:152).
RerankingIsHonest ==
    \A p \in Process :
        answer[p] # None /\ VectorAnswer(answer[p]) => Honest(release[p], answer[p])

=============================================================================
