----------------------- MODULE ProductSearch_proofs -----------------------
(***************************************************************************)
(* Proofs about ProductSearch, for any processes, releases, catalogs,      *)
(* embedding models, queries, answers of the rerank service and number of  *)
(* failures: what a point's fingerprint says, what a bootstrap that        *)
(* returned True leaves, what a search compares, and what it shows in      *)
(* which order.                                                            *)
(***************************************************************************)
EXTENDS ProductSearch, Lists_proofs, SequenceTheorems, TLAPS

Unfinished == {"embed", "exists", "create", "upsert"}

\* A cached vector is one of the text and by a model of the name in its key.
KeyTellsVector ==
    \A k \in DOMAIN cached : k = <<cached[k].model, cached[k].text>>

\* A vector that is about to be written is one of its product's text, by a
\* model of the release's name.
PendingMatch ==
    \A p \in Process : pc[p] \in {"exists", "create", "upsert"} =>
        \A q \in pending[p] :
            /\ vectors[p][q].model = release[p].model
            /\ vectors[p][q].text = Catalog(p)[q].text

\* Until another release writes, what a startup has skipped is up to date, and
\* so is everything once it has returned True.
RestIsCurrent ==
    \A p \in Process :
        /\ pc[p] \in Unfinished \/ (pc[p] = "serving" /\ indexed[p] = TRUE)
        /\ ~ disturbed[p]
        => \A q \in DOMAIN Catalog(p) \ pending[p] : UpToDate(release[p], q)

IInv == TypeOK /\ KeyTellsVector /\ PendingMatch /\ FingerprintTellsVector /\ RestIsCurrent

-----------------------------------------------------------------------------
(* Vectors and the embedding cache                                          *)

\* The vector an endpoint computes.
LEMMA EmbeddingType ==
    ASSUME NEW r \in Release, NEW t \in Text
    PROVE  /\ Embedding(r, t) \in Vector
           /\ Embedding(r, t).url = r.url
           /\ Embedding(r, t).model = r.model
           /\ Embedding(r, t).text = t
BY DEF Embedding, Vector

\* The texts of a catalog.
LEMMA CatalogText ==
    ASSUME NEW r \in Release, NEW q \in DOMAIN r.catalog
    PROVE  q \in Product /\ r.catalog[q].text \in Text
BY ProductSearchAssumption

\* embed_batch returns a vector of each text by a model of the release's name,
\* cached or computed.
LEMMA BatchTells ==
    ASSUME TypeOK, KeyTellsVector, NEW r \in Release, NEW texts \in SUBSET Text,
           NEW reachable \in BOOLEAN, NEW t \in texts
    PROVE  LET v == EmbedBatch(r, texts, Found(r, texts, reachable))[t]
           IN  v \in Vector /\ v.model = r.model /\ v.text = t
<1> DEFINE found == Found(r, texts, reachable)
<1>1. CASE t \in found
  <2>1. CacheKey(r, t) \in DOMAIN cached
    BY <1>1 DEF Found
  <2>2. cached[CacheKey(r, t)] \in Vector
    BY <2>1 DEF TypeOK
  <2>3. <<r.model, t>> = <<cached[CacheKey(r, t)].model, cached[CacheKey(r, t)].text>>
    BY <2>1 DEF KeyTellsVector, CacheKey
  <2>4. EmbedBatch(r, texts, found)[t] = cached[CacheKey(r, t)]
    BY <1>1 DEF EmbedBatch
  <2> QED
    BY <2>2, <2>3, <2>4
<1>2. CASE t \notin found
  <2>1. EmbedBatch(r, texts, found)[t] = Embedding(r, t)
    BY <1>2 DEF EmbedBatch
  <2> QED
    BY <2>1, EmbeddingType
<1> QED
  BY <1>1, <1>2

\* What is saved keeps the cache's keys true.
LEMMA SavedTells ==
    ASSUME TypeOK, KeyTellsVector, NEW r \in Release, NEW texts \in SUBSET Text,
           NEW k \in DOMAIN Saved(r, texts)
    PROVE  LET v == Saved(r, texts)[k] IN v \in Vector /\ k = <<v.model, v.text>>
<1> DEFINE fresh == {CacheKey(r, t) : t \in texts}
<1>0. k \in DOMAIN cached \cup fresh
  BY DEF Saved
<1>1. CASE k \in fresh
  <2>1. PICK t \in texts : k = <<r.model, t>>
    BY <1>1 DEF CacheKey
  <2>2. Saved(r, texts)[k] = Embedding(r, t)
    BY <1>1, <2>1 DEF Saved
  <2> QED
    BY <2>1, <2>2, EmbeddingType
<1>2. CASE k \notin fresh
  <2>1. k \in DOMAIN cached /\ Saved(r, texts)[k] = cached[k]
    BY <1>0, <1>2 DEF Saved
  <2> QED
    BY <2>1 DEF TypeOK, KeyTellsVector
<1> QED
  BY <1>1, <1>2

\* A vector whose model's name only one endpoint offers comes from there.
LEMMA SameEndpoint ==
    ASSUME NEW v \in Vector, NEW f \in Vector, v.model = f.model, OneEndpoint(f)
    PROVE  v.url = f.url
BY DEF Vector, Embedding, OneEndpoint

-----------------------------------------------------------------------------
\* The initial states satisfy the inductive invariant.
LEMMA InitIInv == Init => IInv
<1> SUFFICES ASSUME Init PROVE IInv
  OBVIOUS
<1>0. PICK i \in Initially : collection = i.size /\ point = i.points
  BY DEF Init
<1>1. \A q \in DOMAIN point : \E v \in Vector : \E f \in {v, None} :
          point[q] = [vector |-> v, fingerprint |-> f]
  BY <1>0, ProductSearchAssumption
<1>2. TypeOK
  <2>1. /\ collection \in {Width(v) : v \in Vector} \cup {None}
        /\ DOMAIN point \subseteq Product
        /\ collection = None => point = << >>
    BY <1>0, ProductSearchAssumption
  <2>2. \A q \in DOMAIN point : point[q] \in Point
    BY <1>1 DEF Point
  <2> QED
    BY <2>1, <2>2, ProductSearchAssumption DEF Init, TypeOK, Step
<1>3. FingerprintTellsVector
  <2> SUFFICES ASSUME NEW q \in DOMAIN point, point[q].fingerprint # None
               PROVE  point[q].vector = point[q].fingerprint
    BY DEF FingerprintTellsVector
  <2> QED
    BY <1>1
<1> QED
  BY <1>2, <1>3 DEF Init, IInv, KeyTellsVector, PendingMatch, RestIsCurrent, Unfinished

\* What the end of a bootstrap does to the startup's variables.
LEMMA BootstrappedType ==
    ASSUME TypeOK, NEW p \in Process, NEW result \in BOOLEAN,
           pc[p] # "down", search[p] = None, Bootstrapped(p, result)
    PROVE  /\ pc' \in [Process -> Step] /\ indexed' \in [Process -> BOOLEAN \cup {None}]
           /\ pending' \in [Process -> SUBSET Product] /\ DOMAIN vectors' = Process
           /\ \A x \in Process :
                /\ release'[x] = None <=> pc'[x] = "down"
                /\ pending'[x] # {} => pending'[x] \subseteq DOMAIN Catalog(x)'
                /\ pc'[x] \in {"exists", "create", "upsert"} =>
                    vectors'[x] \in [pending'[x] -> Vector]
                /\ pc'[x] \in Unfinished <=> pending'[x] # {}
                /\ pc'[x] = "upsert" => pc[x] = "upsert"
                /\ search'[x] # None => pc'[x] = "serving"
<1>1. /\ pc' \in [Process -> Step] /\ indexed' \in [Process -> BOOLEAN \cup {None}]
      /\ pending' \in [Process -> SUBSET Product] /\ DOMAIN vectors' = Process
  BY DEF TypeOK, Bootstrapped, Step
<1>2. ASSUME NEW x \in Process
      PROVE  /\ release'[x] = None <=> pc'[x] = "down"
             /\ pending'[x] # {} => pending'[x] \subseteq DOMAIN Catalog(x)'
             /\ pc'[x] \in {"exists", "create", "upsert"} =>
                 vectors'[x] \in [pending'[x] -> Vector]
             /\ pc'[x] \in Unfinished <=> pending'[x] # {}
             /\ pc'[x] = "upsert" => pc[x] = "upsert"
             /\ search'[x] # None => pc'[x] = "serving"
  <2>1. CASE x = p
    <3>1. /\ pc'[x] = "serving" /\ pending'[x] = {}
          /\ release' = release /\ search' = search
      BY <2>1 DEF TypeOK, Bootstrapped, searchVars
    <3> QED
      BY <2>1, <3>1 DEF TypeOK, Unfinished
  <2>2. CASE x # p
    <3>1. /\ pc'[x] = pc[x] /\ pending'[x] = pending[x] /\ vectors'[x] = vectors[x]
          /\ release' = release /\ search' = search
      BY <2>2 DEF TypeOK, Bootstrapped, searchVars
    <3> QED
      BY <3>1 DEF TypeOK, Unfinished, Catalog
  <2> QED
    BY <2>1, <2>2
<1> QED
  BY <1>1, <1>2

\* ... and to what the invariant says of them.
LEMMA BootstrappedStep ==
    ASSUME IInv, NEW p \in Process, NEW result \in BOOLEAN,
           pc[p] # "down", search[p] = None, Bootstrapped(p, result),
           faults' \in 0..MaxFaults, UNCHANGED indexVars,
           disturbed' \in [Process -> BOOLEAN],
           \A x \in Process \ {p} : disturbed'[x] = disturbed[x],
           \A k \in DOMAIN cached' : /\ cached'[k] \in Vector
                                     /\ k = <<cached'[k].model, cached'[k].text>>,
           result = FALSE \/ disturbed'[p] \/ \A q \in DOMAIN Catalog(p) : UpToDate(release[p], q)
    PROVE  IInv'
<1>1. TypeOK'
  <2>1. /\ UNCHANGED <<collection, point, release, search, answer, starts, searches>>
        /\ pc'[p] = "serving"
    BY DEF indexVars, Bootstrapped, searchVars, IInv, TypeOK
  <2>2. TypeOK
    BY DEF IInv
  <2> QED
    BY <2>1, <2>2, BootstrappedType DEF TypeOK, Unfinished
<1>2. KeyTellsVector'
  BY DEF KeyTellsVector
<1>3. PendingMatch'
  BY DEF IInv, TypeOK, PendingMatch, Bootstrapped, Catalog
<1>4. FingerprintTellsVector'
  BY DEF IInv, FingerprintTellsVector, indexVars, OneEndpoint
<1>5. RestIsCurrent'
  <2> SUFFICES ASSUME NEW x \in Process, ~ disturbed'[x],
                      pc'[x] \in Unfinished \/ (pc'[x] = "serving" /\ indexed'[x] = TRUE),
                      NEW q \in (DOMAIN Catalog(x) \ pending[x])'
               PROVE  UpToDate(release[x], q)'
    BY DEF RestIsCurrent, Bootstrapped
  <2>1. UpToDate(release[x], q)' <=> UpToDate(release[x], q)
    BY DEF UpToDate, Fingerprint, indexVars, Bootstrapped
  <2>2. CASE x = p
    <3>1. result = TRUE
      BY <2>2 DEF Bootstrapped, Unfinished, IInv, TypeOK
    <3> QED
      BY <2>1, <2>2, <3>1 DEF Bootstrapped, Catalog
  <2>3. CASE x # p
    BY <2>1, <2>3 DEF IInv, TypeOK, RestIsCurrent, Bootstrapped, Catalog
  <2> QED
    BY <2>2, <2>3
<1> QED
  BY <1>1, <1>2, <1>3, <1>4, <1>5 DEF IInv

\* A step that leaves startups and points alone.
LEMMA SearchingStep ==
    ASSUME IInv, UNCHANGED <<indexVars, bootVars, starts>>,
           search' \in [Process -> [query : Query, vector : Vector] \cup {None}],
           \A x \in Process : search'[x] # None => pc[x] = "serving",
           DOMAIN answer' = Process,
           searches' \in 0..MaxSearches, faults' \in 0..MaxFaults,
           \A k \in DOMAIN cached' : /\ cached'[k] \in Vector
                                     /\ k = <<cached'[k].model, cached'[k].text>>
    PROVE  IInv'
<1>0. TypeOK'
  BY DEF IInv, TypeOK, indexVars, bootVars, Catalog
<1>1. KeyTellsVector' /\ PendingMatch'
  BY DEF IInv, KeyTellsVector, PendingMatch, bootVars, Catalog
<1>2. FingerprintTellsVector'
  BY DEF IInv, FingerprintTellsVector, indexVars, OneEndpoint
<1>3. RestIsCurrent'
  BY DEF IInv, RestIsCurrent, UpToDate, Fingerprint, indexVars, bootVars, Catalog
<1> QED
  BY <1>0, <1>1, <1>2, <1>3 DEF IInv

-----------------------------------------------------------------------------
(* Starting and stopping                                                    *)

\* A fault is within its bound.
LEMMA FaultType == TypeOK /\ Fault => faults' \in 0..MaxFaults
BY ProductSearchAssumption DEF TypeOK, Fault, CanFail

\* What an action of a startup finds.
LEMMA StartingUp ==
    ASSUME TypeOK, NEW p \in Process, pc[p] \in {"fingerprints"} \cup Unfinished
    PROVE  pc[p] # "down" /\ release[p] \in Release /\ search[p] = None
BY DEF TypeOK, Unfinished

\* A process is started.
LEMMA StartStep == ASSUME IInv, NEW p \in Process, Start(p) PROVE IInv'
<1>1. TypeOK'
  <2>1. TypeOK
    BY DEF IInv
  <2>2. starts' \in 0..MaxStarts
    BY <2>1, ProductSearchAssumption DEF TypeOK, Start
  <2>3. CASE Fault /\ UNCHANGED <<release, pc>>
    BY <2>1, <2>2, <2>3, FaultType DEF TypeOK, Start, indexVars, searchVars, Catalog
  <2>4. ASSUME NEW r \in Release, release' = [release EXCEPT ![p] = r],
               pc' = [pc EXCEPT ![p] = "fingerprints"], UNCHANGED faults
        PROVE  TypeOK'
    <3>1. pending[p] = {} /\ search[p] = None
      BY <2>1 DEF TypeOK, Start
    <3> QED
      BY <2>1, <2>2, <2>4, <3>1, ProductSearchAssumption
      DEF TypeOK, Start, indexVars, searchVars, Catalog, Step
  <2> QED
    BY <2>3, <2>4 DEF Start
<1>2. KeyTellsVector' /\ PendingMatch'
  BY DEF IInv, TypeOK, KeyTellsVector, PendingMatch, Start, Catalog
<1>3. FingerprintTellsVector'
  BY DEF IInv, FingerprintTellsVector, Start, indexVars, OneEndpoint
<1>4. RestIsCurrent'
  BY DEF IInv, TypeOK, RestIsCurrent, UpToDate, Fingerprint, Start, indexVars, Catalog, Unfinished
<1> QED
  BY <1>1, <1>2, <1>3, <1>4 DEF IInv

\* A process stops or dies.
LEMMA HaltStep == ASSUME IInv, NEW p \in Process, Halt(p) PROVE IInv'
<1>1. TypeOK'
  <2>1. TypeOK
    BY DEF IInv
  <2>2. /\ pc' \in [Process -> Step] /\ indexed' \in [Process -> BOOLEAN \cup {None}]
        /\ release' \in [Process -> Release \cup {None}]
        /\ disturbed' \in [Process -> BOOLEAN]
        /\ pending' \in [Process -> SUBSET Product] /\ DOMAIN vectors' = Process
        /\ search' \in [Process -> [query : Query, vector : Vector] \cup {None}]
    BY <2>1 DEF TypeOK, Halt, Step
  <2>3. ASSUME NEW x \in Process
        PROVE  /\ release'[x] = None <=> pc'[x] = "down"
               /\ pending'[x] # {} => pending'[x] \subseteq DOMAIN Catalog(x)'
               /\ pc'[x] \in {"exists", "create", "upsert"} =>
                   vectors'[x] \in [pending'[x] -> Vector]
               /\ pc'[x] \in {"embed", "exists", "create", "upsert"} <=> pending'[x] # {}
               /\ pc'[x] = "upsert" => collection # None
               /\ search'[x] # None => pc'[x] = "serving"
    <3>1. CASE x = p
      <4>1. /\ pc'[x] = "down" /\ pending'[x] = {}
            /\ release'[x] = None /\ search'[x] = None
        BY <2>1, <3>1 DEF TypeOK, Halt
      <4> QED
        BY <4>1
    <3>2. CASE x # p
      <4>1. /\ pc'[x] = pc[x] /\ pending'[x] = pending[x] /\ vectors'[x] = vectors[x]
            /\ release'[x] = release[x] /\ search'[x] = search[x]
        BY <3>2 DEF Halt
      <4> QED
        BY <2>1, <4>1 DEF TypeOK, Catalog
    <3> QED
      BY <3>1, <3>2
  <2> QED
    BY <2>1, <2>2, <2>3 DEF TypeOK, Halt, indexVars
<1>2. KeyTellsVector' /\ PendingMatch'
  BY DEF IInv, TypeOK, KeyTellsVector, PendingMatch, Halt, Catalog
<1>3. FingerprintTellsVector'
  BY DEF IInv, FingerprintTellsVector, Halt, indexVars, OneEndpoint
<1>4. RestIsCurrent'
  BY DEF IInv, TypeOK, RestIsCurrent, UpToDate, Fingerprint, Halt, indexVars, Catalog, Unfinished
<1> QED
  BY <1>1, <1>2, <1>3, <1>4 DEF IInv

\* A cached vector is gone.
LEMMA ExpireStep == ASSUME IInv, ExpireVector PROVE IInv'
<1>1. PICK k \in DOMAIN cached : cached' = [l \in DOMAIN cached \ {k} |-> cached[l]]
  BY DEF ExpireVector
<1>2. TypeOK'
  BY <1>1 DEF IInv, TypeOK, ExpireVector, indexVars, bootVars, searchVars, Catalog
<1>3. KeyTellsVector'
  BY <1>1 DEF IInv, KeyTellsVector
<1>4. PendingMatch'
  BY DEF IInv, PendingMatch, ExpireVector, bootVars, Catalog
<1>5. FingerprintTellsVector'
  BY DEF IInv, FingerprintTellsVector, ExpireVector, indexVars, OneEndpoint
<1>6. RestIsCurrent'
  BY DEF IInv, RestIsCurrent, UpToDate, Fingerprint, ExpireVector, indexVars, bootVars, Catalog
<1> QED
  BY <1>2, <1>3, <1>4, <1>5, <1>6 DEF IInv

-----------------------------------------------------------------------------
(* The steps of a bootstrap                                                 *)

\* A cache that is left alone still tells its vectors.
LEMMA SameCache ==
    ASSUME IInv, UNCHANGED cached, NEW k \in DOMAIN cached'
    PROVE  cached'[k] \in Vector /\ k = <<cached'[k].model, cached'[k].text>>
BY DEF IInv, TypeOK, KeyTellsVector

\* A call of the bootstrap fails.
LEMMA FailsStep ==
    ASSUME IInv, NEW p \in Process, pc[p] \in {"fingerprints"} \cup Unfinished,
           BootstrapFails(p),
           \A k \in DOMAIN cached' : /\ cached'[k] \in Vector
                                     /\ k = <<cached'[k].model, cached'[k].text>>
    PROVE  IInv'
<1>1. pc[p] # "down" /\ search[p] = None /\ faults' \in 0..MaxFaults
  BY StartingUp, FaultType DEF IInv, BootstrapFails
<1>2. Bootstrapped(p, FALSE) /\ UNCHANGED <<indexVars, disturbed>>
  BY DEF BootstrapFails
<1>3. disturbed' \in [Process -> BOOLEAN]
  BY <1>2 DEF IInv, TypeOK
<1> QED
  BY <1>1, <1>2, <1>3, BootstrappedStep

\* A process moves on to the next call of its bootstrap: what that leaves to
\* check, when only its own part of the startup's variables changes.
LEMMA MovesOnStep ==
    ASSUME IInv, NEW p \in Process, pc[p] \in {"fingerprints"} \cup Unfinished,
           NEW step \in Unfinished, pc' = [pc EXCEPT ![p] = step],
           NEW todo \in SUBSET Product, pending' = [pending EXCEPT ![p] = todo],
           todo # {}, todo \subseteq DOMAIN Catalog(p),
           DOMAIN vectors' = Process,
           \A x \in Process \ {p} : vectors'[x] = vectors[x] /\ disturbed'[x] = disturbed[x],
           disturbed' \in [Process -> BOOLEAN],
           step \in {"exists", "create", "upsert"} =>
                /\ vectors'[p] \in [todo -> Vector]
                /\ \A q \in todo : /\ vectors'[p][q].model = release[p].model
                                   /\ vectors'[p][q].text = Catalog(p)[q].text,
           collection' \in {Width(v) : v \in Vector} \cup {None},
           collection' = None => collection = None,
           step = "upsert" => collection' # None,
           ~ disturbed'[p] => \A q \in DOMAIN Catalog(p) \ todo : UpToDate(release[p], q),
           UNCHANGED <<point, release, indexed, searchVars, starts, faults>>,
           \A k \in DOMAIN cached' : /\ cached'[k] \in Vector
                                     /\ k = <<cached'[k].model, cached'[k].text>>
    PROVE  IInv'
<1>0. TypeOK
  BY DEF IInv
<1>1. TypeOK'
  <2>1. ASSUME NEW x \in Process
        PROVE  /\ release'[x] = None <=> pc'[x] = "down"
               /\ pending'[x] # {} => pending'[x] \subseteq DOMAIN Catalog(x)'
               /\ pc'[x] \in {"exists", "create", "upsert"} =>
                   vectors'[x] \in [pending'[x] -> Vector]
               /\ pc'[x] \in {"embed", "exists", "create", "upsert"} <=> pending'[x] # {}
               /\ pc'[x] = "upsert" => collection' # None
               /\ search'[x] # None => pc'[x] = "serving"
    <3>1. CASE x = p
      <4>1. pc'[x] = step /\ pending'[x] = todo /\ release'[x] # None /\ search'[x] = None
        BY <1>0, <3>1, StartingUp, ProductSearchAssumption DEF TypeOK, searchVars
      <4> QED
        BY <3>1, <4>1 DEF Catalog, Unfinished
    <3>2. CASE x # p
      <4>1. /\ pc'[x] = pc[x] /\ pending'[x] = pending[x] /\ vectors'[x] = vectors[x]
            /\ release'[x] = release[x] /\ search'[x] = search[x]
        BY <3>2 DEF searchVars
      <4> QED
        BY <1>0, <4>1 DEF TypeOK, Catalog
    <3> QED
      BY <3>1, <3>2
  <2>2. pc' \in [Process -> Step] /\ pending' \in [Process -> SUBSET Product]
    BY <1>0 DEF TypeOK, Unfinished, Step
  <2>3. /\ collection' = None => point' = << >>
        /\ DOMAIN point' \subseteq Product
        /\ \A q \in DOMAIN point' : point'[q] \in Point
    BY <1>0 DEF TypeOK
  <2> QED
    BY <1>0, <2>1, <2>2, <2>3 DEF TypeOK, searchVars
<1>2. KeyTellsVector'
  BY DEF KeyTellsVector
<1>3. PendingMatch'
  BY <1>0 DEF IInv, TypeOK, PendingMatch, Catalog
<1>4. FingerprintTellsVector'
  BY DEF IInv, FingerprintTellsVector, OneEndpoint
<1>5. RestIsCurrent'
  <2> SUFFICES ASSUME NEW x \in Process, ~ disturbed'[x],
                      pc'[x] \in Unfinished \/ (pc'[x] = "serving" /\ indexed[x] = TRUE),
                      NEW q \in DOMAIN Catalog(x) \ pending'[x]
               PROVE  UpToDate(release[x], q)
    BY DEF RestIsCurrent, Catalog, UpToDate, Fingerprint
  <2>1. CASE x = p
    BY <1>0, <2>1 DEF TypeOK
  <2>2. CASE x # p
    <3>1. ~ disturbed[x] /\ pc'[x] = pc[x] /\ pending'[x] = pending[x]
      BY <1>0, <2>2 DEF TypeOK
    <3> QED
      BY <3>1 DEF IInv, RestIsCurrent
  <2> QED
    BY <2>1, <2>2
<1> QED
  BY <1>1, <1>2, <1>3, <1>4, <1>5 DEF IInv

\* The fingerprints are read.
LEMMA ReadFingerprintsStep == ASSUME IInv, NEW p \in Process, ReadFingerprints(p) PROVE IInv'
<1> DEFINE r == release[p]
<1>0. /\ TypeOK /\ r \in Release /\ pc[p] = "fingerprints"
      /\ pc[p] # "down" /\ search[p] = None
  BY StartingUp DEF IInv, ReadFingerprints
<1>a. /\ UNCHANGED <<indexVars, cached>>
      /\ disturbed' \in [Process -> BOOLEAN]
      /\ \A x \in Process \ {p} : disturbed'[x] = disturbed[x]
  BY <1>0 DEF ReadFingerprints, TypeOK
<1>1. CASE Outdated(r) = {} /\ Bootstrapped(p, DOMAIN Catalog(p) # {}) /\ UNCHANGED faults
  <2>1. \A q \in DOMAIN Catalog(p) : UpToDate(release[p], q)
    BY <1>1 DEF Outdated, Catalog
  <2> DEFINE result == DOMAIN Catalog(p) # {}
  <2>2. result \in BOOLEAN /\ Bootstrapped(p, result)
    BY <1>1
  <2>3. faults' \in 0..MaxFaults
    BY <1>0, <1>1 DEF TypeOK
  <2> HIDE DEF result
  <2> QED
    BY <1>0, <1>a, <2>1, <2>2, <2>3, SameCache, BootstrappedStep
<1>2. CASE /\ Outdated(r) # {}
           /\ pending' = [pending EXCEPT ![p] = Outdated(r)]
           /\ pc' = [pc EXCEPT ![p] = "embed"]
           /\ UNCHANGED <<release, vectors, indexed, searchVars, starts, faults>>
  <2>1. Outdated(r) \in SUBSET Product /\ Outdated(r) \subseteq DOMAIN Catalog(p)
    BY <1>0, CatalogText DEF Outdated, Catalog
  <2>2. \A q \in DOMAIN Catalog(p) \ Outdated(r) : UpToDate(release[p], q)
    BY DEF Outdated, Catalog
  <2>3. UNCHANGED <<collection, point>>
    BY <1>a DEF indexVars
  <2>4. DOMAIN vectors' = Process /\ collection' \in {Width(v) : v \in Vector} \cup {None}
    BY <1>0, <1>2, <2>3 DEF TypeOK
  <2> DEFINE todo == Outdated(r)
  <2>5. pending' = [pending EXCEPT ![p] = todo] /\ todo # {}
    BY <1>2
  <2>6. todo \in SUBSET Product /\ todo \subseteq DOMAIN Catalog(p)
    BY <2>1
  <2>7. \A q \in DOMAIN Catalog(p) \ todo : UpToDate(release[p], q)
    BY <2>2
  <2> HIDE DEF todo
  <2> QED
    BY <1>0, <1>a, <1>2, <2>3, <2>4, <2>5, <2>6, <2>7, SameCache, MovesOnStep DEF Unfinished
<1>3. CASE Fault /\ Bootstrapped(p, FALSE)
  <2>1. faults' \in 0..MaxFaults
    BY <1>0, <1>3, FaultType
  <2> QED
    BY <1>0, <1>a, <1>3, <2>1, SameCache, BootstrappedStep
<1> QED
  BY <1>1, <1>2, <1>3 DEF ReadFingerprints

\* The pending products are embedded.
LEMMA EmbedPendingStep == ASSUME IInv, NEW p \in Process, EmbedPending(p) PROVE IInv'
<1> DEFINE r == release[p]
           texts == PendingTexts(p)
<1>0. /\ TypeOK /\ KeyTellsVector /\ r \in Release /\ pc[p] = "embed"
      /\ pc[p] # "down" /\ search[p] = None
      /\ pending[p] # {} /\ pending[p] \subseteq DOMAIN Catalog(p)
  BY StartingUp DEF IInv, EmbedPending, Unfinished, TypeOK
<1>1. texts \in SUBSET Text
  BY <1>0, CatalogText DEF PendingTexts, Catalog
<1>2. PICK reachable \in BOOLEAN :
        LET found == Found(r, texts, reachable)
            vector == EmbedBatch(r, texts, found)
            computed == {vector[t] : t \in texts}
        IN  \/ /\ cached' = IF reachable THEN Saved(r, texts \ found) ELSE cached
               /\ IF SameWidth(computed)
                  THEN /\ vectors' = [vectors EXCEPT ![p] =
                                        [q \in pending[p] |-> vector[Catalog(p)[q].text]]]
                       /\ pc' = [pc EXCEPT ![p] = "exists"]
                       /\ UNCHANGED <<release, pending, indexed, searchVars, starts>>
                  ELSE Bootstrapped(p, FALSE)
               /\ UNCHANGED <<indexVars, disturbed, faults>>
            \/ /\ found # texts
               /\ BootstrapFails(p) /\ UNCHANGED cached
  BY DEF EmbedPending
<1> DEFINE found == Found(r, texts, reachable)
           vector == EmbedBatch(r, texts, found)
<1>3. CASE /\ cached' = IF reachable THEN Saved(r, texts \ found) ELSE cached
           /\ UNCHANGED <<indexVars, disturbed, faults>>
           /\ \/ /\ vectors' = [vectors EXCEPT ![p] =
                                  [q \in pending[p] |-> vector[Catalog(p)[q].text]]]
                 /\ pc' = [pc EXCEPT ![p] = "exists"]
                 /\ UNCHANGED <<release, pending, indexed, searchVars, starts>>
              \/ Bootstrapped(p, FALSE)
  <2>1. \A k \in DOMAIN cached' : /\ cached'[k] \in Vector
                                  /\ k = <<cached'[k].model, cached'[k].text>>
    <3>1. CASE reachable
      <4>1. cached' = Saved(r, texts \ found) /\ texts \ found \in SUBSET Text
        BY <1>1, <1>3, <3>1
      <4> QED
        BY <1>0, <4>1, SavedTells
    <3>2. CASE ~ reachable
      BY <1>3, <3>2, SameCache
    <3> QED
      BY <3>1, <3>2
  <2>2. CASE Bootstrapped(p, FALSE)
    <3>1. faults' \in 0..MaxFaults /\ UNCHANGED indexVars /\ UNCHANGED disturbed
      BY <1>0, <1>3 DEF TypeOK
    <3>2. disturbed' \in [Process -> BOOLEAN]
      BY <1>0, <3>1 DEF TypeOK
    <3> QED
      BY <1>0, <2>1, <2>2, <3>1, <3>2, BootstrappedStep
  <2>3. CASE /\ vectors' = [vectors EXCEPT ![p] =
                              [q \in pending[p] |-> vector[Catalog(p)[q].text]]]
             /\ pc' = [pc EXCEPT ![p] = "exists"]
             /\ UNCHANGED <<release, pending, indexed, searchVars, starts>>
    <3>1. /\ vectors'[p] \in [pending[p] -> Vector]
          /\ \A q \in pending[p] : /\ vectors'[p][q].model = r.model
                                   /\ vectors'[p][q].text = Catalog(p)[q].text
      <4>1. vectors'[p] = [q \in pending[p] |-> vector[Catalog(p)[q].text]]
        BY <1>0, <2>3 DEF TypeOK
      <4>2. ASSUME NEW q \in pending[p]
            PROVE  LET v == vector[Catalog(p)[q].text]
                   IN  v \in Vector /\ v.model = r.model /\ v.text = Catalog(p)[q].text
        <5>1. Catalog(p)[q].text \in texts
          BY DEF PendingTexts
        <5> QED
          BY <1>0, <1>1, <5>1, BatchTells
      <4> HIDE DEF vector
      <4> QED
        BY <4>1, <4>2
    <3>2. /\ DOMAIN vectors' = Process
          /\ \A x \in Process \ {p} : vectors'[x] = vectors[x]
      <4> HIDE DEF vector
      <4> QED
        BY <1>0, <2>3 DEF TypeOK
    <3>3. /\ pending' = [pending EXCEPT ![p] = pending[p]]
          /\ pending[p] \in SUBSET Product
          /\ disturbed' \in [Process -> BOOLEAN]
      BY <1>0, <1>3, <2>3 DEF TypeOK
    <3>4. UNCHANGED <<collection, point, disturbed>>
      BY <1>3 DEF indexVars
    <3>5. collection \in {Width(v) : v \in Vector} \cup {None}
      BY <1>0 DEF TypeOK
    <3>6. ~ disturbed'[p] => \A q \in DOMAIN Catalog(p) \ pending[p] : UpToDate(release[p], q)
      BY <1>0, <3>4 DEF IInv, RestIsCurrent, Unfinished
    <3> HIDE DEF vector, texts, found
    <3>7. UNCHANGED <<release, indexed, searchVars, starts, faults>>
      BY <1>3, <2>3
    <3> QED
      BY <1>0, <2>1, <2>3, <3>1, <3>2, <3>3, <3>4, <3>5, <3>6, <3>7, MovesOnStep DEF Unfinished
  <2> QED
    BY <1>3, <2>2, <2>3
<1>4. CASE BootstrapFails(p) /\ UNCHANGED cached
  BY <1>0, <1>4, SameCache, FailsStep DEF Unfinished
<1> QED
  BY <1>2, <1>3, <1>4

\* Is there a collection?
LEMMA CheckCollectionStep == ASSUME IInv, NEW p \in Process, CheckCollection(p) PROVE IInv'
<1>0. /\ TypeOK /\ pc[p] = "exists" /\ UNCHANGED cached
      /\ pending[p] # {} /\ pending[p] \subseteq DOMAIN Catalog(p)
      /\ pending[p] \in SUBSET Product
  BY DEF IInv, CheckCollection, TypeOK
<1>1. CASE BootstrapFails(p)
  BY <1>0, <1>1, SameCache, FailsStep DEF Unfinished
<1>2. CASE /\ pc' = [pc EXCEPT ![p] = IF collection = None THEN "create" ELSE "upsert"]
           /\ UNCHANGED <<indexVars, release, pending, vectors, indexed, disturbed,
                          searchVars, starts, faults>>
  <2> DEFINE step == IF collection = None THEN "create" ELSE "upsert"
  <2>1. step \in Unfinished /\ (step = "upsert" => collection # None)
    BY DEF Unfinished
  <2>2. /\ pending' = [pending EXCEPT ![p] = pending[p]]
        /\ UNCHANGED <<collection, point, release, vectors, indexed, disturbed,
                       searchVars, starts, faults>>
    BY <1>0, <1>2 DEF TypeOK, indexVars
  <2>3. /\ DOMAIN vectors = Process /\ disturbed \in [Process -> BOOLEAN]
        /\ vectors[p] \in [pending[p] -> Vector]
        /\ collection \in {Width(v) : v \in Vector} \cup {None}
    BY <1>0 DEF TypeOK
  <2>4. \A q \in pending[p] : /\ vectors[p][q].model = release[p].model
                              /\ vectors[p][q].text = Catalog(p)[q].text
    BY <1>0 DEF IInv, PendingMatch
  <2>5. ~ disturbed[p] => \A q \in DOMAIN Catalog(p) \ pending[p] : UpToDate(release[p], q)
    BY <1>0 DEF IInv, RestIsCurrent, Unfinished
  <2>6. pc' = [pc EXCEPT ![p] = step]
    BY <1>2
  <2> HIDE DEF step
  <2> QED
    BY <1>0, <2>1, <2>2, <2>3, <2>4, <2>5, <2>6, SameCache, MovesOnStep DEF Unfinished
<1> QED
  BY <1>1, <1>2 DEF CheckCollection

\* The collection is created, or another process has just created it.
LEMMA CreateCollectionStep == ASSUME IInv, NEW p \in Process, CreateCollection(p) PROVE IInv'
<1>0. /\ TypeOK /\ pc[p] = "create" /\ UNCHANGED cached
      /\ pc[p] # "down" /\ search[p] = None
      /\ pending[p] # {} /\ pending[p] \subseteq DOMAIN Catalog(p)
      /\ pending[p] \in SUBSET Product
      /\ DOMAIN vectors = Process /\ disturbed \in [Process -> BOOLEAN]
      /\ vectors[p] \in [pending[p] -> Vector]
  BY StartingUp DEF IInv, CreateCollection, TypeOK, Unfinished
<1>1. CASE BootstrapFails(p)
  BY <1>0, <1>1, SameCache, FailsStep DEF Unfinished
<1>2. CASE /\ collection # None /\ Bootstrapped(p, FALSE)
           /\ UNCHANGED <<indexVars, disturbed, faults>>
  <2>1. faults' \in 0..MaxFaults
    BY <1>0, <1>2 DEF TypeOK
  <2> QED
    BY <1>0, <1>2, <2>1, SameCache, BootstrappedStep
<1>3. CASE /\ collection = None
           /\ \E q \in pending[p] : collection' = Width(vectors[p][q])
           /\ pc' = [pc EXCEPT ![p] = "upsert"]
           /\ UNCHANGED <<point, release, pending, vectors, indexed, disturbed,
                          searchVars, starts, faults>>
  <2>1. /\ collection' \in {Width(v) : v \in Vector} \cup {None}
        /\ collection' # None
    BY <1>0, <1>3, ProductSearchAssumption
  <2>2. pending' = [pending EXCEPT ![p] = pending[p]]
    BY <1>0, <1>3 DEF TypeOK
  <2>3. \A q \in pending[p] : /\ vectors[p][q].model = release[p].model
                              /\ vectors[p][q].text = Catalog(p)[q].text
    BY <1>0 DEF IInv, PendingMatch
  <2>4. ~ disturbed[p] => \A q \in DOMAIN Catalog(p) \ pending[p] : UpToDate(release[p], q)
    BY <1>0 DEF IInv, RestIsCurrent, Unfinished
  <2> QED
    BY <1>0, <1>3, <2>1, <2>2, <2>3, <2>4, SameCache, MovesOnStep DEF Unfinished
<1> QED
  BY <1>1, <1>2, <1>3 DEF CreateCollection

\* The points are written, by a call that returns or is taken to have failed.
LEMMA WriteStep ==
    ASSUME IInv, NEW p \in Process, pc[p] = "upsert", UNCHANGED <<collection, cached>>,
           point' = Written(p),
           disturbed' = [x \in Process |->
                disturbed[x] \/ (pc[x] # "down" /\ release[x] # release[p])],
           NEW result \in BOOLEAN, Bootstrapped(p, result), faults' \in 0..MaxFaults
    PROVE  IInv'
<1>0. /\ TypeOK /\ pc[p] # "down" /\ search[p] = None /\ release[p] \in Release
      /\ pending[p] \subseteq DOMAIN Catalog(p) /\ pending[p] # {}
      /\ vectors[p] \in [pending[p] -> Vector]
      /\ collection # None /\ release' = release
  BY StartingUp DEF IInv, TypeOK, Unfinished, Bootstrapped
<1>1. DOMAIN point' = DOMAIN point \cup pending[p]
  BY DEF Written
<1>2. ASSUME NEW q \in pending[p]
      PROVE  /\ point'[q] = [vector |-> vectors[p][q], fingerprint |-> Fingerprint(release[p], q)]
             /\ point'[q].vector = vectors[p][q]
             /\ point'[q].fingerprint = Fingerprint(release[p], q)
             /\ vectors[p][q] \in Vector
             /\ Fingerprint(release[p], q) \in Vector
             /\ vectors[p][q].model = release[p].model
             /\ Fingerprint(release[p], q).model = release[p].model
             /\ vectors[p][q].text = Catalog(p)[q].text
             /\ Fingerprint(release[p], q).text = Catalog(p)[q].text
  <2>1. vectors[p][q].model = release[p].model /\ vectors[p][q].text = Catalog(p)[q].text
    BY DEF IInv, PendingMatch
  <2>2. Catalog(p)[q].text \in Text
    BY <1>0, CatalogText DEF Catalog
  <2>3. Fingerprint(release[p], q) = Embedding(release[p], Catalog(p)[q].text)
    BY DEF Fingerprint, Catalog
  <2>4. point'[q] = [vector |-> vectors[p][q], fingerprint |-> Fingerprint(release[p], q)]
    BY DEF Written
  <2>5. Fingerprint(release[p], q) \in Vector
    BY <1>0, <2>2, <2>3, EmbeddingType
  <2>6. /\ Fingerprint(release[p], q).model = release[p].model
        /\ Fingerprint(release[p], q).text = Catalog(p)[q].text
    BY <1>0, <2>2, <2>3, EmbeddingType
  <2> QED
    BY <1>0, <2>1, <2>4, <2>5, <2>6
<1>3. ASSUME NEW q \in DOMAIN point \ pending[p] PROVE point'[q] = point[q]
  BY DEF Written
<1>4. TypeOK'
  <2>1. DOMAIN point' \subseteq Product
    BY <1>0, <1>1 DEF TypeOK
  <2>2. \A q \in DOMAIN point' : point'[q] \in Point
    BY <1>0, <1>1, <1>2, <1>3 DEF TypeOK, Point
  <2>3. /\ UNCHANGED <<collection, cached, release, search, answer, starts, searches>>
        /\ pc'[p] = "serving" /\ disturbed' \in [Process -> BOOLEAN]
        /\ collection' # None
    BY <1>0 DEF Bootstrapped, searchVars, TypeOK
  <2> QED
    BY <1>0, <2>1, <2>2, <2>3, BootstrappedType DEF TypeOK, Unfinished
<1>5. KeyTellsVector' /\ PendingMatch'
  BY <1>0 DEF IInv, TypeOK, KeyTellsVector, PendingMatch, Bootstrapped, Catalog
<1>6. FingerprintTellsVector'
  <2> SUFFICES ASSUME NEW q \in DOMAIN point', point'[q].fingerprint # None
               PROVE  LET v == point'[q].vector
                          f == point'[q].fingerprint
                      IN  /\ v.model = f.model /\ v.text = f.text
                          /\ OneEndpoint(f) => v.url = f.url
    BY DEF FingerprintTellsVector, OneEndpoint
  <2>1. CASE q \in pending[p]
    <3>1. /\ point'[q].vector \in Vector /\ point'[q].fingerprint \in Vector
          /\ point'[q].vector.model = point'[q].fingerprint.model
          /\ point'[q].vector.text = point'[q].fingerprint.text
      BY <1>2, <2>1
    <3> QED
      BY <3>1, SameEndpoint
  <2>2. CASE q \notin pending[p]
    BY <1>1, <1>3, <2>2 DEF IInv, FingerprintTellsVector
  <2> QED
    BY <2>1, <2>2
<1>7. RestIsCurrent'
  <2> SUFFICES ASSUME NEW x \in Process, ~ disturbed'[x],
                      pc'[x] \in Unfinished \/ (pc'[x] = "serving" /\ indexed'[x] = TRUE),
                      NEW q \in DOMAIN Catalog(x) \ pending'[x]
               PROVE  q \in DOMAIN point' /\ point'[q].fingerprint = Fingerprint(release[x], q)
    BY <1>0 DEF RestIsCurrent, Catalog, UpToDate, Fingerprint
  <2>1. pc[x] # "down" /\ ~ disturbed[x] /\ release[x] = release[p]
    BY <1>0 DEF TypeOK, Bootstrapped, Unfinished
  <2>2. CASE q \in pending[p]
    <3>1. point'[q].fingerprint = Fingerprint(release[p], q) /\ q \in DOMAIN point'
      BY <1>1, <1>2, <2>2
    <3> QED
      BY <2>1, <3>1
  <2>3. CASE q \notin pending[p]
    <3>1. UpToDate(release[x], q)
      <4>1. CASE x = p
        BY <2>1, <2>3, <4>1 DEF IInv, RestIsCurrent, Unfinished
      <4>2. CASE x # p
        <5>1. /\ pc'[x] = pc[x] /\ pending'[x] = pending[x] /\ indexed'[x] = indexed[x]
          BY <1>0, <4>2 DEF TypeOK, Bootstrapped
        <5> QED
          BY <2>1, <5>1 DEF IInv, RestIsCurrent
      <4> QED
        BY <4>1, <4>2
    <3> QED
      BY <1>1, <1>3, <2>3, <3>1 DEF UpToDate
  <2> QED
    BY <2>2, <2>3
<1> QED
  BY <1>4, <1>5, <1>6, <1>7 DEF IInv

\* The points are offered to Qdrant.
LEMMA UpsertStep == ASSUME IInv, NEW p \in Process, Upsert(p) PROVE IInv'
<1>0. /\ TypeOK /\ pc[p] = "upsert" /\ UNCHANGED <<collection, cached>>
      /\ pc[p] # "down" /\ search[p] = None
      /\ disturbed \in [Process -> BOOLEAN]
  BY StartingUp DEF IInv, Upsert, Unfinished, TypeOK
<1>1. CASE /\ point' = Written(p)
           /\ disturbed' = [x \in Process |->
                  disturbed[x] \/ (pc[x] # "down" /\ release[x] # release[p])]
           /\ \/ Bootstrapped(p, TRUE) /\ UNCHANGED faults
              \/ Bootstrapped(p, FALSE) /\ Fault
  <2>1. faults' \in 0..MaxFaults
    BY <1>0, <1>1, FaultType DEF TypeOK
  <2> QED
    BY <1>0, <1>1, <2>1, WriteStep
<1>2. CASE /\ Bootstrapped(p, FALSE) /\ UNCHANGED <<point, disturbed>>
           /\ Fault \/ UNCHANGED faults
  <2>1. faults' \in 0..MaxFaults
    BY <1>0, <1>2, FaultType DEF TypeOK
  <2> QED
    BY <1>0, <1>2, <2>1, SameCache, BootstrappedStep DEF indexVars
<1> QED
  BY <1>1, <1>2 DEF Upsert

-----------------------------------------------------------------------------
(* Searching                                                                *)

\* An answer is given to one process of the same.
LEMMA AnswerStep ==
    ASSUME DOMAIN answer = Process, NEW p, NEW s, NEW vector, NEW strategy,
           NEW recalled, NEW ranked, NEW response,
           Answer(p, s, vector, strategy, recalled, ranked, response)
    PROVE  DOMAIN answer' = Process
BY DEF Answer

\* Keywords answer with no vector and no recall.
LEMMA KeywordStep ==
    ASSUME NEW p \in Process, NEW s, KeywordAnswer(p, s)
    PROVE  \E ranked : Answer(p, s, None, "keyword_2gram", << >>, ranked, None)
BY DEF KeywordAnswer

\* The first elements of a list.
LEMMA FirstOfType ==
    ASSUME NEW S, NEW s \in Seq(S), NEW n \in Nat
    PROVE  LET m == IF Len(s) < n THEN Len(s) ELSE n
           IN  /\ FirstOf(s, n) \in Seq(S) /\ Len(FirstOf(s, n)) = m
               /\ DOMAIN FirstOf(s, n) = 1..m /\ 1..m \subseteq DOMAIN s
               /\ \A i \in 1..m : FirstOf(s, n)[i] = s[i]
<1> DEFINE m == IF Len(s) < n THEN Len(s) ELSE n
<1>1. m \in Nat /\ m <= Len(s) /\ FirstOf(s, n) = SubSeq(s, 1, m)
  BY DEF FirstOf
<1> HIDE DEF m
<1>2. \A i \in 1..m : i \in DOMAIN s /\ s[i] \in S
  BY <1>1
<1>3. /\ SubSeq(s, 1, m) \in Seq(S) /\ Len(SubSeq(s, 1, m)) = m
      /\ \A i \in 1..m : SubSeq(s, 1, m)[i] = s[i]
  <2>1. /\ SubSeq(s, 1, m) \in Seq(S)
        /\ Len(SubSeq(s, 1, m)) = IF 1 <= m THEN m - 1 + 1 ELSE 0
        /\ \A i \in 1..(m - 1 + 1) : SubSeq(s, 1, m)[i] = s[1 + i - 1]
    BY <1>1, <1>2, SubSeqProperties
  <2> QED
    BY <1>1, <2>1
<1>4. DOMAIN FirstOf(s, n) = 1..m
  BY <1>1, <1>3
<1> QED
  BY <1>1, <1>2, <1>3, <1>4 DEF m

\* The vector recall takes products that the catalog has.
LEMMA RecalledInCatalog ==
    ASSUME TypeOK, NEW r \in Release, NEW score, NEW ranking \in Ranked(DOMAIN point, score)
    PROVE  Elements(Recalled(r, ranking)) \subseteq DOMAIN r.catalog
<1> DEFINE nearest == FirstOf(ranking, RecallTopN)
           I == {i \in DOMAIN nearest : nearest[i] \in DOMAIN r.catalog}
<1>1. ranking \in Seq(DOMAIN point)
  <2>1. IsFiniteSet(DOMAIN point)
    BY FS_Subset, ProductSearchAssumption DEF TypeOK
  <2>2. Cardinality(DOMAIN point) \in Nat
    BY <2>1, FS_CardinalityType
  <2>3. ranking \in [1..Cardinality(DOMAIN point) -> DOMAIN point]
    BY DEF Ranked
  <2> QED
    BY <2>2, <2>3
<1>2. nearest \in Seq(DOMAIN point)
  <2>1. RecallTopN \in Nat
    BY ProductSearchAssumption
  <2> QED
    BY <1>1, <2>1, FirstOfType
<1>3. Recalled(r, ranking) = Subsequence(nearest, I) /\ I \in SUBSET DOMAIN nearest
  BY DEF Recalled
<1>5. \A i \in I : nearest[i] \in DOMAIN r.catalog
  OBVIOUS
<1> HIDE DEF nearest, I
<1>4. \A k \in DOMAIN Subsequence(nearest, I) :
          \E i \in I : Subsequence(nearest, I)[k] = nearest[i]
  BY <1>2, <1>3, SubsequenceType
<1> QED
  BY <1>3, <1>4, <1>5 DEF Elements

\* What a search ends with: an answer by keywords, or one by the vector that
\* the search had, of products that the catalog has.
LEMMA FinishSearchAnswers ==
    ASSUME TypeOK, NEW p \in Process, FinishSearch(p), release[p] \in Release
    PROVE  \E vector, strategy, recalled, ranked, response :
              /\ Answer(p, search[p].query, vector, strategy, recalled, ranked, response)
              /\ \/ strategy = "keyword_2gram"
                 \/ /\ vector = search[p].vector
                    /\ Elements(recalled) \subseteq DOMAIN Catalog(p)
<1> DEFINE s == search[p].query
           v == search[p].vector
<1>1. CASE KeywordAnswer(p, s)
  BY <1>1, KeywordStep
<1>2. ASSUME NEW score, NEW ranking \in Ranked(DOMAIN point, score),
             NEW strategy, NEW ranked, NEW response,
             Answer(p, s, v, strategy, Recalled(release[p], ranking), ranked, response)
      PROVE  \E vector, strategy_, recalled, ranked_, response_ :
                /\ Answer(p, s, vector, strategy_, recalled, ranked_, response_)
                /\ \/ strategy_ = "keyword_2gram"
                   \/ vector = v /\ Elements(recalled) \subseteq DOMAIN Catalog(p)
  BY <1>2, RecalledInCatalog DEF Catalog
<1>3. \/ KeywordAnswer(p, s)
      \/ \E score \in Cosines(v) : \E ranking \in Ranked(DOMAIN point, score) :
          \E strategy, ranked, response :
              Answer(p, s, v, strategy, Recalled(release[p], ranking), ranked, response)
  <2>1. CASE \E score \in Cosines(v) : \E ranking \in Ranked(DOMAIN point, score) :
              LET candidates == Recalled(release[p], ranking)
              IN  IF candidates = << >>
                  THEN KeywordAnswer(p, s)
                  ELSE IF ~release[p].reranker
                  THEN Answer(p, s, v, "embedding_only", candidates, candidates, None)
                  ELSE \E response \in Response :
                      IF Valid(response, Len(candidates))
                      THEN Answer(p, s, v, "embedding_rerank", candidates,
                                  Reranked(candidates, response), response)
                      ELSE Answer(p, s, v, "embedding_only", candidates,
                                  candidates, None)
    <3>1. PICK score \in Cosines(v) : \E ranking \in Ranked(DOMAIN point, score) :
              LET candidates == Recalled(release[p], ranking)
              IN  \/ KeywordAnswer(p, s)
                  \/ Answer(p, s, v, "embedding_only", candidates, candidates, None)
                  \/ \E response \in Response :
                      \/ Answer(p, s, v, "embedding_rerank", candidates,
                                Reranked(candidates, response), response)
                      \/ Answer(p, s, v, "embedding_only", candidates, candidates, None)
      BY <2>1
    <3> QED
      BY <3>1
  <2>2. CASE KeywordAnswer(p, s)
    BY <2>2
  <2> QED
    BY <2>1, <2>2 DEF FinishSearch
<1> QED
  BY <1>1, <1>2, <1>3

\* A search begins: its query's vector is cached or computed, or keywords answer.
LEMMA BeginSearchStep ==
    ASSUME IInv, NEW p \in Process, NEW s \in Query, BeginSearch(p, s)
    PROVE  IInv'
<1> DEFINE r == release[p]
<1>0. /\ TypeOK /\ KeyTellsVector /\ pc[p] = "serving" /\ r \in Release
      /\ {s.text} \in SUBSET Text
      /\ searches' \in 0..MaxSearches
      /\ UNCHANGED <<indexVars, bootVars, starts>>
  BY ProductSearchAssumption DEF IInv, BeginSearch, TypeOK
<1>a. DOMAIN answer' = Process
  <2>1. DOMAIN answer = Process
    BY DEF IInv, TypeOK
  <2>2. KeywordAnswer(p, s) \/ answer' = [answer EXCEPT ![p] = None]
    BY DEF BeginSearch
  <2>3. CASE KeywordAnswer(p, s)
    BY <2>1, <2>3, KeywordStep, AnswerStep
  <2> QED
    BY <2>1, <2>2, <2>3
<1>1. CASE Fault /\ UNCHANGED <<cached, search>>
  <2>1. /\ search' \in [Process -> [query : Query, vector : Vector] \cup {None}]
        /\ \A x \in Process : search'[x] # None => pc[x] = "serving"
        /\ faults' \in 0..MaxFaults
    BY <1>0, <1>1, FaultType DEF TypeOK
  <2> QED
    BY <1>0, <1>a, <1>1, <2>1, SameCache, SearchingStep
<1>2. ASSUME NEW reachable \in BOOLEAN,
             cached' = IF reachable
                       THEN Saved(r, {s.text} \ Found(r, {s.text}, reachable)) ELSE cached,
             search' = [search EXCEPT ![p] =
                        [query |-> s,
                         vector |-> EmbedBatch(r, {s.text},
                                               Found(r, {s.text}, reachable))[s.text]]],
             UNCHANGED faults
      PROVE  IInv'
  <2> DEFINE fresh == {s.text} \ Found(r, {s.text}, reachable)
             vector == EmbedBatch(r, {s.text}, Found(r, {s.text}, reachable))[s.text]
  <2>1. vector \in Vector
    BY <1>0, BatchTells
  <2> HIDE DEF vector
  <2>2. search' = [search EXCEPT ![p] = [query |-> s, vector |-> vector]]
    BY <1>2 DEF vector
  <2>3. /\ search' \in [Process -> [query : Query, vector : Vector] \cup {None}]
        /\ \A x \in Process : search'[x] # None => pc[x] = "serving"
    BY <1>0, <2>1, <2>2 DEF TypeOK
  <2>4. \A k \in DOMAIN cached' : /\ cached'[k] \in Vector
                                  /\ k = <<cached'[k].model, cached'[k].text>>
    <3>1. CASE reachable
      <4>1. fresh \in SUBSET Text /\ cached' = Saved(r, fresh)
        BY <1>0, <1>2, <3>1
      <4> HIDE DEF fresh
      <4> QED
        BY <1>0, <4>1, SavedTells
    <3>2. CASE ~ reachable
      BY <1>2, <3>2, SameCache
    <3> QED
      BY <3>1, <3>2
  <2>5. faults' \in 0..MaxFaults
    BY <1>0, <1>2 DEF TypeOK
  <2> QED
    BY <1>0, <1>a, <2>3, <2>4, <2>5, SearchingStep
<1> QED
  BY <1>1, <1>2 DEF BeginSearch

\* A search ends: it has read the index and changed nothing but its answer.
LEMMA FinishSearchStep == ASSUME IInv, NEW p \in Process, FinishSearch(p) PROVE IInv'
<1>1. /\ search' = [search EXCEPT ![p] = None]
      /\ UNCHANGED <<indexVars, cached, bootVars, searches, starts>>
      /\ Fault \/ UNCHANGED faults
  BY DEF FinishSearch
<1>2. TypeOK /\ DOMAIN answer = Process
  BY DEF IInv, TypeOK
<1>3. DOMAIN answer' = Process
  <2>1. release[p] \in Release
    BY <1>2 DEF TypeOK, FinishSearch
  <2> QED
    BY <1>2, <2>1, FinishSearchAnswers, AnswerStep
<1>4. /\ search' \in [Process -> [query : Query, vector : Vector] \cup {None}]
      /\ \A x \in Process : search'[x] # None => pc[x] = "serving"
      /\ faults' \in 0..MaxFaults /\ searches' \in 0..MaxSearches
  BY <1>1, <1>2, FaultType DEF TypeOK
<1> QED
  BY <1>1, <1>3, <1>4, SameCache, SearchingStep

-----------------------------------------------------------------------------
\* Every step keeps the inductive invariant.
LEMMA StepIInv == IInv /\ [Next]_vars => IInv'
<1> SUFFICES ASSUME IInv, [Next]_vars PROVE IInv'
  OBVIOUS
<1>1. ASSUME NEW p \in Process, Start(p) PROVE IInv'
  BY <1>1, StartStep
<1>2. ASSUME NEW p \in Process, Startup(p) PROVE IInv'
  BY <1>2, ReadFingerprintsStep, EmbedPendingStep, CheckCollectionStep,
     CreateCollectionStep, UpsertStep DEF Startup
<1>3. ASSUME NEW p \in Process, Halt(p) PROVE IInv'
  BY <1>3, HaltStep
<1>4. ASSUME NEW p \in Process, NEW s \in Query, BeginSearch(p, s) PROVE IInv'
  BY <1>4, BeginSearchStep
<1>5. ASSUME NEW p \in Process, FinishSearch(p) PROVE IInv'
  BY <1>5, FinishSearchStep
<1>6. CASE ExpireVector
  BY <1>6, ExpireStep
<1>7. CASE UNCHANGED vars
  <2>1. UNCHANGED <<indexVars, cached, bootVars, search, answer, searches, starts, faults>>
    BY <1>7 DEF vars, searchVars
  <2>2. TypeOK
    BY DEF IInv
  <2>3. /\ search' \in [Process -> [query : Query, vector : Vector] \cup {None}]
        /\ \A x \in Process : search'[x] # None => pc[x] = "serving"
        /\ faults' \in 0..MaxFaults /\ searches' \in 0..MaxSearches
        /\ DOMAIN answer' = Process
    BY <2>1, <2>2 DEF TypeOK
  <2> QED
    BY <2>1, <2>3, SameCache, SearchingStep
<1> QED
  BY <1>1, <1>2, <1>3, <1>4, <1>5, <1>6, <1>7 DEF Next

\* The inductive invariant is an invariant.
LEMMA InvariantIInv == Spec => []IInv
BY InitIInv, StepIInv, PTL DEF Spec

\* The variables keep their types.
THEOREM TypesKept == Spec => []TypeOK
<1>1. IInv => TypeOK
  BY DEF IInv
<1> QED
  BY <1>1, InvariantIInv, PTL

\* A point's fingerprint tells what its vector was computed from, whichever
\* release wrote it and whatever the embedding cache held.
THEOREM FingerprintsAreTrue == Spec => []FingerprintTellsVector
<1>1. IInv => FingerprintTellsVector
  BY DEF IInv
<1> QED
  BY <1>1, InvariantIInv, PTL

\* A bootstrap that returned True leaves every product of the catalog current
\* in the index, however the startups of any number of processes overlapped.
THEOREM BootstrapIsComplete == Spec => []BootstrapLeavesCurrentIndex
<1>1. IInv => BootstrapLeavesCurrentIndex
  <2> SUFFICES ASSUME IInv, NEW p \in Process, pc[p] = "serving", indexed[p] = TRUE,
                      ~ disturbed[p], NEW q \in DOMAIN Catalog(p)
               PROVE  UpToDate(release[p], q)
    BY DEF BootstrapLeavesCurrentIndex, UpToDate
  <2>1. pending[p] = {}
    BY DEF IInv, TypeOK
  <2> QED
    BY <2>1 DEF IInv, RestIsCurrent
<1> QED
  BY <1>1, InvariantIInv, PTL

-----------------------------------------------------------------------------
(* What a search compares                                                   *)

\* A search carries a vector of its process's model, and only a process that
\* runs a release has an answer.
SearchIsOwn ==
    \A p \in Process :
        /\ search[p] # None => search[p].vector.model = release[p].model
        /\ release[p] = None => answer[p] = None

\* A search after a bootstrap that nothing disturbed compares like with like.
LEMMA ComparedAlike ==
    ASSUME IInv, NEW p \in Process, pc[p] = "serving", indexed[p] = TRUE, ~ disturbed[p],
           NEW q \in DOMAIN Catalog(p)
    PROVE  /\ point[q].vector.model = release[p].model
           /\ point[q].vector.text = Catalog(p)[q].text
<1>1. pending[p] = {} /\ release[p] \in Release
  BY DEF IInv, TypeOK
<1>2. UpToDate(release[p], q)
  BY <1>1 DEF IInv, RestIsCurrent
<1>3. Catalog(p)[q].text \in Text
  BY <1>1, CatalogText DEF Catalog
<1>4. /\ Fingerprint(release[p], q) \in Vector
      /\ Fingerprint(release[p], q).model = release[p].model
      /\ Fingerprint(release[p], q).text = Catalog(p)[q].text
  BY <1>1, <1>3, EmbeddingType DEF Fingerprint, Catalog
<1>5. q \in DOMAIN point /\ point[q].fingerprint = Fingerprint(release[p], q)
  BY <1>2 DEF UpToDate
<1>6. point[q].fingerprint # None
  BY <1>4, <1>5, ProductSearchAssumption
<1> QED
  BY <1>4, <1>5, <1>6 DEF IInv, FingerprintTellsVector

\* A step that touches no search, no answer and no release.
LEMMA QuietStep ==
    ASSUME SearchIsOwn, RecallComparesLike, UNCHANGED <<search, answer, release>>
    PROVE  SearchIsOwn' /\ RecallComparesLike'
BY DEF SearchIsOwn, RecallComparesLike, VectorAnswer, Catalog

\* A process starts or stops.
LEMMA LifeStep ==
    ASSUME IInv, SearchIsOwn, RecallComparesLike, NEW p \in Process, Start(p) \/ Halt(p)
    PROVE  SearchIsOwn' /\ RecallComparesLike'
<1>1. CASE UNCHANGED <<search, answer, release>>
  BY <1>1, QuietStep
<1>2. CASE /\ search'[p] = None /\ answer'[p] = None
           /\ \A x \in Process \ {p} : /\ search'[x] = search[x] /\ answer'[x] = answer[x]
                                        /\ release'[x] = release[x]
  BY <1>2 DEF SearchIsOwn, RecallComparesLike, VectorAnswer, Catalog
<1>3. CASE Start(p) /\ release' # release
  <2>1. TypeOK /\ pc[p] = "down" /\ UNCHANGED <<search, answer>>
    BY <1>3 DEF IInv, Start, searchVars
  <2>2. search[p] = None /\ answer[p] = None
    BY <2>1 DEF TypeOK, SearchIsOwn
  <2>3. \A x \in Process \ {p} : release'[x] = release[x]
    BY <1>3, <2>1 DEF Start, TypeOK
  <2> QED
    BY <1>2, <2>1, <2>2, <2>3
<1>4. CASE Halt(p)
  <2>1. TypeOK
    BY DEF IInv
  <2> QED
    BY <1>2, <1>4, <2>1 DEF Halt, TypeOK
<1>5. Start(p) /\ release' = release => UNCHANGED <<search, answer, release>>
  BY DEF Start, searchVars
<1> QED
  BY <1>1, <1>3, <1>4, <1>5

\* A search begins: its vector is of the process's model, or keywords answer.
LEMMA BeginsLike ==
    ASSUME IInv, SearchIsOwn, RecallComparesLike,
           NEW p \in Process, NEW s \in Query, BeginSearch(p, s)
    PROVE  SearchIsOwn' /\ RecallComparesLike'
<1>0. /\ TypeOK /\ KeyTellsVector /\ release[p] \in Release /\ release[p] # None
      /\ {s.text} \in SUBSET Text /\ release' = release
      /\ DOMAIN answer = Process
  BY ProductSearchAssumption DEF IInv, BeginSearch, TypeOK, bootVars
<1>1. CASE KeywordAnswer(p, s) /\ UNCHANGED search
  <2>0. PICK ranked : Answer(p, s, None, "keyword_2gram", << >>, ranked, None)
    BY <1>1, KeywordStep
  <2>1. /\ \A x \in Process \ {p} : answer'[x] = answer[x]
        /\ answer'[p].strategy = "keyword_2gram"
    BY <1>0, <2>0 DEF Answer
  <2> QED
    BY <1>0, <1>1, <2>1 DEF SearchIsOwn, RecallComparesLike, VectorAnswer, Catalog
<1>2. ASSUME NEW reachable \in BOOLEAN, answer' = [answer EXCEPT ![p] = None],
             search' = [search EXCEPT ![p] =
                        [query |-> s,
                         vector |-> EmbedBatch(release[p], {s.text},
                                        Found(release[p], {s.text}, reachable))[s.text]]]
      PROVE  SearchIsOwn' /\ RecallComparesLike'
  <2> DEFINE vector == EmbedBatch(release[p], {s.text},
                                  Found(release[p], {s.text}, reachable))[s.text]
  <2>1. vector \in Vector /\ vector.model = release[p].model
    BY <1>0, BatchTells
  <2>2. search'[p] = [query |-> s, vector |-> vector]
    BY <1>0, <1>2 DEF TypeOK
  <2> HIDE DEF vector
  <2>3. search'[p].vector.model = release[p].model
    BY <2>1, <2>2
  <2>4. /\ answer'[p] = None
        /\ \A x \in Process \ {p} : search'[x] = search[x] /\ answer'[x] = answer[x]
    BY <1>0, <1>2 DEF TypeOK
  <2> QED
    BY <1>0, <2>3, <2>4 DEF SearchIsOwn, RecallComparesLike, VectorAnswer, Catalog
<1> QED
  BY <1>1, <1>2 DEF BeginSearch

\* A search ends: the products it recalled are of the catalog, and so current.
LEMMA FinishesLike ==
    ASSUME IInv, SearchIsOwn, RecallComparesLike, NEW p \in Process, FinishSearch(p)
    PROVE  SearchIsOwn' /\ RecallComparesLike'
<1>0. /\ TypeOK /\ pc[p] = "serving" /\ release[p] \in Release /\ release[p] # None
      /\ release' = release /\ search' = [search EXCEPT ![p] = None]
      /\ DOMAIN answer = Process /\ search[p].vector.model = release[p].model
  BY ProductSearchAssumption DEF IInv, FinishSearch, TypeOK, bootVars, SearchIsOwn
<1>1. PICK vector, strategy, recalled, ranked, response :
          /\ Answer(p, search[p].query, vector, strategy, recalled, ranked, response)
          /\ \/ strategy = "keyword_2gram"
             \/ /\ vector = search[p].vector
                /\ Elements(recalled) \subseteq DOMAIN Catalog(p)
  BY <1>0, FinishSearchAnswers
<1>2. /\ \A x \in Process \ {p} : answer'[x] = answer[x]
      /\ answer'[p].vector = vector /\ answer'[p].strategy = strategy
      /\ answer'[p].settled => indexed[p] = TRUE /\ ~ disturbed[p]
      /\ DOMAIN answer'[p].compared = Elements(recalled)
      /\ \A q \in Elements(recalled) : answer'[p].compared[q] = point[q].vector
  <2>1. DOMAIN answer = Process
    BY <1>0
  <2>2. Answer(p, search[p].query, vector, strategy, recalled, ranked, response)
    BY <1>1
  <2> QED
    BY <2>1, <2>2 DEF Answer
<1>3. SearchIsOwn'
  BY <1>0, <1>2 DEF SearchIsOwn, TypeOK
<1>4. ASSUME VectorAnswer(answer'[p]), answer'[p].settled,
             NEW q \in DOMAIN answer'[p].compared
      PROVE  /\ answer'[p].compared[q].model = answer'[p].vector.model
             /\ answer'[p].compared[q].text = Catalog(p)[q].text
  <2>1. vector = search[p].vector /\ Elements(recalled) \subseteq DOMAIN Catalog(p)
    BY <1>1, <1>2, <1>4 DEF VectorAnswer
  <2>2. q \in DOMAIN Catalog(p) /\ indexed[p] = TRUE /\ ~ disturbed[p]
    BY <1>2, <1>4, <2>1
  <2>3. /\ point[q].vector.model = release[p].model
        /\ point[q].vector.text = Catalog(p)[q].text
    BY <1>0, <2>2, ComparedAlike
  <2> QED
    BY <1>0, <1>2, <1>4, <2>1, <2>3
<1>5. RecallComparesLike'
  BY <1>0, <1>2, <1>4 DEF RecallComparesLike, Catalog, VectorAnswer
<1> QED
  BY <1>3, <1>5

\* Every step keeps it.
LEMMA StepLike ==
    IInv /\ SearchIsOwn /\ RecallComparesLike /\ [Next]_vars
        => SearchIsOwn' /\ RecallComparesLike'
<1> SUFFICES ASSUME IInv, SearchIsOwn, RecallComparesLike, [Next]_vars
             PROVE  SearchIsOwn' /\ RecallComparesLike'
  OBVIOUS
<1>1. ASSUME NEW p \in Process, Startup(p) PROVE UNCHANGED <<search, answer, release>>
  BY <1>1 DEF Startup, ReadFingerprints, EmbedPending, CheckCollection, CreateCollection,
     Upsert, BootstrapFails, Bootstrapped, searchVars
<1>2. ASSUME ExpireVector \/ UNCHANGED vars PROVE UNCHANGED <<search, answer, release>>
  BY <1>2 DEF ExpireVector, vars, bootVars, searchVars
<1> QED
  BY <1>1, <1>2, QuietStep, LifeStep, BeginsLike, FinishesLike DEF Next

\* Whatever the cache, the index and the other processes went through, a search
\* after a bootstrap that returned True ranks vectors of the products' present
\* texts by the model its query was embedded with.
THEOREM LikeIsCompared == Spec => []RecallComparesLike
<1>1. Init => SearchIsOwn /\ RecallComparesLike
  BY DEF Init, SearchIsOwn, RecallComparesLike
<1> QED
  BY <1>1, StepLike, InvariantIInv, PTL DEF Spec

-----------------------------------------------------------------------------
(* What sorting and filtering make of a list                                *)

\* t has the elements of the list s, repeats none that s does not repeat, and
\* has the one with the higher score first.
SortOf(s, score, t) ==
    /\ DOMAIN t = DOMAIN s
    /\ \A k \in DOMAIN s : \E j \in DOMAIN s : t[k] = s[j]
    /\ \A j \in DOMAIN s : \E k \in DOMAIN s : t[k] = s[j]
    /\ (\A i, j \in DOMAIN s : s[i] = s[j] => i = j)
         => \A k, l \in DOMAIN s : t[k] = t[l] => k = l
    /\ \A k, l \in DOMAIN s : score[t[k]] > score[t[l]] => k < l

\* What Sorted computes.
LEMMA SortedType ==
    ASSUME NEW S, NEW s \in Seq(S), NEW score, \A i \in DOMAIN s : score[s[i]] \in Nat
    PROVE  Sorted(s, score) \in Seq(S) /\ SortOf(s, score, Sorted(s, score))
<1> DEFINE n == Len(s)
           D == DOMAIN s
           before(i, j) == \/ score[s[i]] > score[s[j]]
                           \/ score[s[i]] = score[s[j]] /\ i < j
           ahead(j) == {i \in D : before(i, j)}
           R == {pair \in D \X D : before(pair[1], pair[2])}
           at(k) == CHOOSE j \in D : 1 + Cardinality(ahead(j)) = k
<1>1. n \in Nat /\ D = 1..n
  OBVIOUS
<1>2. IsFiniteSet(D) /\ Cardinality(D) = n
  <2> HIDE DEF n, D
  <2> QED
    BY <1>1, FS_Interval
<1>3. \A i, j \in D : <<i, j>> \in R <=> before(i, j)
  OBVIOUS
<1>4. \A i \in D : i \in Nat /\ score[s[i]] \in Nat
  BY <1>1
<1>5. \A j \in D : {i \in D : <<i, j>> \in R} = ahead(j)
  BY <1>3
<1>6. Sorted(s, score) = [k \in D |-> s[at(k)]]
  BY DEF Sorted
<1>7. /\ \A i \in D : <<i, i>> \notin R
      /\ \A i, j, k \in D : <<i, j>> \in R /\ <<j, k>> \in R => <<i, k>> \in R
      /\ \A i, j \in D : i = j \/ <<i, j>> \in R \/ <<j, i>> \in R
  <2> HIDE DEF R, D
  <2>1. \A i \in D : ~ before(i, i)
    BY <1>4
  <2>2. \A i, j, k \in D : before(i, j) /\ before(j, k) => before(i, k)
    BY <1>4
  <2>3. \A i, j \in D : i = j \/ before(i, j) \/ before(j, i)
    BY <1>4
  <2> HIDE DEF before
  <2> QED
    BY <1>3, <2>1, <2>2, <2>3
<1> HIDE DEF R, D, n
<1>8. PICK place \in Bijection(D, 1..n) :
        /\ \A j \in D : place[j] = 1 + Cardinality({i \in D : <<i, j>> \in R})
        /\ \A i, j \in D : <<i, j>> \in R <=> place[i] < place[j]
  <2>1. \E place \in Bijection(D, 1..Cardinality(D)) :
          /\ \A j \in D : place[j] = 1 + Cardinality({i \in D : <<i, j>> \in R})
          /\ \A i, j \in D : <<i, j>> \in R <=> place[i] < place[j]
    BY <1>2, <1>7, PlaceOf
  <2> QED
    BY <1>2, <2>1
<1>9. /\ place \in [D -> D] /\ \A i, j \in D : place[i] = place[j] => i = j
      /\ \A k \in D : \E j \in D : place[j] = k
  BY <1>1, <1>8 DEF Bijection, Injection, Surjection, IsInjective
<1>10. \A j \in D : place[j] = 1 + Cardinality(ahead(j))
  BY <1>5, <1>8
<1>11. ASSUME NEW j \in D PROVE at(place[j]) = j
  <2>1. \A l \in D : 1 + Cardinality(ahead(l)) = place[j] <=> l = j
    BY <1>9, <1>10
  <2> HIDE DEF ahead
  <2> QED
    BY <2>1
<1> HIDE DEF at, ahead
<1>12. \A k \in D : at(k) \in D
  <2> SUFFICES ASSUME NEW k \in D PROVE at(k) \in D
    OBVIOUS
  <2>1. PICK j \in D : place[j] = k
    BY <1>9
  <2> QED
    BY <1>11, <2>1
<1>13. Sorted(s, score) \in Seq(S) /\ DOMAIN Sorted(s, score) = D
  <2>1. \A i \in D : s[i] \in S
    BY DEF D
  <2> QED
    BY <1>1, <1>6, <1>12, <2>1
<1>14. \A j \in D : Sorted(s, score)[place[j]] = s[j]
  BY <1>6, <1>9, <1>11
<1>15. \A i, j \in D : score[s[i]] > score[s[j]] => place[i] < place[j]
  BY <1>3, <1>8
<1>16. \A k \in D : \E j \in D : place[j] = k /\ Sorted(s, score)[k] = s[j]
  BY <1>9, <1>14
<1>17. \A j \in D : \E k \in D : Sorted(s, score)[k] = s[j]
  BY <1>9, <1>14
<1>18. ASSUME \A i, j \in D : s[i] = s[j] => i = j,
              NEW k \in D, NEW l \in D, Sorted(s, score)[k] = Sorted(s, score)[l]
       PROVE  k = l
  BY <1>16, <1>18
<1>19. ASSUME NEW k \in D, NEW l \in D,
              score[Sorted(s, score)[k]] > score[Sorted(s, score)[l]]
       PROVE  k < l
  <2>1. PICK i \in D : place[i] = k /\ Sorted(s, score)[k] = s[i]
    BY <1>16
  <2>2. PICK j \in D : place[j] = l /\ Sorted(s, score)[l] = s[j]
    BY <1>16
  <2> QED
    BY <1>15, <1>19, <2>1, <2>2
<1> QED
  BY <1>13, <1>16, <1>17, <1>18, <1>19 DEF D, SortOf

\* Of a list without repetitions, an element that the filter lets pass and that
\* stands before another one is among the hits before that one.
LEMMA EarlierHits ==
    ASSUME NEW S, NEW s \in Seq(S), \A i, j \in DOMAIN s : s[i] = s[j] => i = j,
           NEW I \in SUBSET DOMAIN s, NEW n \in Nat,
           NEW i \in DOMAIN FirstOf(Subsequence(s, I), n), NEW a \in I, NEW b \in I, a < b,
           s[b] = FirstOf(Subsequence(s, I), n)[i]
    PROVE  s[a] \in Elements(FirstOf(FirstOf(Subsequence(s, I), n), i - 1))
<1> DEFINE t == Subsequence(s, I)
           hits == FirstOf(t, n)
           shown == FirstOf(hits, i - 1)
<1>1. t \in Seq(S)
  BY SubsequenceType
<1> DEFINE rank(j) == Rank(I, j)
<1>2. /\ \A j \in I : rank(j) \in DOMAIN t /\ t[rank(j)] = s[j]
      /\ \A k \in DOMAIN t : \E j \in I : rank(j) = k
      /\ \A j, l \in I : l < j => rank(l) < rank(j)
  BY SubsequenceRank
<1> HIDE DEF rank
<1> HIDE DEF t
<1>3. /\ hits \in Seq(S) /\ i \in Nat \ {0} /\ i <= Len(hits)
      /\ \A k \in DOMAIN hits : hits[k] = t[k] /\ k \in DOMAIN t
  BY <1>1, FirstOfType DEF t
<1> HIDE DEF hits
<1>4. /\ DOMAIN shown = 1..(i - 1)
      /\ \A k \in 1..(i - 1) : shown[k] = hits[k] /\ k \in DOMAIN hits
  <2>1. i - 1 \in Nat /\ (IF Len(hits) < i - 1 THEN Len(hits) ELSE i - 1) = i - 1
    BY <1>3
  <2> QED
    BY <1>3, <2>1, FirstOfType
<1>5. rank(b) = i
  <2>1. i \in DOMAIN t /\ t[i] = s[b]
    BY <1>3 DEF hits, t
  <2>2. PICK j \in I : rank(j) = i
    BY <1>2, <2>1
  <2> QED
    BY <1>2, <2>1, <2>2
<1>6. rank(a) \in 1..(i - 1)
  <2>1. rank(a) < i /\ rank(a) \in DOMAIN t
    BY <1>2, <1>5
  <2>2. rank(a) \in Nat \ {0}
    BY <1>1, <2>1
  <2> QED
    BY <1>3, <2>1, <2>2
<1>7. shown[rank(a)] = s[a]
  BY <1>2, <1>3, <1>4, <1>6
<1> QED
  BY <1>4, <1>6, <1>7 DEF Elements, shown, hits, t

\* The hits are ranked products that meet the constraints; fewer than top_k are
\* all of those.
HitsOf(r, s, ranked, hits) ==
    /\ \A i \in DOMAIN hits : \E j \in DOMAIN ranked :
            /\ hits[i] = ranked[j]
            /\ RejectedReason(r, ranked[j], s) = None
    /\ Len(hits) < s.topK =>
         \A j \in DOMAIN ranked : RejectedReason(r, ranked[j], s) = None =>
            ranked[j] \in Elements(hits)

\* What Hits computes.
LEMMA HitsFit ==
    ASSUME NEW r, NEW s, s.topK \in Nat, NEW ranked \in Seq(DOMAIN r.catalog)
    PROVE  HitsOf(r, s, ranked, Hits(r, s, ranked))
<1> DEFINE I == {j \in DOMAIN ranked : RejectedReason(r, ranked[j], s) = None}
           t == Subsequence(ranked, I)
           hits == FirstOf(t, s.topK)
<1>1. Hits(r, s, ranked) = hits /\ I \in SUBSET DOMAIN ranked
  BY DEF Hits, Accepted
<1>2. \A j : j \in I <=> j \in DOMAIN ranked /\ RejectedReason(r, ranked[j], s) = None
  OBVIOUS
<1> HIDE DEF I
<1>3. t \in Seq(DOMAIN r.catalog) /\ \A k \in DOMAIN t : \E j \in I : t[k] = ranked[j]
  BY <1>1, SubsequenceType
<1>4. ASSUME NEW j \in I PROVE \E k \in DOMAIN t : t[k] = ranked[j]
  BY <1>1, SubsequenceHolds
<1> HIDE DEF t
<1>5. PICK n \in Nat :
        LET m == IF Len(t) < n THEN Len(t) ELSE n
        IN  /\ n = s.topK
            /\ Len(hits) = m /\ DOMAIN hits = 1..m /\ 1..m \subseteq DOMAIN t
            /\ \A i \in 1..m : hits[i] = t[i]
  <2>1. PICK n \in Nat : n = s.topK
    OBVIOUS
  <2>2. hits = FirstOf(t, n)
    BY <2>1
  <2> HIDE DEF hits
  <2> QED
    BY <1>3, <2>1, <2>2, FirstOfType
<1>6. \A i \in DOMAIN hits : \E j \in I : hits[i] = ranked[j]
  BY <1>3, <1>5
<1>7. ASSUME Len(hits) < s.topK, NEW j \in I PROVE ranked[j] \in Elements(hits)
  <2>1. PICK k \in DOMAIN t : t[k] = ranked[j]
    BY <1>4
  <2>2. DOMAIN hits = DOMAIN t
    BY <1>3, <1>5, <1>7
  <2>3. hits[k] = t[k]
    BY <1>5, <2>2
  <2> QED
    BY <2>1, <2>2, <2>3 DEF Elements
<1> HIDE DEF hits
<1> QED
  BY <1>1, <1>2, <1>6, <1>7 DEF HitsOf

\* Keywords recall products of the catalog.
LEMMA KeywordRecallType ==
    ASSUME NEW r \in Release, NEW s \in Query
    PROVE  KeywordRecall(r, s) \in Seq(DOMAIN r.catalog)
<1> DEFINE score == [q \in DOMAIN r.catalog |-> KeywordScore(r, q, s)]
           M == {q \in DOMAIN r.catalog : score[q] > 0}
           n == Cardinality(M)
           Increasing(l) == \A i, j \in DOMAIN l : i < j => l[i] < l[j]
           listed == CHOOSE l \in [1..n -> M] : Increasing(l)
           R == {pair \in M \X M : pair[1] < pair[2]}
<1>1. \A q \in DOMAIN r.catalog : score[q] \in Nat
  <2> SUFFICES ASSUME NEW q \in DOMAIN r.catalog PROVE KeywordScore(r, q, s) \in Nat
    OBVIOUS
  <2>1. r.catalog[q].text \in Text /\ s.text \in Text
    BY CatalogText, ProductSearchAssumption
  <2>2. Matched[<<s.text, r.catalog[q].text>>] \in Nat
    BY <2>1, ScoringAssumption
  <2> QED
    BY <2>2 DEF KeywordScore
<1>2. M \in SUBSET Nat /\ IsFiniteSet(M) /\ n \in Nat
  <2>1. M \in SUBSET Product
    BY CatalogText
  <2> HIDE DEF M
  <2>2. IsFiniteSet(M)
    BY <2>1, FS_Subset, ProductSearchAssumption
  <2> QED
    BY <2>1, <2>2, FS_CardinalityType, ProductSearchAssumption
<1>3. M \subseteq DOMAIN r.catalog
  OBVIOUS
<1>4. \A i, j \in M : <<i, j>> \in R <=> i < j
  OBVIOUS
<1> HIDE DEF M, R, score
<1>5. PICK place \in Bijection(M, 1..n) : \A i, j \in M : <<i, j>> \in R <=> place[i] < place[j]
  <2>1. /\ \A i \in M : <<i, i>> \notin R
        /\ \A i, j, k \in M : <<i, j>> \in R /\ <<j, k>> \in R => <<i, k>> \in R
        /\ \A i, j \in M : i = j \/ <<i, j>> \in R \/ <<j, i>> \in R
    BY <1>2, <1>4
  <2>2. \E place \in Bijection(M, 1..Cardinality(M)) :
          /\ \A j \in M : place[j] = 1 + Cardinality({i \in M : <<i, j>> \in R})
          /\ \A i, j \in M : <<i, j>> \in R <=> place[i] < place[j]
    BY <1>2, <2>1, PlaceOf
  <2> QED
    BY <2>2
<1>6. \E l \in [1..n -> M] : Increasing(l)
  <2> DEFINE at(k) == CHOOSE j \in M : place[j] = k
             l == [k \in 1..n |-> at(k)]
  <2>1. ASSUME NEW k \in 1..n PROVE at(k) \in M /\ place[at(k)] = k
    <3>1. \E j \in M : place[j] = k
      BY <1>5 DEF Bijection, Surjection
    <3> QED
      BY <3>1
  <2> HIDE DEF at
  <2>2. l \in [1..n -> M]
    BY <2>1
  <2>3. ASSUME NEW i \in 1..n, NEW j \in 1..n, i < j PROVE l[i] < l[j]
    <3>1. <<at(i), at(j)>> \in R
      BY <1>5, <2>1, <2>3
    <3> QED
      BY <1>4, <2>1, <3>1
  <2> HIDE DEF l
  <2> QED
    BY <2>2, <2>3
<1>7. listed \in [1..n -> M]
  <2> HIDE DEF Increasing
  <2> QED
    BY <1>6
<1>8. KeywordRecall(r, s) = Sorted(listed, score)
  BY DEF KeywordRecall, M, score
<1> HIDE DEF listed
<1>9. listed \in Seq(DOMAIN r.catalog)
  BY <1>2, <1>3, <1>7
<1>10. \A i \in DOMAIN listed : score[listed[i]] \in Nat
  BY <1>1, <1>3, <1>7
<1> QED
  BY <1>8, <1>9, <1>10, SortedType

\* Qdrant ranks every point, each once.
LEMMA RankingOfPoints ==
    ASSUME TypeOK, NEW score, NEW ranking \in Ranked(DOMAIN point, score)
    PROVE  /\ ranking \in Seq(DOMAIN point) /\ Len(ranking) = Cardinality(DOMAIN point)
           /\ \A q \in DOMAIN point : \E i \in DOMAIN ranking : ranking[i] = q
           /\ \A i, j \in DOMAIN ranking : ranking[i] = ranking[j] => i = j
<1> DEFINE P == DOMAIN point
           n == Cardinality(P)
<1>1. IsFiniteSet(P) /\ n \in Nat
  <2>1. IsFiniteSet(P)
    BY FS_Subset, ProductSearchAssumption DEF TypeOK
  <2> QED
    BY <2>1, FS_CardinalityType
<1>2. ranking \in [1..n -> P] /\ Elements(ranking) = P
  BY DEF Ranked
<1> HIDE DEF P
<1>3. IsFiniteSet(1..n) /\ Cardinality(1..n) = n
  <2> HIDE DEF n
  <2> QED
    BY <1>1, FS_Interval
<1>4. \A q \in P : \E i \in 1..n : ranking[i] = q
  BY <1>2 DEF Elements
<1>5. ranking \in Surjection(1..n, P)
  BY <1>2, <1>4 DEF Surjection
<1>6. ranking \in Injection(1..n, P)
  BY <1>3, <1>5, FS_SurjSameCardinalityImpliesInj
<1>7. \A i, j \in 1..n : ranking[i] = ranking[j] => i = j
  BY <1>6 DEF Injection, IsInjective
<1>8. ranking \in Seq(P) /\ Len(ranking) = n /\ DOMAIN ranking = 1..n
  BY <1>1, <1>2
<1> QED
  BY <1>4, <1>7, <1>8 DEF P

\* The candidates are products of the catalog, each once; they are all of them
\* if every one has a point and the recall takes every point.
LEMMA RecalledProducts ==
    ASSUME TypeOK, NEW r \in Release, NEW score, NEW ranking \in Ranked(DOMAIN point, score)
    PROVE  LET list == Recalled(r, ranking)
           IN  /\ list \in Seq(DOMAIN r.catalog)
               /\ \A i, j \in DOMAIN list : list[i] = list[j] => i = j
               /\ Cardinality(DOMAIN point) <= RecallTopN =>
                    \A q \in DOMAIN r.catalog \intersect DOMAIN point :
                        \E i \in DOMAIN list : list[i] = q
<1> DEFINE C == DOMAIN r.catalog
           nearest == FirstOf(ranking, RecallTopN)
           I == {i \in DOMAIN nearest : nearest[i] \in C}
           list == Subsequence(nearest, I)
<1>1. /\ ranking \in Seq(DOMAIN point) /\ Len(ranking) = Cardinality(DOMAIN point)
      /\ \A q \in DOMAIN point : \E i \in DOMAIN ranking : ranking[i] = q
      /\ \A i, j \in DOMAIN ranking : ranking[i] = ranking[j] => i = j
  BY RankingOfPoints
<1>2. RecallTopN \in Nat
  BY ProductSearchAssumption
<1>3. LET m == IF Len(ranking) < RecallTopN THEN Len(ranking) ELSE RecallTopN
      IN  /\ nearest \in Seq(DOMAIN point) /\ Len(nearest) = m /\ DOMAIN nearest = 1..m
          /\ 1..m \subseteq DOMAIN ranking
          /\ \A i \in 1..m : nearest[i] = ranking[i]
  BY <1>1, <1>2, FirstOfType
<1>4. \A i, j \in DOMAIN nearest : nearest[i] = nearest[j] => i = j
  BY <1>1, <1>3
<1>5. Len(ranking) <= RecallTopN => \A q \in DOMAIN point : \E i \in DOMAIN nearest : nearest[i] = q
  BY <1>1, <1>2, <1>3
<1>6. /\ I \in SUBSET DOMAIN nearest /\ \A i \in I : nearest[i] \in C
      /\ \A i \in DOMAIN nearest : nearest[i] \in C => i \in I
  OBVIOUS
<1>7. Recalled(r, ranking) = list
  BY DEF Recalled
<1> HIDE DEF nearest, I
<1>8. list \in Seq(DOMAIN point) /\ \A k \in DOMAIN list : \E i \in I : list[k] = nearest[i]
  BY <1>3, <1>6, SubsequenceType
<1>9. \A k, l \in DOMAIN list : list[k] = list[l] => k = l
  BY <1>3, <1>4, <1>6, SubsequenceDistinct
<1>13. \A i \in I : \E k \in DOMAIN list : list[k] = nearest[i]
  BY <1>3, <1>6, SubsequenceHolds
<1> HIDE DEF list
<1>10. list \in Seq(C)
  BY <1>6, <1>8
<1>12. ASSUME Cardinality(DOMAIN point) <= RecallTopN, NEW q \in C \intersect DOMAIN point
       PROVE  \E k \in DOMAIN list : list[k] = q
  <2>1. PICK i \in DOMAIN nearest : nearest[i] = q
    BY <1>1, <1>5, <1>12
  <2>2. i \in I
    BY <1>6, <2>1
  <2> QED
    BY <1>13, <2>1, <2>2
<1> QED
  BY <1>7, <1>9, <1>10, <1>12

-----------------------------------------------------------------------------
(* What an answer is                                                        *)

\* An answer of the rerank service speaks of the k-th document once, and
\* Aligned finds what it says of it.
SpeaksOnce(response, n, k) ==
    \E i \in DOMAIN response :
        /\ {j \in DOMAIN response : response[j].index = k - 1} = {i}
        /\ Aligned(response, n)[k] = response[i].score
        /\ response[i].score \in Nat

\* A valid answer does so for each document.
LEMMA AlignedScores ==
    ASSUME NEW n \in Nat, NEW response \in Response, Valid(response, n), NEW k \in 1..n
    PROVE  SpeaksOnce(response, n, k)
<1> DEFINE D == 1..n
           f == [i \in D |-> response[i].index + 1]
           about(m) == CHOOSE i \in D : response[i].index = m - 1
           T == [index : Nat, score : Nat \cup {None}]
<1>1. response \in Seq(T) /\ Len(response) = n /\ DOMAIN response = D
  <2>1. response \in Seq(T)
    BY ScoringAssumption
  <2> HIDE DEF T
  <2>2. Len(response) = n
    BY DEF Valid
  <2>3. DOMAIN response = 1..Len(response)
    BY <2>1
  <2> QED
    BY <2>1, <2>2, <2>3
<1>2. ASSUME NEW i \in D
      PROVE  /\ response[i] \in T
             /\ response[i].index \in 0..(n - 1) /\ response[i].score # None
             /\ \A j \in D : response[j].index = response[i].index => i = j
  <2>1. response[i] \in T
    <3> HIDE DEF T
    <3> QED
      BY <1>1
  <2>2. /\ response[i].index \in 0..(n - 1) /\ response[i].score # None
        /\ \A j \in D : response[j].index = response[i].index => i = j
    BY DEF Valid
  <2> QED
    BY <2>1, <2>2
<1>3. \A i \in D : response[i].index + 1 \in D /\ response[i].index \in Nat
                    /\ response[i].score \in Nat
  BY <1>2
<1>4. f \in [D -> D] /\ \A i, j \in D : f[i] = f[j] => i = j
  BY <1>2, <1>3
<1>5. IsFiniteSet(D) /\ Cardinality(D) = n
  BY FS_Interval
<1> HIDE DEF f, D
<1>6. f \in Surjection(D, D)
  <2>1. f \in Injection(D, D)
    BY <1>4 DEF Injection, IsInjective
  <2> QED
    BY <1>5, <2>1, FS_Injection
<1>7. PICK i \in D : f[i] = k
  BY <1>6 DEF Surjection, D
<1>8. response[i].index = k - 1
  <2>1. response[i].index + 1 = k /\ response[i].index \in Nat
    BY <1>3, <1>7 DEF f
  <2> QED
    BY <2>1
<1>9. \A j \in D : response[j].index = k - 1 <=> j = i
  BY <1>2, <1>8
<1>10. about(k) = i
  BY <1>9
<1>11. Aligned(response, n)[k] = response[i].score
  BY <1>10 DEF Aligned, D
<1>12. {j \in DOMAIN response : response[j].index = k - 1} = {i}
  BY <1>1, <1>9
<1> QED
  BY <1>1, <1>3, <1>11, <1>12 DEF SpeaksOnce

\* Everything in a list is in another one.
Covers(list, ranked) == \A j \in DOMAIN list : \E k \in DOMAIN ranked : ranked[k] = list[j]

\* A list that repeats nothing.
Unrepeated(list) == \A i, j \in DOMAIN list : list[i] = list[j] => i = j

\* An answer in the order of the vectors shows the nearest first.
LEMMA HonestByVectors ==
    ASSUME NEW r, NEW a, a.query.topK \in Nat,
           a.recalled \in Seq(DOMAIN r.catalog), Unrepeated(a.recalled),
           a.hits = Hits(r, a.query, a.recalled),
           a.response = None, a.strategy = "embedding_only"
    PROVE  Honest(r, a)
<1> SUFFICES ASSUME NEW s, s = a.query, s.topK \in Nat,
                    NEW list \in Seq(DOMAIN r.catalog), list = a.recalled,
                    \A i, j \in DOMAIN list : list[i] = list[j] => i = j
             PROVE  Honest(r, a)
  BY DEF Unrepeated
<1> DEFINE I == {j \in DOMAIN list : RejectedReason(r, list[j], s) = None}
           better == {pair \in FittingPlaces(r, a) \X FittingPlaces(r, a) : pair[1] < pair[2]}
<1>0. PICK n \in Nat : n = s.topK
  OBVIOUS
<1>1. FittingPlaces(r, a) = I /\ I \in SUBSET DOMAIN list
  BY DEF FittingPlaces
<1>2. a.hits = FirstOf(Subsequence(list, I), n)
  BY <1>0 DEF Hits, Accepted
<1>3. \A pair \in better : pair[1] \in I /\ pair[2] \in I /\ pair[1] < pair[2]
  BY <1>1
<1> HIDE DEF I, better
<1>4. BestFirst(a, better)
  <2> SUFFICES ASSUME NEW i \in DOMAIN a.hits, NEW pair \in better, a.recalled[pair[2]] = a.hits[i]
               PROVE  a.recalled[pair[1]] \in Elements(FirstOf(a.hits, i - 1))
    BY DEF BestFirst
  <2>1. PICK x \in I, y \in I : x = pair[1] /\ y = pair[2] /\ x < y
    BY <1>3
  <2>2. list[y] = a.hits[i]
    BY <2>1
  <2>3. list[x] \in Elements(FirstOf(a.hits, i - 1))
    BY <1>1, <1>2, <2>1, <2>2, EarlierHits
  <2> QED
    BY <2>1, <2>3
<1> QED
  BY <1>4 DEF Honest, better

\* A reranked answer shows those first that the service scored best.
LEMMA HonestByReranker ==
    ASSUME NEW r, NEW a, a.query.topK \in Nat,
           a.recalled \in Seq(DOMAIN r.catalog), Unrepeated(a.recalled),
           a.hits = Hits(r, a.query, Reranked(a.recalled, a.response)),
           a.response \in Response, Valid(a.response, Len(a.recalled)),
           a.strategy = "embedding_rerank"
    PROVE  /\ Honest(r, a)
           /\ Reranked(a.recalled, a.response) \in Seq(DOMAIN r.catalog)
           /\ Covers(a.recalled, Reranked(a.recalled, a.response))
<1> SUFFICES ASSUME NEW s, s = a.query, s.topK \in Nat,
                    NEW list \in Seq(DOMAIN r.catalog), list = a.recalled,
                    \A i, j \in DOMAIN list : list[i] = list[j] => i = j,
                    NEW response \in Response, response = a.response,
                    Valid(response, Len(list))
             PROVE  /\ Honest(r, a)
                    /\ Reranked(list, response) \in Seq(DOMAIN r.catalog)
                    /\ \A j \in DOMAIN list : \E k \in DOMAIN Reranked(list, response) :
                            Reranked(list, response)[k] = list[j]
  BY DEF Unrepeated, Covers
<1> DEFINE n == Len(list)
           D == DOMAIN list
           scores == Aligned(response, n)
           score == [q \in Elements(list) |-> scores[CHOOSE k \in D : list[k] = q]]
           ranked == Sorted(list, score)
           I == {j \in DOMAIN ranked : RejectedReason(r, ranked[j], s) = None}
<1>0. PICK m \in Nat : m = s.topK
  OBVIOUS
<1>1. n \in Nat /\ D = 1..n /\ Reranked(list, response) = ranked
  BY DEF Reranked
<1>2. ASSUME NEW k \in D
      PROVE  \E i \in DOMAIN response :
                /\ Given(a, k) = {i} /\ scores[k] = response[i].score /\ response[i].score \in Nat
  <2>1. k \in 1..n /\ n \in Nat /\ Valid(response, n)
    BY <1>1
  <2> HIDE DEF n, D, scores
  <2>4. SpeaksOnce(response, n, k)
    BY <2>1, AlignedScores
  <2>2. \E i \in DOMAIN response :
            /\ {j \in DOMAIN response : response[j].index = k - 1} = {i}
            /\ scores[k] = response[i].score /\ response[i].score \in Nat
    BY <2>4 DEF SpeaksOnce, scores
  <2>3. Given(a, k) = {j \in DOMAIN response : response[j].index = k - 1}
    BY DEF Given
  <2> QED
    BY <2>2, <2>3
<1>3. ASSUME NEW k \in D PROVE score[list[k]] = scores[k] /\ scores[k] \in Nat
  <2>1. list[k] \in Elements(list) /\ \A l \in D : list[l] = list[k] <=> l = k
    BY DEF Elements
  <2>2. (CHOOSE l \in D : list[l] = list[k]) = k
    BY <2>1
  <2> HIDE DEF scores, D
  <2>3. score[list[k]] = scores[k]
    BY <2>1, <2>2
  <2>4. scores[k] \in Nat
    BY <1>2
  <2> QED
    BY <2>3, <2>4
<1> HIDE DEF score, scores, n
<1>4. /\ ranked \in Seq(DOMAIN r.catalog) /\ DOMAIN ranked = D
      /\ \A k \in D : \E j \in D : ranked[k] = list[j]
      /\ \A j \in D : \E k \in D : ranked[k] = list[j]
      /\ \A k, l \in D : ranked[k] = ranked[l] => k = l
      /\ \A k, l \in D : score[ranked[k]] > score[ranked[l]] => k < l
  <2>1. \A k \in DOMAIN list : score[list[k]] \in Nat
    BY <1>3
  <2> HIDE DEF ranked, D
  <2>2. ranked \in Seq(DOMAIN r.catalog) /\ SortOf(list, score, ranked)
    BY <2>1, SortedType DEF ranked
  <2> QED
    BY <2>2 DEF SortOf, D
<1> HIDE DEF ranked
<1>5. \A j : j \in I <=> j \in DOMAIN ranked /\ RejectedReason(r, ranked[j], s) = None
  OBVIOUS
<1>6. I \in SUBSET DOMAIN ranked
  OBVIOUS
<1>7. a.hits = FirstOf(Subsequence(ranked, I), m)
  BY <1>0, <1>1 DEF Hits, Accepted
<1> HIDE DEF I, D
<1> DEFINE better == {pair \in FittingPlaces(r, a) \X FittingPlaces(r, a) :
                        \E x \in Given(a, pair[1]), y \in Given(a, pair[2]) :
                            a.response[x].score > a.response[y].score}
<1>8. ASSUME NEW pair \in better
      PROVE  /\ pair[1] \in D /\ pair[2] \in D
             /\ RejectedReason(r, list[pair[1]], s) = None
             /\ RejectedReason(r, list[pair[2]], s) = None
             /\ score[list[pair[1]]] > score[list[pair[2]]]
  <2>1. /\ pair[1] \in D /\ pair[2] \in D
        /\ RejectedReason(r, list[pair[1]], s) = None
        /\ RejectedReason(r, list[pair[2]], s) = None
    BY DEF FittingPlaces, D
  <2>2. PICK x \in Given(a, pair[1]), y \in Given(a, pair[2]) : response[x].score > response[y].score
    OBVIOUS
  <2>3. scores[pair[1]] = response[x].score /\ scores[pair[2]] = response[y].score
    <3>1. PICK i \in DOMAIN response : Given(a, pair[1]) = {i} /\ scores[pair[1]] = response[i].score
      BY <1>2, <2>1
    <3>2. PICK j \in DOMAIN response : Given(a, pair[2]) = {j} /\ scores[pair[2]] = response[j].score
      BY <1>2, <2>1
    <3> HIDE DEF better
    <3> QED
      BY <2>2, <3>1, <3>2
  <2> HIDE DEF better
  <2> QED
    BY <1>3, <2>1, <2>2, <2>3
<1>9. \A k \in DOMAIN a.recalled : Cardinality(Given(a, k)) = 1
  <2> SUFFICES ASSUME NEW k \in D PROVE Cardinality(Given(a, k)) = 1
    BY DEF D
  <2>1. PICK i \in DOMAIN response : Given(a, k) = {i}
    BY <1>2
  <2> QED
    BY <2>1, FS_Singleton
<1>10. Honest(r, a) <=> BestFirst(a, better)
  BY <1>9, ScoringAssumption DEF Honest
<1> HIDE DEF better
<1>11. BestFirst(a, better)
  <2> SUFFICES ASSUME NEW i \in DOMAIN a.hits, NEW pair \in better, a.recalled[pair[2]] = a.hits[i]
               PROVE  a.recalled[pair[1]] \in Elements(FirstOf(a.hits, i - 1))
    BY DEF BestFirst
  <2>1. PICK x \in D : ranked[x] = list[pair[1]]
    BY <1>4, <1>8
  <2>2. PICK y \in D : ranked[y] = list[pair[2]]
    BY <1>4, <1>8
  <2>3. x \in I /\ y \in I /\ x < y
    <3>1. score[ranked[x]] > score[ranked[y]]
      BY <1>8, <2>1, <2>2
    <3>2. RejectedReason(r, ranked[x], s) = None /\ RejectedReason(r, ranked[y], s) = None
      BY <1>8, <2>1, <2>2
    <3> QED
      BY <1>4, <1>5, <3>1, <3>2
  <2>4. ranked[y] = a.hits[i]
    BY <2>2
  <2>5. ranked[x] \in Elements(FirstOf(a.hits, i - 1))
    <3>1. \A k, l \in DOMAIN ranked : ranked[k] = ranked[l] => k = l
      BY <1>4
    <3>2. ranked \in Seq(DOMAIN r.catalog) /\ i \in DOMAIN FirstOf(Subsequence(ranked, I), m)
          /\ ranked[y] = FirstOf(Subsequence(ranked, I), m)[i]
      BY <1>4, <1>7, <2>4
    <3>3. ranked[x] \in Elements(FirstOf(FirstOf(Subsequence(ranked, I), m), i - 1))
      BY <1>6, <2>3, <3>1, <3>2, EarlierHits
    <3> QED
      BY <1>7, <3>3
  <2> QED
    BY <2>1, <2>5
<1> QED
  BY <1>1, <1>4, <1>10, <1>11 DEF D

\* An answer that shows what it should, in the order it should.
Good(r, a) == Complete(r, a) /\ (VectorAnswer(a) => Honest(r, a))

\* What an answer shows meets the constraints; one that is not full shows all
\* the products that do, if all products were ranked.
LEMMA HitsComplete ==
    ASSUME NEW r, NEW a, a.query.topK \in Nat, NEW ranked \in Seq(DOMAIN r.catalog),
           a.hits = Hits(r, a.query, ranked),
           VectorAnswer(a) /\ a.settled /\ ~ a.crowded
               => \A q \in DOMAIN r.catalog : \E j \in DOMAIN ranked : ranked[j] = q
    PROVE  Complete(r, a)
<1> SUFFICES ASSUME NEW s, s = a.query, s.topK \in Nat PROVE Complete(r, a)
  OBVIOUS
<1> DEFINE hits == Hits(r, s, ranked)
           fitting == {q \in DOMAIN r.catalog : RejectedReason(r, q, s) = None}
<1>1. /\ \A i \in DOMAIN hits : \E j \in DOMAIN ranked : /\ hits[i] = ranked[j]
                                                       /\ RejectedReason(r, ranked[j], s) = None
      /\ Len(hits) < s.topK =>
            \A j \in DOMAIN ranked : RejectedReason(r, ranked[j], s) = None =>
                ranked[j] \in Elements(hits)
  <2>1. HitsOf(r, s, ranked, Hits(r, s, ranked))
    BY HitsFit
  <2> QED
    BY <2>1 DEF HitsOf
<1> HIDE DEF hits
<1>2. \A j \in DOMAIN ranked : ranked[j] \in DOMAIN r.catalog
  OBVIOUS
<1>3. Elements(hits) \subseteq fitting
  <2> SUFFICES ASSUME NEW q \in Elements(hits) PROVE q \in fitting
    OBVIOUS
  <2>1. PICK i \in DOMAIN hits : hits[i] = q
    BY DEF Elements
  <2>2. PICK j \in DOMAIN ranked : hits[i] = ranked[j] /\ RejectedReason(r, ranked[j], s) = None
    BY <1>1
  <2> QED
    BY <1>2, <2>1, <2>2
<1>4. ASSUME VectorAnswer(a), a.settled, ~ a.crowded, Len(hits) < s.topK,
             NEW q \in fitting
      PROVE  q \in Elements(hits)
  <2>1. PICK j \in DOMAIN ranked : ranked[j] = q
    BY <1>4
  <2> QED
    BY <1>1, <1>4, <2>1
<1>5. Shown(a) = Elements(hits) /\ a.hits = hits
  BY DEF Shown, hits
<1> HIDE DEF fitting
<1>6. fitting = {q \in DOMAIN r.catalog : RejectedReason(r, q, a.query) = None}
  BY DEF fitting
<1> QED
  BY <1>3, <1>4, <1>5, <1>6 DEF Complete

\* An answer by keywords is good.
LEMMA KeywordGood ==
    ASSUME NEW r \in Release, NEW s \in Query, NEW a, a.query = s,
           a.strategy = "keyword_2gram", a.hits = Hits(r, s, KeywordRecall(r, s))
    PROVE  Good(r, a)
<1>1. KeywordRecall(r, s) \in Seq(DOMAIN r.catalog) /\ s.topK \in Nat
  BY KeywordRecallType, ProductSearchAssumption
<1>2. ~ VectorAnswer(a)
  BY DEF VectorAnswer
<1> QED
  BY <1>1, <1>2, HitsComplete DEF Good

\* So is an answer by vectors, reranked or not.
LEMMA VectorGood ==
    ASSUME TypeOK, NEW r \in Release, NEW s \in Query,
           NEW score, NEW ranking \in Ranked(DOMAIN point, score),
           NEW a, a.query = s, a.recalled = Recalled(r, ranking),
           a.crowded \/ Cardinality(DOMAIN point) <= RecallTopN,
           a.settled => DOMAIN r.catalog \subseteq DOMAIN point,
           \/ /\ a.strategy = "embedding_only" /\ a.response = None
              /\ a.hits = Hits(r, s, Recalled(r, ranking))
           \/ /\ a.strategy = "embedding_rerank" /\ a.response \in Response
              /\ Valid(a.response, Len(Recalled(r, ranking)))
              /\ a.hits = Hits(r, s, Reranked(Recalled(r, ranking), a.response))
    PROVE  Good(r, a)
<1> DEFINE list == Recalled(r, ranking)
<1>1. /\ list \in Seq(DOMAIN r.catalog)
      /\ \A i, j \in DOMAIN list : list[i] = list[j] => i = j
      /\ Cardinality(DOMAIN point) <= RecallTopN =>
            \A q \in DOMAIN r.catalog \intersect DOMAIN point :
                \E i \in DOMAIN list : list[i] = q
  BY RecalledProducts
<1>2. s.topK \in Nat
  BY ProductSearchAssumption
<1> HIDE DEF list
<1>3. a.settled /\ ~ a.crowded => \A q \in DOMAIN r.catalog : \E i \in DOMAIN list : list[i] = q
  <2> SUFFICES ASSUME a.settled, ~ a.crowded, NEW q \in DOMAIN r.catalog
               PROVE  \E i \in DOMAIN list : list[i] = q
    OBVIOUS
  <2>1. q \in DOMAIN r.catalog \intersect DOMAIN point
    OBVIOUS
  <2> QED
    BY <1>1, <2>1
<1>6. a.recalled = list
  BY DEF list
<1>4. CASE /\ a.strategy = "embedding_only" /\ a.response = None /\ a.hits = Hits(r, s, list)
  <2>1. Complete(r, a)
    BY <1>1, <1>2, <1>3, <1>4, HitsComplete
  <2>2. Honest(r, a)
    BY <1>1, <1>2, <1>4, <1>6, HonestByVectors DEF Unrepeated
  <2> QED
    BY <2>1, <2>2 DEF Good
<1>5. CASE /\ a.strategy = "embedding_rerank" /\ a.response \in Response
           /\ Valid(a.response, Len(list)) /\ a.hits = Hits(r, s, Reranked(list, a.response))
  <2> DEFINE ranked == Reranked(a.recalled, a.response)
  <2>1. Unrepeated(a.recalled) /\ a.recalled \in Seq(DOMAIN r.catalog)
    BY <1>1, <1>6 DEF Unrepeated
  <2>2. Honest(r, a)
    BY <1>2, <1>5, <1>6, <2>1, HonestByReranker
  <2>6. ranked \in Seq(DOMAIN r.catalog) /\ Covers(a.recalled, ranked)
    BY <1>2, <1>5, <1>6, <2>1, HonestByReranker
  <2>7. a.hits = Hits(r, s, ranked)
    BY <1>5, <1>6
  <2> HIDE DEF ranked
  <2>3. /\ ranked \in Seq(DOMAIN r.catalog) /\ a.hits = Hits(r, s, ranked)
        /\ \A j \in DOMAIN list : \E k \in DOMAIN ranked : ranked[k] = list[j]
    BY <1>6, <2>6, <2>7 DEF Covers
  <2>4. a.settled /\ ~ a.crowded
            => \A q \in DOMAIN r.catalog : \E k \in DOMAIN ranked : ranked[k] = q
    BY <1>3, <2>3
  <2>5. Complete(r, a)
    BY <1>2, <2>3, <2>4, HitsComplete
  <2> QED
    BY <2>2, <2>5 DEF Good
<1> QED
  BY <1>4, <1>5 DEF list

-----------------------------------------------------------------------------
(* What the processes answer                                                *)

\* Every process's last answer is good.
GoodAnswers == \A p \in Process : answer[p] # None => Good(release[p], answer[p])

\* A step that touches no answer and no release.
LEMMA QuietGood ==
    ASSUME GoodAnswers, UNCHANGED <<answer, release>> PROVE GoodAnswers'
BY DEF GoodAnswers

\* A step that touches the answer and the release of one process.
LEMMA OneGood ==
    ASSUME GoodAnswers, NEW p \in Process, answer'[p] # None => Good(release'[p], answer'[p]),
           \A x \in Process \ {p} : answer'[x] = answer[x] /\ release'[x] = release[x]
    PROVE  GoodAnswers'
<1> SUFFICES ASSUME NEW x \in Process, answer'[x] # None PROVE Good(release'[x], answer'[x])
  BY DEF GoodAnswers
<1>1. CASE x = p
  BY <1>1
<1>2. CASE x # p
  <2>1. answer'[x] = answer[x] /\ release'[x] = release[x]
    BY <1>2
  <2> QED
    BY <2>1 DEF GoodAnswers
<1> QED
  BY <1>1, <1>2

\* A process starts or stops.
LEMMA LifeGood ==
    ASSUME IInv, SearchIsOwn, GoodAnswers, NEW p \in Process, Start(p) \/ Halt(p)
    PROVE  GoodAnswers'
<1>0. TypeOK
  BY DEF IInv
<1>1. CASE UNCHANGED <<answer, release>>
  BY <1>1, QuietGood
<1>2. CASE Start(p) /\ release' # release
  <2>1. pc[p] = "down" /\ UNCHANGED answer
    BY <1>2 DEF Start, searchVars
  <2>2. answer'[p] = None
    BY <1>0, <2>1 DEF TypeOK, SearchIsOwn
  <2>3. \A x \in Process \ {p} : release'[x] = release[x] /\ answer'[x] = answer[x]
    BY <1>0, <1>2, <2>1 DEF Start, TypeOK
  <2> QED
    BY <2>2, <2>3, OneGood
<1>3. CASE Halt(p)
  <2>1. /\ answer'[p] = None
        /\ \A x \in Process \ {p} : release'[x] = release[x] /\ answer'[x] = answer[x]
    BY <1>0, <1>3 DEF Halt, TypeOK
  <2> QED
    BY <2>1, OneGood
<1>4. Start(p) /\ release' = release => UNCHANGED <<answer, release>>
  BY DEF Start, searchVars
<1> QED
  BY <1>1, <1>2, <1>3, <1>4

\* Keywords answer.
LEMMA KeywordAnswers ==
    ASSUME GoodAnswers, NEW p \in Process, DOMAIN answer = Process, release[p] \in Release,
           release' = release, NEW s \in Query, KeywordAnswer(p, s)
    PROVE  GoodAnswers'
<1>1. /\ answer'[p].query = s /\ answer'[p].strategy = "keyword_2gram"
      /\ answer'[p].hits = Hits(release[p], s, KeywordRecall(release[p], s))
      /\ \A x \in Process \ {p} : answer'[x] = answer[x]
  BY DEF KeywordAnswer, Answer
<1>2. Good(release[p], answer'[p])
  BY <1>1, KeywordGood
<1> QED
  BY <1>1, <1>2, OneGood

\* A search begins: nothing is answered yet, or keywords answer.
LEMMA BeginsGood ==
    ASSUME IInv, GoodAnswers, NEW p \in Process, NEW s \in Query, BeginSearch(p, s)
    PROVE  GoodAnswers'
<1>0. release[p] \in Release /\ release' = release /\ DOMAIN answer = Process
  BY ProductSearchAssumption DEF IInv, BeginSearch, TypeOK, bootVars
<1>1. CASE KeywordAnswer(p, s)
  BY <1>0, <1>1, KeywordAnswers
<1>2. CASE answer' = [answer EXCEPT ![p] = None]
  BY <1>0, <1>2, OneGood
<1> QED
  BY <1>1, <1>2 DEF BeginSearch

\* An answer by vectors is given.
LEMMA VectorAnswers ==
    ASSUME IInv, GoodAnswers, NEW p \in Process, pc[p] = "serving", release' = release,
           NEW s \in Query, NEW vector, NEW score, NEW ranking \in Ranked(DOMAIN point, score),
           \/ Answer(p, s, vector, "embedding_only", Recalled(release[p], ranking),
                     Recalled(release[p], ranking), None)
           \/ \E response \in Response :
                /\ Valid(response, Len(Recalled(release[p], ranking)))
                /\ Answer(p, s, vector, "embedding_rerank", Recalled(release[p], ranking),
                          Reranked(Recalled(release[p], ranking), response), response)
    PROVE  GoodAnswers'
<1> DEFINE list == Recalled(release[p], ranking)
<1>0. TypeOK /\ release[p] \in Release /\ DOMAIN answer = Process
  BY DEF IInv, TypeOK
<1>1. PICK strategy, ranked, response :
        /\ Answer(p, s, vector, strategy, list, ranked, response)
        /\ \/ strategy = "embedding_only" /\ response = None /\ ranked = list
           \/ /\ strategy = "embedding_rerank" /\ response \in Response
              /\ Valid(response, Len(list)) /\ ranked = Reranked(list, response)
  <2> HIDE DEF list
  <2> QED
    BY DEF list
<1> HIDE DEF list
<1>2. /\ answer'[p].query = s /\ answer'[p].strategy = strategy
      /\ answer'[p].recalled = list /\ answer'[p].response = response
      /\ answer'[p].hits = Hits(release[p], s, ranked)
      /\ answer'[p].crowded \/ ~ (Cardinality(DOMAIN point) > RecallTopN)
      /\ answer'[p].settled => indexed[p] = TRUE /\ ~ disturbed[p]
      /\ \A x \in Process \ {p} : answer'[x] = answer[x]
  <2>1. Answer(p, s, vector, strategy, list, ranked, response)
    BY <1>1
  <2> QED
    BY <1>0, <2>1 DEF Answer
<1>3. indexed[p] = TRUE /\ ~ disturbed[p] => DOMAIN release[p].catalog \subseteq DOMAIN point
  <2>1. pending[p] = {}
    BY <1>0 DEF TypeOK
  <2> QED
    BY <2>1 DEF IInv, RestIsCurrent, UpToDate, Catalog
<1>8. Cardinality(DOMAIN point) \in Nat /\ RecallTopN \in Nat
  <2>1. IsFiniteSet(DOMAIN point)
    BY <1>0, FS_Subset, ProductSearchAssumption DEF TypeOK
  <2> QED
    BY <2>1, FS_CardinalityType, ProductSearchAssumption
<1>4. PICK r \in Release : r = release[p]
  BY <1>0
<1>5. PICK a : a = answer'[p]
  OBVIOUS
<1>6. /\ a.query = s /\ a.recalled = Recalled(r, ranking)
      /\ a.crowded \/ Cardinality(DOMAIN point) <= RecallTopN
      /\ a.settled => DOMAIN r.catalog \subseteq DOMAIN point
      /\ \/ /\ a.strategy = "embedding_only" /\ a.response = None
            /\ a.hits = Hits(r, s, Recalled(r, ranking))
         \/ /\ a.strategy = "embedding_rerank" /\ a.response \in Response
            /\ Valid(a.response, Len(Recalled(r, ranking)))
            /\ a.hits = Hits(r, s, Reranked(Recalled(r, ranking), a.response))
  BY <1>1, <1>2, <1>3, <1>4, <1>5, <1>8 DEF list
<1>7. Good(r, a)
  BY <1>0, <1>6, VectorGood
<1> QED
  BY <1>2, <1>4, <1>5, <1>7, OneGood

\* A search ends, with keywords or with vectors.
LEMMA FinishesGood ==
    ASSUME IInv, GoodAnswers, NEW p \in Process, FinishSearch(p)
    PROVE  GoodAnswers'
<1>0. /\ pc[p] = "serving" /\ release[p] \in Release /\ search[p].query \in Query
      /\ release' = release /\ DOMAIN answer = Process
  BY DEF IInv, FinishSearch, TypeOK, bootVars
<1>1. PICK s \in Query : s = search[p].query
  BY <1>0
<1>2. CASE KeywordAnswer(p, s)
  BY <1>0, <1>2, KeywordAnswers
<1>3. ASSUME NEW score \in Cosines(search[p].vector), NEW ranking \in Ranked(DOMAIN point, score),
             LET list == Recalled(release[p], ranking)
             IN  \/ Answer(p, s, search[p].vector, "embedding_only", list, list, None)
                 \/ \E response \in Response :
                      /\ Valid(response, Len(list))
                      /\ Answer(p, s, search[p].vector, "embedding_rerank", list,
                                Reranked(list, response), response)
      PROVE  GoodAnswers'
  BY <1>0, <1>3, VectorAnswers
<1>4. \/ KeywordAnswer(p, s)
      \/ \E score \in Cosines(search[p].vector) : \E ranking \in Ranked(DOMAIN point, score) :
            LET list == Recalled(release[p], ranking)
            IN  \/ KeywordAnswer(p, s)
                \/ Answer(p, s, search[p].vector, "embedding_only", list, list, None)
                \/ \E response \in Response :
                     /\ Valid(response, Len(list))
                     /\ Answer(p, s, search[p].vector, "embedding_rerank", list,
                               Reranked(list, response), response)
  BY <1>1, Zenon DEF FinishSearch
<1> QED
  BY <1>2, <1>3, <1>4

\* Every step keeps the answers good.
LEMMA StepGood == IInv /\ SearchIsOwn /\ GoodAnswers /\ [Next]_vars => GoodAnswers'
<1> SUFFICES ASSUME IInv, SearchIsOwn, GoodAnswers, [Next]_vars PROVE GoodAnswers'
  OBVIOUS
<1>1. ASSUME NEW p \in Process, Startup(p) PROVE UNCHANGED <<answer, release>>
  BY <1>1 DEF Startup, ReadFingerprints, EmbedPending, CheckCollection, CreateCollection,
     Upsert, BootstrapFails, Bootstrapped, searchVars
<1>2. ASSUME ExpireVector \/ UNCHANGED vars PROVE UNCHANGED <<answer, release>>
  BY <1>2 DEF ExpireVector, vars, bootVars, searchVars
<1> QED
  BY <1>1, <1>2, QuietGood, LifeGood, BeginsGood, FinishesGood DEF Next

\* The answers are good.
LEMMA InvariantGood == Spec => []GoodAnswers
<1>1. Init => SearchIsOwn /\ RecallComparesLike /\ GoodAnswers
  BY DEF Init, SearchIsOwn, RecallComparesLike, GoodAnswers
<1> QED
  BY <1>1, StepLike, StepGood, InvariantIInv, PTL DEF Spec

\* Whatever the rerank service answers and however the startups of the
\* processes overlapped, no answer shows a product against its query's
\* constraints, and one by vectors after an undisturbed bootstrap that shows
\* less than top_k products misses none that meets them, unless the index has
\* more points than the recall takes.
THEOREM NothingIsMissed == Spec => []NothingThatFitsIsMissed
<1>1. GoodAnswers => NothingThatFitsIsMissed
  BY DEF GoodAnswers, Good, NothingThatFitsIsMissed
<1> QED
  BY <1>1, InvariantGood, PTL

\* An answer that says it was reranked shows the best of the products that fit
\* by the scores the service gave these very products, each exactly one; any
\* other answer by vectors keeps the order of the vectors.
THEOREM RerankingIsTrue == Spec => []RerankingIsHonest
<1>1. GoodAnswers => RerankingIsHonest
  BY DEF GoodAnswers, Good, RerankingIsHonest
<1> QED
  BY <1>1, InvariantGood, PTL

=============================================================================
