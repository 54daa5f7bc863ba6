# TLA+ models of the Globex commerce agent

Specifications, TLC checks and TLAPS proofs for the program in this repository:
a FastAPI service that accepts shopping intents, a Redis-Streams task queue, worker
processes that run an LLM agent per shopping session, an order and inventory domain,
and a browser client. Every definition is translated from the code under `app/`
(`src/app/` in `PROJECT.json`); the documents under `docs/` are quoted only where they
state something the code is compared with.

## 1. The system

| Part | State it keeps | Operations | What is hard |
|---|---|---|---|
| Intent delivery: `infrastructure/queue/redis_stream_queue.py`, `worker.py` | two streams, one consumer group (last-delivered id, pending list, idle times, delivery counts), dead-letter stream, status records; per worker the loop position, free slots, claim cursors, running coroutines | `enqueue`, `consume`, `_claim_stale_tasks`, `_read_new_tasks`, `_handle_one`, `_move_to_dead_letter`, `set_status`, `get_status`, `process_task`, stop signals | at-least-once delivery, idle claims racing slow handlers, crashes between any two calls, lost replies, retry limit, starvation, graceful stop |
| Submission: `presentation/server.py`, `usecases/enqueue_intent.py`, `cache/redis_idempotency.py` | idempotency keys with a TTL, session owners, status records | `submit_intent_async`, `execute`, `claim`, `release`, `get_task_status` | repeated and concurrent requests, failures after the claim, expiry |
| Orders: `usecases/place_order.py`, `cancel_order.py`, `order_access.py`, `domain/order`, `domain/catalog/sku.py`, in-memory repositories | stock per SKU, orders by id, id counter | place, cancel, query | use cases that suspend between reading and writing shared objects, compensation |
| Session turns: `agents/orchestrator.py`, `session_registry.py`, `sql_conversation_store.py`, `sql_session_store.py` | per process one agent per session with a lock; database snapshots, turns and events | `handle_intent`, `get_or_create`, `persist`, `append_turn`, `append_events` | creation and execution locks, swallowed store failures, several processes on one session |
| Reply cache and preferences: `cache/semantic_cache.py`, `redis_cache.py`, `memory/preference_selector.py`, `tools/preference_tools.py`, `sql_preference_store.py` | one bucket of replies in Redis per prompt, models, buyer and preference fingerprint; the buyers' preferences; `_injected_preferences` of a process | `lookup`, `remember`, `select`, `_build_agent_inputs`, remember and forget a preference | a bucket's read-modify-write without a lock, the fingerprint read before and after the agent ran, a hint given once but kept in a restorable state |
| Events: `eventbus.py`, `redis_event_backplane.py`, `connection.py`, `frontend/src/App.tsx`, `eventStream.ts`, `api.ts` | subscriber queues, pending publishes, transcript of the browser | `publish`, `deliver_remote`, `listen`, `serve`, polling, `appendFinalTurn` | independent publish tasks, reconnects, polling and events delivering one answer twice |
| Product retrieval: `vector/index_bootstrap.py`, `qdrant_product_index.py`, `cache/cached_embedding_client.py`, `usecases/catalog_search.py`, `rerank/http_reranker.py` | one Qdrant collection of points with fingerprints, cached vectors in Redis | `bootstrap_product_index` at every start, `embed_batch`, `execute` with recall, reranking, keyword fallback and constraints | several processes and releases over one index and one cache, partial failure, aligning scores with products |
| Category knowledge: `rag/category_knowledge.py` | documents of an external knowledge base | ingestion at every start | decided in the external library |
| Agents and tools, settings, wiring, JSON stores | none of their own, or superseded | | |

The browser submits to the API, which reserves the key, checks the session in the database and
appends to a stream; a worker reads the stream, runs the orchestrator and writes the status record
the browser polls. The orchestrator publishes events through the bus and the Redis backplane to the
API process that holds the browser's WebSocket. Order tools run inside the agent and call the order
use cases of the worker's own process.

## 2. Modules

| Module | Models |
|---|---|
| `AtLeastOnceQueue` | what delivery promises, abstractly |
| `TaskDelivery` | streams, group, status records and worker processes, one action per Redis call |
| `TaskDelivery_proofs` | its theorems |
| `IdempotentSubmission`, `IdempotentSubmission_proofs` | the asynchronous endpoint |
| `Orders`, `Orders_proofs` | placing and cancelling orders |
| `SessionTurns`, `SessionTurns_proofs` | `handle_intent` between the session registry, the agent and the database |
| `LiveTranscript`, `LiveTranscript_proofs` | what one browser tab shows, with the event stream and the history behind it |
| `ReplyCache`, `ReplyCache_proofs` | `handle_intent` between the semantic cache, the preferences and the agent |
| `ProductSearch`, `ProductSearch_proofs` | starting processes that bring the vector index up to date, and searches over it |
| `Lists`, `Lists_proofs` | a list comprehension with a condition, without recursion, what it returns, and facts about naturals and ranks that several proofs need |
| `MC*` | instances and symmetries for TLC |

### TaskDelivery

A coroutine can be interrupted only where it awaits, so an action is one Redis call with everything
the coroutine does on its reply until the next call. Each call is *served*, *lost* (executed, the reply never
arrives) or *refused* (never executed); `MaxDisruptions` bounds the calls that are not
served together with crashes and stop requests. A task is one stream entry; its position stands for the entry id.

| State | Code |
|---|---|
| `entry`, `last`, `group`, `delivered`, `pending`, `stale`, `deliveries` | streams and consumer group. Who owns a pending entry is left out: no code path reads it. `stale` says that the entry has been idle for `_CLAIM_IDLE_MS` |
| `dead` | entries of `globex:intents:dead` |
| `status` | the status record, `none` when absent or expired |
| `phase`, `stopping`, `budget`, `cursor` | the position of `consume`, `should_stop`, `available`/`remaining`, `_claim_cursors` |
| `jobs` | the `_handle_one` coroutines, each at the call it is about to make |

`ClaimStale` is an XAUTOCLAIM of one stream: it inspects entries from the cursor on until it has
claimed `count` or inspected `count * ScanFactor` (10 in Redis), and moves the cursor.
`ReadNew` is an XREADGROUP, the large stream only when the normal one had nothing. `RejectPayload`
... `AcknowledgeDead` are the calls of `_handle_one` around `process_task`. A malformed task stands for a
payload written by another version of the producer. `Execute` is the agent; it succeeds or raises, and it
ends: the code sets no timeout on it, so a handler that never ends is outside the model. `SlowTask` are the tasks whose
executions may last longer than the claim idle time; slow and prompt ones share the streams and the workers.
Of `get_status` the record is modelled and the queue position is not: `depth` calls its value approximate, and `_stream_depth`
answers 0 when XINFO fails.

### IdempotentSubmission

`pc` is the await each request is at; a task is named by the request that proposed its id. `Claim` and
`Look` are the two calls of `RedisIdempotency.claim`, which tries twice (`attempts`); `Touch` is
`touch_session`; `Release` the compare-and-delete script; `ReadState` the status lookup of a duplicate. `lost`,
`expired`, `unreleased` (the request's own release never reached Redis) and `disruptions` are bookkeeping that the properties refer to.
`_request_key` joins buyer and key with a colon before it hashes them, and both are free strings that may contain one, so
`Digest` is any function of the pair: no property assumes that two buyers have different Redis keys.
`get_task_status` changes no state and is left out.
A client library that repeats an XADD on its own is not modelled.

### Orders

A repository hands out the object it keeps, as the in-memory adapters do. They never suspend, but the
use cases await them and the ports allow it, so an action is one answer of a repository and what follows it.
`PlacementFails` and `CancellationFails` are a raising call or a cancelled coroutine. A save that fails has saved
nothing: `docs/chapter-09.en.md:102` concedes that a lost reply of a remote save is not handled.

### SessionTurns

An action is one call of a store, a lock or the agent by one `handle_intent`, with everything up to its next await; `pc`
names the await. An agent is named by the call that built it, so an agent's session, process and buyer are those
of that call.

| State | Code |
|---|---|
| `registry`, `creating` | `SessionRegistry._sessions` of each process and its `_creation_lock` |
| `running` | `execution_lock` of an agent's entry |
| `context`, `snapshot` | the messages in `AgentState`, alive and saved, as the calls they came from |
| `owner`, `turns`, `recorded` | session row, turn rows in the order of `turn_index`, event rows |
| `trace`, `place`, `answer` | a call's trace queue, the index `append_turn` has read, where the reply came from |

A call of a store succeeds or changes nothing; a lost reply of a commit is not modelled (the stores
are SQLite files). `MaxFaults` bounds failed store calls, raising agents and crashes together. The agent and
the reply cache are choices: reply or error, hit or miss. asyncio locks are FIFO; the model lets any
waiter go next, which is weaker. Events that arrive from other processes' buses in a trace queue are left out,
therefore `TraceIsOwn` is checked for one process. `forgetful` and `faults` are bookkeeping.

### LiveTranscript

| State | Code |
|---|---|
| `session`, `turns`, `stream`, `history` | `sessionId`, `turns`, the streamed text (as the set of replies it mixes), `historyLoading` |
| `waiting` | where `send` awaits; `busy` unless it is `no` |
| `fetched`, `wire` | the response of the history request; the API's queue for the page's socket and the socket itself |
| `task`, `attempt` | how far the worker is with an intent, and how often it was executed |
| `publishing` | `_publishing` tasks of the worker's bus and Redis |
| `stored` | the conversation's turns |

An action is a React event handler, effect or promise continuation (they are atomic in a browser), or a step of the service
between two things the page can see. `Forward` loses an event or puts it at the end of the wire; `publishing` is a set, so
events overtake each other there and nowhere else. `Disconnect` loses what the wire holds. The texts of two
executions of an intent differ. The events timeline, notices, the connection label and the double effects of React's
development mode are left out. `startNewConversation` is guarded by `busy` in the function and by `historyLoading` in its button;
`MayStartNew` is both. The outcome of a page after a reload is not constrained for intents sent before it: the history may be read before the
worker records the turns and replace an answer that an event has just shown.

### ReplyCache

An action is one call to Redis, SQLite, the embedding service or the agent's tools by one `handle_intent`, with what the code does up to
its next await. One process serves the calls; `Restart` is a crash with a new prompt or model.

| State | Code |
|---|---|
| `preferences` | rows of the preference table of each buyer, by id |
| `bucket` | the JSON lists in Redis; a `Key` is what `_bucket_key` hashes: `version` (prompt, chat and embedding model), buyer, fingerprint. The fingerprint stands as the list it is computed from |
| `turned`, `snapshot` | sessions with a recorded turn; saved agent states. Of an agent's state the model keeps whether it has begun and the last hint in it |
| `context`, `injected` | live agent states, `_injected_preferences` |
| `ask`, `pc`, `local` | a call's session and query, its await, its local variables |
| `recent`, `lossy` | bookkeeping: what atomic updates would have left, and for which keys that is not claimed |

`Begin` ... `Lookup` are `_has_history`, `_preference_scope` and `SemanticCache.lookup`; `BuildInputs` is `_build_agent_inputs` with
`PreferenceSelector.select`; `Tool` is what the agent may call; `AgentReplies` ... `Store` are `_remember_cache` with its second fingerprint,
the read of the bucket and the write back; `Finish` persists and records. Queries are model values, the cosine of two of them is the
constant `Similarity`, and `Cacheable` stands for the regular expression of unsafe queries. `lookup` compares each cosine with the
best one's *rounded* value, so it may return an entry that is not the most similar: `BestHits` are the entries that are maximal after
`Rounded`. Ranking among likes by relevance is a choice
of any `TopK` of them.

### ProductSearch

Each process runs a *release*: endpoint, model, reranker or none, and the catalog that is part of the image. A vector is the record of
endpoint, model and text it was computed from; `Dimension` says how long it is and `Similarity` the cosine of two texts under one model. The
cosine of vectors of two models has no meaning: any value of `Score`. A product's category, which the search looks for as a
substring, is the set of the category names it contains. The embedding endpoint is taken to number its vectors as it was asked
(`_embed_batch` sorts by that number and checks only how many there are).

| State | Code |
|---|---|
| `collection`, `point` | Qdrant: the vector size, and per product the vector and `_generate_fingerprint`'s payload |
| `cached` | Redis: vectors by `CachedEmbeddingClient._key`, model and text |
| `release`, `pc`, `pending`, `vectors`, `indexed` | a process's release, where `Container.startup` is, the products to embed, their vectors, what `bootstrap_product_index` returned |
| `search`, `answer` | the search a process executes and its last result, with what it was made of |
| `disturbed` | bookkeeping: another release wrote points since this process read the fingerprints |

`ReadFingerprints`, `EmbedPending`, `CheckCollection`, `CreateCollection`, `Upsert` are the awaits of a bootstrap; each may fail, which the
code logs and forgets, and `Upsert` may fail after it was carried out. `BeginSearch` embeds the query, `FinishSearch` is the rest of
`CatalogSearchUseCase.execute`: recall, products the catalog lacks dropped, reranking by the response of the service (`Response`: in and out of
order, an index twice, too short), hard constraints, cut to `top_k`; or the keyword recall. The recall and the reranking are one action:
nothing they read in between can change what they return except the index, which they read once. The reads and writes of one batch in the
cache are one action, too; a process that writes between them is one whose entry was not found.

## 3. Runs

| Run | Instance | Shows |
|---|---|---|
| `delivery_faults` | 2 workers, a slow normal and a prompt large task, 2 deliveries, 1 disruption | `NothingLost`, `VerdictEarned`, `QueuedMeansWaiting`, `ConcurrencyExact`, and that the queue implements `AtLeastOnceQueue`; of the prompt task `ExclusiveExecution`, `RetryingIsPending`, `DoneIsFinal` |
| `delivery_live` | 1 worker, a good and a malformed task, 1 disruption, fair | `EventuallySettled`, `VerdictReached`, `StopObeyed` |
| `delivery_retrying` | 1 slow task, 2 workers | `RetryingRemainsPending` violated: a divergence from the documents |
| `submit_races` | 3 requests, 2 buyers, one digest, 2 failures, expiring keys | `ReservationKept`, `NoPhantomTask`, `OneTaskPerAction`, `FailureLeavesNoTrace` |
| `submit_lost_reply` | 2 requests | `NoDuplicateWork` violated: a divergence |
| `orders_overlap` | 4 placements, 2 cancellations, 4 SKUs, 2 failures | `TypeOK` (no oversold SKU), `StockConserved`, `OrderKept`, `CancelledOnceByOwner` |
| `turns` | 3 calls on one session, one by another buyer, 2 processes, 1 fault, fair | `OneAgentPerSession`, `BuyersApart`, `AnswerFollowsQuestion`; where one process serves the session `TurnsInPairs`, `RecordedIsRemembered`, `TraceIsOwn`; `CachedReplyOpensSession`, `EveryCallEnds` |
| `transcript_page` | 2 intents, the first executed up to twice, 2 conversations, 1 reload, 2 events under way | `TypeOK`, `OneConversation`, `AnswersStandBelowQuestions` |
| `transcript_late` | 2 intents, each executed once, 1 conversation, no reload | `FinalReplyOnce` violated: a divergence |
| `replies` | 3 calls, 2 at a time, 4 workloads over 4 sessions of 2 buyers, buckets of 2 entries, 1 fault, 1 change of preferences, expiring buckets | `ReuseIsOwn`, `ReuseFitsPreferences`, `BucketIsRecent`, `DislikesAreTold` |
| `replies_preferences` | the same without faults | `ReuseFollowsPreferences` violated: a divergence |
| `search` | 2 processes, 3 releases, 3 starts, 1 search, 1 failed call, expiring vectors, an empty or an old index | `FingerprintTellsVector`, `BootstrapLeavesCurrentIndex`, `RecallComparesLike`, `NothingThatFitsIsMissed`, `RerankingIsHonest` |

**Bounds.** Two workers are needed for a claim to race an execution and two tasks for cursors and scan
limits to matter; the retry limit 2 lets a task be retried before it is buried.
`DeliveryBound` stops an entry that was delivered that often from going stale again and exceeds the retry limit, so a delivery
after the verdict is explored. One disruption already separates every two calls of every
coroutine; `submit_races` uses two because a release must itself be able to fail. With `ScanFactor` 1 or 2 an
XAUTOCLAIM stops before the end of a two-entry list, which with the real factor 10 would take eleven entries. `orders_overlap` has
opposite item orders, a shared scarce SKU, mixed currencies and an unknown SKU, so each way a placement fails
happens while others overlap it.

Three calls on a session let two wait for a lock while a third holds it, and `owner` starts with any buyer or none, so that
conversations older than the run are covered. `p1` alone may serve all calls, which is where the properties of one process apply. In `transcript_page` a second event is what lets one overtake another; the
constraint `FewEvents` of the MC module cuts states with more, not the events themselves, which may always be lost.

`delivery_faults` checks `ConcurrencyExact` with one slot per worker and one task on each stream: a worker that claims from both
streams with its full budget exceeds it. Its slow task is claimed while it runs and its prompt one is not, so that what is claimed of
the prompt one is checked next to superseded executions. Malformed payloads, which need no second worker, are in `delivery_live`.

`replies` has one workload for each thing a bucket can do wrong: two similar queries and another buyer's, more queries than the bucket
holds, a second turn with an unsafe query, one query in two sessions. `search` moves the first release's model to an endpoint with longer
vectors and replaces its model, one text and one product in the third; `RecallTopN` 2 is less than the products both catalogs have
together, so that stale points can crowd the recall (`crowded`), and small enough for the reranker's answers to be listed.

**Symmetry** is used by the safety runs of `TaskDelivery` and `ProductSearch`: workers or processes are interchangeable, and so are tasks
of one stream, payload kind and speed. The other state machines have no symmetric constants.

**Deadlock** is checked wherever workers run. The submission and order runs end when every
call has been answered, and so do those of the other modules (no call, intent, event or start is left): their cfgs say `CHECK_DEADLOCK FALSE`.

**Fairness** (`TaskDelivery!Fairness`). The asyncio loop runs every ready coroutine: weak fairness on the loop of
each worker and on the coroutines each holds for a task. Time passes: weak fairness on an idle entry going stale. A worker that
went down is started again by whoever supervises it; the code has no supervisor, the assumption is that of its deployment. Nothing
is assumed of the outcome of an execution, of stop requests or of submissions.
`SessionTurns!FairSpec`: every await of a call is answered some time (stores and the agent answer or raise, a lock that is free is
taken), one weak fairness per call. Weak fairness is enough although a lock can be free and taken again, because calls are finitely
many; with asyncio's FIFO locks it holds for any number.

**Mutants.** Each property of a passing run has a mutant of the mapped code that violates it: the operator
above the definition it replaces, marked `(mutant of ...)`. No specification uses them.

## 4. Findings

* `delivery_retrying`: when an execution outlasts `_CLAIM_IDLE_MS` (60 s) a second worker claims its entry, and the superseded execution, failing later, writes `retrying` after the message was acknowledged.
* `submit_lost_reply`: the reply of a served enqueue is lost, the reservation is released, and the repetition of the request makes a second task.
* `replies_preferences`: the fingerprint under which a reply is stored is read after the agent ran. When preferences change meanwhile, a reply made from the old ones is stored and reused under the new ones.
* `transcript_late`: `appendFinalTurn` (`App.tsx:41`) compares with the last turn only, so that an event that arrives after polling showed the answer and after the next question shows the answer a second time. `docs/chapter-19.en.md:183` says the frontend deduplicates the two.

Seen while modelling, without a run:

* a duplicate request that overtakes the winner's enqueue is answered with its own generated session (`server.py:208-217`), although
  `docs/chapter-19.en.md:106` promises the winner's; when the winner then fails, its id names a task that never exists;
* the record of a malformed payload says `queued` until it expires: dead-lettering writes no status (`redis_stream_queue.py:413`);
* two pairs of buyer and idempotency key that join to one text (`enqueue_intent.py:152-155`) share a reservation, and the later request is told
  of the earlier one's task;
* after a failed bootstrap `index_bootstrap.py:97` logs a degradation to keyword search, but searches go on using the old points; and
  two processes that start on an empty Qdrant may both see no collection, one of which then fails to create it and serves without its own points;
* a cached vector's key names the model and not the endpoint. After a move to an endpoint whose vectors of that model differ, old vectors come
  under new fingerprints (`OneEndpoint` in `FingerprintTellsVector`), and if lengths differ the bootstrap fails until the cache expires;
  if all vectors have a new length, every upsert is refused by the old collection;
* points of products that left the catalog stay in the index (`docs/chapter-13.en.md:111` concedes it);
* two replies that overlap on one bucket lose one (`docs/chapter-19.en.md:228` concedes it).

## 5. Proofs

TLAPS checks every theorem for all values of the constants that satisfy the modules' `ASSUME`s.

*TaskDelivery.* `IInv` conjoins `TypeOK` with: positions within a stream are distinct and bounded by `last` (so the entries a read hands
out are exactly those between two positions); whatever was not handed out has no deliveries, is not pending and has no outcome;
handed-out entries are pending, answered or dead-lettered; a coroutine past `saveDone` has an answered task, one past `saveFailed` a task with enough deliveries.
None of `NothingLost`, `VerdictEarned` is inductive without these. `ExecutionsAreExclusive` adds that a task outside
`SlowTask` with a coroutine is not stale and was handed to nobody else, whatever runs next to it. `ConcurrencyIsExact` counts: the coroutines of a worker and
the slots its iteration still counts on are at most `Concurrency` (`SlotsInv`), which a claim and a read keep because the entries they hand
out are distinct (`PlacesInv`, by ranks) and no more than asked for. `QueuedIsWaiting` adds that
a coroutine that is about to bury its task has changed the record from `queued` before (`QueuedInv`). `RetryingStaysPending`
adds that a prompt coroutine's task is pending and one past its verdict has left no `retrying` behind (`PromiseInv`); `DoneStaysDone` that
a `done` prompt task is acknowledged or about to be, while nothing failed, and that no coroutine runs for an acknowledged one, which needs no such
condition. `DeliveryRefinesQueue` maps each step to a step of
`AtLeastOnceQueue` or a stutter; it needs that an entry with deliveries that is not pending has an outcome.
`SettledForGood` carries a promise of the abstract queue over: what was acknowledged is never handed out again.

*IdempotentSubmission.* Between `Claim` and `Release` the key of a request that has not expired holds that request, and a winner has the
same key as the request it answers. With the invariant that streamed tasks either hold their key, expired or lost a reply this gives `OneTaskForEachAction` without any assumption on failures.
`NoTaskIsPhantom` follows the set of requests a claim may name (`Known`: their task is in a stream, they still hold their key, or they failed or
died): no step leaves it (`KnownStays`), and reservations, what a claim was told and accepted responses name its members only (`KnownInv`).
`FailuresLeaveNoTrace` follows what a request holds at each await (`TraceInv`): one that missed no reply and whose release, if it came to one,
reached Redis does not hold its key before its claim and after its failure.

*Orders.* Ids of made orders are distinct, positive and at most the counter; a saved order is saved under its own id; a cancellation past its
check has a cancelled target, and no two have the same.
`StockIsConserved` says of each SKU that what a step takes from the stock exactly one placement holds more (`Moves`), for each of the
actions, and that only confirmed orders are saved (`ConfirmedInv`). What it is about is a sum over the placements, `SumFunction`, which the library
defines by recursion over the subsets of a set. Its equation needs a function that satisfies it: partial sums over the subsets of at most
*n* elements exist for each *n*, and a set of naturals or of subsets that is closed under the step is the whole (`EveryNatural`, `EverySubset`: least
elements stand for induction, so no operator is a parameter). From it, a sum changes by what one of its terms does (`SumChange`). Placements must be finitely many.

*SessionTurns.* `IInv` conjoins `TypeOK` and the three properties with what their steps need. `AgentInv`: a call that works with an agent works with the one
its process keeps for the session, built for the same buyer; this is what `OneAgentPerSession` follows from, and what makes
`RunAgent` and `Persist` keep `OneBuyerPerAgent`. `CreationInv`: a call that loads a session holds the creation lock of its process and
no agent was built before it; without it `Build` could replace an agent that other calls work with. `OwnerInv`: a call that appends turns owns the conversation, for which no
other buyer's `Touch` can change the owner. `QuestionInv`: before it appends the answer a call has appended its question; turns are only ever appended, so it stays.
For the sessions that one process serves: whoever works with a session holds its agent's lock (`LockInv`), so a trace queue gets events of its own call only
(`TracesAreOwn`), a call about to append its answer finds its question last (`PairInv`, `PairsStandTogether`), and a reply
from the cache is looked for and recorded in a conversation without turns (`CachedInv`, `CachedReplyOpens`). `RecordedTurnsRemembered` adds that the live state contains
what was saved, and a call whose agent ran is in the live state, then in the saved one (`MemoryInv`); `SavedStateOnlyGrows` is the action
property behind it: no step removes a call from a saved state. The assumptions are only that calls have a session and a buyer and that `None` is neither.

*ReplyCache.* `IInv` conjoins `TypeOK` with `BucketsFit`: an entry was made by a call of the key's buyer, by its version and scope, for a
cacheable query, as a first turn; and `CallFits`: what each call knows at each await. A reuse happens at `Lookup` only, where the
hit it returns is an element of the bucket at or above the threshold, whichever of the best ones it is.
A write keeps `BucketsFit` because `Others` and `Latest` only drop entries: `Lists_proofs!SubsequenceType`, proved without induction from
the counting of positions (the rank of the k-th kept position is k, an injection into an interval of equal size).
`BucketsAreRecent` compares each bucket with what atomic updates would have left: a call that read a bucket nobody wrote since has its
other entries (`LoadedInv`), and dropping an entry, appending and cutting to the limit commute with that. `DislikesReachTheAgent` follows the hint: a session has one open call
(`OneOpen`); between runs the hint injected last is the one in the agent's state (`InjectedAt`); and a call that read the preferences has a hint that
covers the list it read (`CallHint`). Both are claimed
for what no crash or failed call disturbed (`lossy`, `disturbed`, `Unfailed`), as the properties are.

*ProductSearch.* `IInv` conjoins `TypeOK` with `KeyTellsVector` (a cached vector has the model and text of its key), `PendingMatch` (a vector about
to be written has its product's text and the release's model), `FingerprintTellsVector` and `RestIsCurrent`: until another release
writes, what a startup skipped is up to date. The last one is what overlapping startups keep: a write of the same release only makes points current, one of
another release sets `disturbed`. `LikeIsCompared` adds `SearchIsOwn`: a search carries a vector by its process's model; the
products it recalls are the catalog's, and so current. `NothingIsMissed` and
`RerankingIsTrue` are about each process's last answer (`GoodAnswers`), which only `FinishSearch` writes. What they need is that the sorting, given
as the ranks of its elements, has every element once and a better one first (`SortOf`); that an uncrowded recall of a settled index has the whole catalog; that a valid
response speaks of each document once (`SpeaksOnce`); and that the hits are those ranked products that meet the constraints, in that order, all of
them if fewer than `top_k`. `ScoringAssumption` adds that scores are naturals and products finitely many. The assumptions are that catalogs have their products and texts among the constants', a
vector has some length, and points found at first have the vector their fingerprint names, or no fingerprint.

*LiveTranscript.* All that is on the page or about to get there, the response to a history request and the events of its wire, is of the
session it shows, and nothing was asked while it loads (`PageInv`); the service knows only intents that were sent, and keeps each in its
session (`ServiceInv`). That is what `ConversationsKeptApart` and `AnswersFollow` rest on: a reload or a switch of conversations empties
both paths. The number of intents, sessions and
executions is any; the events on the wire are not bounded.

*Only model-checked:* liveness (`EventuallySettled`, `VerdictReached`, `StopObeyed`, `EveryCallEnds`), because fairness and ENABLED are out of the
prover's reach. Every invariant and action property that a passing run checks is also a theorem.

## 6. Not modelled

* LLM calls, prompts and tool schemas, other than as a step that calls tools and answers or raises; HTTP validation and wording;
  settings, wiring and the command line; the benchmarks; the layout of the React client, its timeline and connection label.
* The queue position of `get_status` and the health endpoint's depth: approximate by their own comment, and 0 when XINFO fails.
* The JSON file stores: `composition.py` builds the SQL stores, only their own tests construct the others.
* Category knowledge: a loop that inserts the documents an external knowledge base does not list; what an interrupted or raced insertion
  leaves is decided in that library.
* The queue's and the backplane's client library repeating calls on its own; lost replies of SQLite commits.
* Several processes with one session beyond what `SessionTurns` keeps of it: `docs/chapter-19.en.md:235` concedes that one session must be
  served by one process. `ReplyCache` has one process. API and worker processes each have their own in-memory products and orders
  (`composition.py:214`); `Orders` models one process.

## 7. Plan

1. A run of `docs/chapter-19.en.md:106`, the session a duplicate is answered with (section 4), and what a duplicate may rely on instead.
2. `TaskDelivery` composed with `IdempotentSubmission`, so that one action becomes one *execution* that ends. Both share
   the status record only; the composition would replace `IdempotentSubmission`'s enqueue by `TaskDelivery`'s.
3. `SessionTurns` composed with `ReplyCache`: the hit or miss that is a choice in the first is computed in the second.
