----------------------- MODULE IdempotentSubmission -----------------------
(***************************************************************************)
(* POST /commerce/intents/async: any number of HTTP requests reserve an    *)
(* idempotency key in Redis, check the session in the database and append  *)
(* one task to the stream.  Modelled from submit_intent_async,             *)
(* EnqueueIntentUseCase and RedisIdempotency; polling a task changes       *)
(* nothing.                                                                *)
(*                                                                         *)
(* A request proposes a fresh task id, so a task is named by the request   *)
(* that proposed it.  One action is one call to Redis or to the database   *)
(* with what the handler does on its reply.                                *)
(***************************************************************************)
EXTENDS Naturals, FiniteSets

CONSTANTS
    Request,         \* the HTTP requests, repeated ones included
    Buyer,           \* the buyers
    Session,         \* shopping sessions
    Action,          \* what the idempotency key (or the payload) identifies
    RedisKey,        \* the digests
    Digest,          \* that of "buyer:key"; two pairs may join to one text
    BuyerOf,         \* the buyer of each request
    SessionOf,       \* its session, given by the client or generated
    ActionOf,        \* the user action it belongs to
    Nobody,          \* the owner of a session or a reservation that is free
    KeysExpire,      \* may a reservation reach its time to live?
    MaxDisruptions   \* bound: failed calls and crashed requests

ASSUME SubmissionAssumption ==
    /\ BuyerOf \in [Request -> Buyer]
    /\ SessionOf \in [Request -> Session]
    /\ ActionOf \in [Request -> Action]
    /\ Digest \in [Buyer \X Action -> RedisKey]
    /\ Nobody \notin Request \union Buyer
    /\ KeysExpire \in BOOLEAN
    /\ MaxDisruptions \in Nat

VARIABLES
    reservation,     \* Redis: the task id each idempotency key holds
    streamed,        \* Redis: the tasks that were appended to a stream
    status,          \* Redis: the task status records
    owner,           \* database: the buyer each session belongs to
    pc,              \* where the handler of each request is
    attempts,        \* which iteration of its claim loop a request is in
    winner,          \* the task id a request was told by its claim
    response,        \* the HTTP response of each request
    expired,         \* bookkeeping: tasks whose reservation timed out
    lost,            \* bookkeeping: requests that missed the reply of a served call
    unreleased,      \* bookkeeping: requests whose release never reached Redis
    disruptions      \* bookkeeping: disruptions so far

vars == <<reservation, streamed, status, owner, pc, attempts, winner,
          response, expired, lost, unreleased, disruptions>>

\* _request_key
RequestKey(r) == Digest[<<BuyerOf[r], ActionOf[r]>>]

Task == Request

\* An answer with an error code; code 0 is no answer yet.
Failure(r, code) ==
    [code |-> code, task |-> r, session |-> SessionOf[r], state |-> "none", created |-> FALSE]

Accepted(t, session, state, created) ==
    [code |-> 202, task |-> t, session |-> session, state |-> state, created |-> created]

Step == {"claim", "look", "touch", "enqueue", "release409", "release503",
         "readState", "answered", "crashed"}

\* The requests that hold, or believe they hold, their key.
Holding == {r \in Request : pc[r] \in {"touch", "enqueue", "release409", "release503"}}

Init ==
    /\ reservation = [k \in RedisKey |-> Nobody]
    /\ streamed = {}
    /\ status = [t \in Task |-> "none"]
    /\ owner \in [Session -> Buyer \union {Nobody}]
    /\ pc = [r \in Request |-> "claim"]
    /\ attempts = [r \in Request |-> 0]
    /\ winner = [r \in Request |-> r]
    /\ response = [r \in Request |-> Failure(r, 0)]
    /\ expired = {}
    /\ lost = {}
    /\ unreleased = {}
    /\ disruptions = 0

-----------------------------------------------------------------------------
(* Redis and the handlers                                                  *)

Reply == {"served", "lost", "refused"}

\* How the next Redis call may end.
Replies == IF disruptions < MaxDisruptions THEN Reply ELSE {"served"}

Charge(r, reply) ==
    /\ disruptions' = IF reply = "served" THEN disruptions ELSE disruptions + 1
    /\ lost' = IF reply = "lost" THEN lost \union {r} ELSE lost

Goto(r, step) == pc' = [pc EXCEPT ![r] = step]

Answer(r, resp) ==
    /\ Goto(r, "answered")
    /\ response' = [response EXCEPT ![r] = resp]

\* (mutant of Reserve: SET without NX)
ReserveAlways(k, t) == [reservation EXCEPT ![k] = t]

\* SET key task-id NX
Reserve(k, t) ==
    IF reservation[k] = Nobody THEN [reservation EXCEPT ![k] = t] ELSE reservation

\* The first half of an iteration of RedisIdempotency.claim.
Claim(r, reply) ==
    LET k == RequestKey(r) IN
    /\ pc[r] = "claim"
    /\ Charge(r, reply)
    /\ reservation' = IF reply = "refused" THEN reservation ELSE Reserve(k, r)
    /\ IF reply # "served" THEN Answer(r, Failure(r, 503))
       ELSE /\ Goto(r, IF reservation'[k] = r THEN "touch" ELSE "look")
            /\ UNCHANGED response
    /\ UNCHANGED <<streamed, status, owner, attempts, winner, expired, unreleased>>

\* The second half: the key is taken, so its value is read.  A key that
\* vanished in between is claimed once more, then given up.
Look(r, reply) ==
    LET held == reservation[RequestKey(r)] IN
    /\ pc[r] = "look"
    /\ Charge(r, reply)
    /\ \/ /\ reply # "served"
          /\ Answer(r, Failure(r, 503))
          /\ UNCHANGED <<attempts, winner>>
       \/ /\ reply = "served" /\ held # Nobody
          /\ winner' = [winner EXCEPT ![r] = held]
          /\ Goto(r, "readState")
          /\ UNCHANGED <<attempts, response>>
       \/ /\ reply = "served" /\ held = Nobody /\ attempts[r] = 0
          /\ attempts' = [attempts EXCEPT ![r] = @ + 1]
          /\ Goto(r, "claim")
          /\ UNCHANGED <<winner, response>>
       \/ /\ reply = "served" /\ held = Nobody /\ attempts[r] = 1
          /\ Answer(r, Failure(r, 503))
          /\ UNCHANGED <<attempts, winner>>
    /\ UNCHANGED <<reservation, streamed, status, owner, expired, unreleased>>

\* touch_session: the session becomes the buyer's, or is another's.
Touch(r) ==
    /\ pc[r] = "touch"
    /\ \/ /\ owner[SessionOf[r]] \in {Nobody, BuyerOf[r]}
          /\ owner' = [owner EXCEPT ![SessionOf[r]] = BuyerOf[r]]
          /\ Goto(r, "enqueue")
       \/ /\ owner[SessionOf[r]] \notin {Nobody, BuyerOf[r]}
          /\ Goto(r, "release409")
          /\ UNCHANGED owner
    /\ UNCHANGED <<reservation, streamed, status, attempts, winner, response,
                   expired, lost, unreleased, disruptions>>

\* (mutant of TouchFails: the reservation is kept)
TouchFailsKeeping(r) ==
    /\ pc[r] = "touch"
    /\ disruptions < MaxDisruptions
    /\ disruptions' = disruptions + 1
    /\ Answer(r, Failure(r, 503))
    /\ UNCHANGED <<reservation, streamed, status, owner, attempts, winner, expired,
                   lost, unreleased>>

\* touch_session fails for any other reason.
TouchFails(r) ==
    /\ pc[r] = "touch"
    /\ disruptions < MaxDisruptions
    /\ disruptions' = disruptions + 1
    /\ Goto(r, "release503")
    /\ UNCHANGED <<reservation, streamed, status, owner, attempts, winner,
                   response, expired, lost, unreleased>>

\* (mutant of Enqueue: its failure is swallowed)
EnqueueSwallowing(r, reply) ==
    /\ pc[r] = "enqueue"
    /\ Charge(r, reply)
    /\ IF reply = "refused" THEN UNCHANGED <<streamed, status>>
       ELSE /\ streamed' = streamed \union {r}
            /\ status' = [status EXCEPT ![r] = "queued"]
    /\ Answer(r, Accepted(r, SessionOf[r], "queued", TRUE))
    /\ UNCHANGED <<reservation, owner, attempts, winner, expired, unreleased>>

\* One transaction appends the task and creates its status.
Enqueue(r, reply) ==
    /\ pc[r] = "enqueue"
    /\ Charge(r, reply)
    /\ IF reply = "refused" THEN UNCHANGED <<streamed, status>>
       ELSE /\ streamed' = streamed \union {r}
            /\ status' = [status EXCEPT ![r] = "queued"]
    /\ IF reply = "served" THEN Answer(r, Accepted(r, SessionOf[r], "queued", TRUE))
       ELSE Goto(r, "release503") /\ UNCHANGED response
    /\ UNCHANGED <<reservation, owner, attempts, winner, expired, unreleased>>

\* (mutant of Unreserve: DEL without the comparison)
UnreserveAlways(k, t) == [reservation EXCEPT ![k] = Nobody]

\* The compare-and-delete script.
Unreserve(k, t) ==
    IF reservation[k] = t THEN [reservation EXCEPT ![k] = Nobody] ELSE reservation

\* _release_claim swallows its own failure; the request fails either way.
Release(r, reply) ==
    /\ pc[r] \in {"release409", "release503"}
    /\ Charge(r, reply)
    /\ reservation' = IF reply = "refused" THEN reservation ELSE Unreserve(RequestKey(r), r)
    /\ unreleased' = IF reply = "refused" THEN unreleased \union {r} ELSE unreleased
    /\ Answer(r, Failure(r, IF pc[r] = "release409" THEN 409 ELSE 503))
    /\ UNCHANGED <<streamed, status, owner, attempts, winner, expired>>

\* The status of the winning task, or what is known without one.
DuplicateAnswer(r, t) ==
    IF status[t] = "none" THEN Accepted(t, SessionOf[r], "queued", FALSE)
    ELSE Accepted(t, SessionOf[t], status[t], FALSE)

\* A duplicate is answered from the winning task's status.
ReadState(r, reply) ==
    /\ pc[r] = "readState"
    /\ Charge(r, reply)
    /\ Answer(r, IF reply = "served" THEN DuplicateAnswer(r, winner[r]) ELSE Failure(r, 500))
    /\ UNCHANGED <<reservation, streamed, status, owner, attempts, winner, expired, unreleased>>

\* The API process dies while it handles the request.
Crash(r) ==
    /\ pc[r] \notin {"answered", "crashed"}
    /\ disruptions < MaxDisruptions
    /\ disruptions' = disruptions + 1
    /\ Goto(r, "crashed")
    /\ UNCHANGED <<reservation, streamed, status, owner, attempts, winner, response,
                   expired, lost, unreleased>>

\* _IDEMPOTENCY_TTL_SECONDS pass.
ExpireKey(k) ==
    /\ KeysExpire
    /\ reservation[k] # Nobody
    /\ expired' = expired \union {reservation[k]}
    /\ reservation' = [reservation EXCEPT ![k] = Nobody]
    /\ UNCHANGED <<streamed, status, owner, pc, attempts, winner, response, lost,
                   unreleased, disruptions>>

\* A worker starts the task (module TaskDelivery has the details).
Advance(t) ==
    /\ status[t] = "queued"
    /\ status' = [status EXCEPT ![t] = "running"]
    /\ UNCHANGED <<reservation, streamed, owner, pc, attempts, winner, response,
                   expired, lost, unreleased, disruptions>>

Handle(r) ==
    \/ Touch(r)
    \/ TouchFails(r)
    \/ \E reply \in Replies :
          \/ Claim(r, reply)
          \/ Look(r, reply)
          \/ Enqueue(r, reply)
          \/ Release(r, reply)
          \/ ReadState(r, reply)

Next ==
    \/ \E r \in Request : Handle(r) \/ Crash(r) \/ Advance(r)
    \/ \E k \in RedisKey : ExpireKey(k)

Spec == Init /\ [][Next]_vars

-----------------------------------------------------------------------------
(* Properties of every behaviour                                           *)

\* An accepted request is told the state of a task.
Response ==
    [code : {0, 409, 500, 503}, task : Task, session : Session,
     state : {"none"}, created : {FALSE}]
    \union
    [code : {202}, task : Task, session : Session,
     state : {"queued", "running"}, created : BOOLEAN]

\* The types: what each variable can hold.
TypeOK ==
    /\ reservation \in [RedisKey -> Task \union {Nobody}]
    /\ streamed \subseteq Task
    /\ status \in [Task -> {"none", "queued", "running"}]
    /\ owner \in [Session -> Buyer \union {Nobody}]
    /\ pc \in [Request -> Step]
    /\ attempts \in [Request -> 0..1]
    /\ winner \in [Request -> Task]
    /\ response \in [Request -> Response]
    /\ expired \subseteq Task
    /\ lost \subseteq Request
    /\ unreleased \subseteq Request
    /\ disruptions \in Nat

Created(r) == response[r].code = 202 /\ response[r].created

\* Until its time to live is over, a reservation belongs to the request that
\* acquired it, from the claim until it releases it and, once its task was
\* accepted, for good: no other caller's release takes it away.
\* (the compare-and-delete of RedisIdempotency.release)
ReservationKept ==
    \A r \in Request \ expired :
        r \in Holding \/ Created(r) => reservation[RequestKey(r)] = r

Failed(r) == response[r].code \notin {0, 202}

\* No request is told of a task that nobody makes: the task it is given has its
\* own key and is in a stream, or the request that proposed it is still at
\* work, unless that one failed or died, which the duplicate is not told.
\* ("Concurrent or retried callers receive the winning task ID")
NoPhantomTask ==
    \A r \in Request : response[r].code = 202 =>
        LET t == response[r].task IN
        /\ RequestKey(t) = RequestKey(r)
        /\ t \in streamed \union Holding \/ Failed(t) \/ pc[t] = "crashed"

\* However often an action is submitted, and whichever calls fail and handlers
\* die, it becomes one task, unless its reservation expired or the reply of a
\* call that was served got lost.  ("Only the first caller acquires the key")
OneTaskPerAction ==
    \A r, q \in streamed \ (expired \union lost) : RequestKey(r) = RequestKey(q) => r = q

\* A request that failed can be repeated: it left no task and no reservation,
\* whatever else fails, unless it missed the reply of a call that was served
\* or its own release failed.  (_release_claim after touch_session and after
\* enqueue)
FailureLeavesNoTrace ==
    \A r \in Request \ (lost \union unreleased) :
        Failed(r) => r \notin streamed /\ reservation[RequestKey(r)] # r

-----------------------------------------------------------------------------
(* A statement of the documentation                                        *)

\* Retried callers never create duplicate work.  ("returns `503` instead of
\* guessing and possibly creating duplicate work")
NoDuplicateWork == \A r, q \in streamed : RequestKey(r) = RequestKey(q) => r = q

=============================================================================
