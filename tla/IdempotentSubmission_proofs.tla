-------------------- MODULE IdempotentSubmission_proofs --------------------
(***************************************************************************)
(* Proofs about IdempotentSubmission, for any requests, buyers, sessions   *)
(* and actions and any number of disruptions.                              *)
(***************************************************************************)
EXTENDS IdempotentSubmission, TLAPS

USE SubmissionAssumption

\* What a reservation or a claim names is a task of the right key.
KeysMatch ==
    /\ \A k \in RedisKey : reservation[k] # Nobody => RequestKey(reservation[k]) = k
    /\ \A r \in Request : RequestKey(winner[r]) = RequestKey(r)

\* Only a request that has ended has a response, and the task it names has
\* the key of the request.
ResponsesMatch ==
    /\ pc \in [Request -> Step]
    /\ response \in [Request -> Response]
    /\ \A r \in Request :
          /\ response[r].code # 0 => pc[r] = "answered"
          /\ response[r].code = 202 => RequestKey(response[r].task) = RequestKey(r)

IInv == TypeOK /\ ReservationKept /\ KeysMatch /\ ResponsesMatch

\* A request's key is one of the Redis keys.
LEMMA KeyType == \A r \in Request : RequestKey(r) \in RedisKey
BY DEF RequestKey

\* What the two kinds of responses contain.
LEMMA FailureType ==
    ASSUME NEW r \in Request, NEW code \in {0, 409, 500, 503}
    PROVE  Failure(r, code) \in Response /\ Failure(r, code).code = code
BY DEF Failure, Response, Task

\* (the same for the request whose task was appended)
LEMMA CreatedType ==
    ASSUME NEW r \in Request
    PROVE  /\ Accepted(r, SessionOf[r], "queued", TRUE) \in Response
           /\ Accepted(r, SessionOf[r], "queued", TRUE).code = 202
           /\ Accepted(r, SessionOf[r], "queued", TRUE).task = r
           /\ Accepted(r, SessionOf[r], "queued", TRUE).created
BY DEF Accepted, Response, Task

\* A handler that answers its request.
LEMMA AnswerStep ==
    ASSUME IInv, NEW r \in Request, NEW resp \in Response, Answer(r, resp),
           resp.code = 202 => RequestKey(resp.task) = RequestKey(r)
    PROVE  ResponsesMatch' /\ response' = [response EXCEPT ![r] = resp]
BY DEF IInv, TypeOK, ResponsesMatch, Answer, Goto, Step

\* A handler that goes on.
LEMMA GotoStep ==
    ASSUME IInv, NEW r \in Request, NEW step \in Step, Goto(r, step), pc[r] # "answered",
           UNCHANGED response
    PROVE  ResponsesMatch'
BY DEF IInv, TypeOK, ResponsesMatch, Goto

\* The initial states satisfy the invariant.
LEMMA InitIInv == Init => IInv
<1> SUFFICES ASSUME Init PROVE IInv
  OBVIOUS
<1>1. TypeOK
  BY DEF Init, Failure, Response, TypeOK, Step, Task
<1>2. ReservationKept
  BY DEF Init, Failure, Response, ReservationKept, Holding, Created
<1>3. KeysMatch
  BY DEF Init, KeysMatch
<1>4. ResponsesMatch
  BY <1>1, FailureType DEF Init, TypeOK, ResponsesMatch
<1> QED
  BY <1>1, <1>2, <1>3, <1>4 DEF IInv

\* A claim, whether the key is free, taken or unreachable.
LEMMA ClaimStep ==
    ASSUME IInv, NEW r \in Request, NEW reply \in Reply,
           Claim(r, reply)
    PROVE  IInv'
<1>1. ResponsesMatch'
  BY FailureType, AnswerStep, GotoStep DEF Claim, Step
<1>2. reservation' \in [RedisKey -> Task \union {Nobody}] /\ KeysMatch'
  BY KeyType DEF IInv, TypeOK, KeysMatch, Claim, Task, Reserve
<1>3. attempts' \in [Request -> 0..1] /\ winner' \in [Request -> Task]
  BY KeyType DEF IInv, TypeOK, Claim, Answer, Goto, Task
<1>4. TypeOK'
  BY <1>1, <1>2, <1>3 DEF IInv, TypeOK, ResponsesMatch, Claim, Charge, Task
<1>5. ReservationKept'
  BY <1>1, KeyType, FailureType
  DEF IInv, TypeOK, ReservationKept, Holding, Created, Claim, Answer, Goto, Task, Reserve
<1> QED
  BY <1>1, <1>2, <1>3, <1>4, <1>5 DEF IInv

\* The reading of a key that is taken.
LEMMA LookStep ==
    ASSUME IInv, NEW r \in Request, NEW reply \in Reply,
           Look(r, reply)
    PROVE  IInv'
<1>1. ResponsesMatch'
  BY FailureType, AnswerStep, GotoStep DEF Look, Step
<1>2. reservation' \in [RedisKey -> Task \union {Nobody}] /\ KeysMatch'
  BY KeyType DEF IInv, TypeOK, KeysMatch, Look, Task
<1>3. attempts' \in [Request -> 0..1] /\ winner' \in [Request -> Task]
  BY KeyType DEF IInv, TypeOK, Look, Answer, Goto, Task
<1>4. TypeOK'
  BY <1>1, <1>2, <1>3 DEF IInv, TypeOK, ResponsesMatch, Look, Charge, Task
<1>5. ReservationKept'
  BY <1>1, KeyType, FailureType
  DEF IInv, TypeOK, ReservationKept, Holding, Created, Look, Answer, Goto, Task
<1> QED
  BY <1>1, <1>2, <1>3, <1>4, <1>5 DEF IInv

\* The check of the session.
LEMMA TouchStep ==
    ASSUME IInv, NEW r \in Request, Touch(r) \/ TouchFails(r)
    PROVE  IInv'
<1>1. ResponsesMatch'
  BY GotoStep DEF Touch, TouchFails, Step
<1> USE DEF IInv, Touch, TouchFails, Goto
<1>2. KeysMatch'
  BY DEF TypeOK, KeysMatch
<1>3. TypeOK'
  BY <1>1 DEF TypeOK, ResponsesMatch
<1>4. ReservationKept'
  BY DEF TypeOK, ReservationKept, Holding, Created
<1> QED
  BY <1>1, <1>2, <1>3, <1>4

\* The append of the task.
LEMMA EnqueueStep ==
    ASSUME IInv, NEW r \in Request, NEW reply \in Reply,
           Enqueue(r, reply)
    PROVE  IInv'
<1> DEFINE resp == Accepted(r, SessionOf[r], "queued", TRUE)
<1>1. resp \in Response /\ resp.code = 202 /\ resp.task = r
  BY DEF Accepted, Response, Task
<1> HIDE DEF resp
<1>2. ResponsesMatch' /\ (response' = response \/ response' = [response EXCEPT ![r] = resp])
  <2>1. CASE reply = "served"
    <3>1. Answer(r, resp)
      BY <2>1, Zenon DEF Enqueue, resp
    <3> QED
      BY <1>1, <3>1, AnswerStep
  <2>2. CASE reply # "served"
    BY <2>2, GotoStep DEF Enqueue, Step
  <2> QED
    BY <2>1, <2>2
<1>3. KeysMatch'
  BY DEF IInv, TypeOK, KeysMatch, Enqueue, Answer, Goto
<1>4. TypeOK'
  BY <1>2 DEF IInv, TypeOK, ResponsesMatch, Enqueue, Charge, Task
<1>5. ReservationKept'
  <2>1. reservation[RequestKey(r)] = r \/ r \in expired
    BY DEF IInv, ReservationKept, Holding, Enqueue
  <2>2. \A q \in Request \ {r} : response'[q] = response[q] /\ pc'[q] = pc[q]
    BY <1>2 DEF IInv, TypeOK, Enqueue, Answer, Goto
  <2>3. reservation' = reservation /\ expired' = expired
    BY DEF Enqueue
  <2> QED
    BY <2>1, <2>2, <2>3 DEF IInv, ReservationKept, Holding, Created, RequestKey
<1> QED
  BY <1>2, <1>3, <1>4, <1>5 DEF IInv

\* The release of the key after a failure.
LEMMA ReleaseStep ==
    ASSUME IInv, NEW r \in Request, NEW reply \in Reply,
           Release(r, reply)
    PROVE  IInv'
<1>1. ResponsesMatch'
  BY FailureType, AnswerStep, GotoStep DEF Release, Step
<1>2. reservation' \in [RedisKey -> Task \union {Nobody}] /\ KeysMatch'
  BY KeyType DEF IInv, TypeOK, KeysMatch, Release, Task, Unreserve
<1>3. attempts' \in [Request -> 0..1] /\ winner' \in [Request -> Task]
  BY KeyType DEF IInv, TypeOK, Release, Answer, Goto, Task
<1>4. TypeOK'
  BY <1>1, <1>2, <1>3 DEF IInv, TypeOK, ResponsesMatch, Release, Charge, Task
<1>5. ReservationKept'
  BY <1>1, KeyType, FailureType
  DEF IInv, TypeOK, ReservationKept, Holding, Created, Release, Answer, Goto, Task, Unreserve
<1> QED
  BY <1>1, <1>2, <1>3, <1>4, <1>5 DEF IInv

\* The answer to a duplicate.
LEMMA ReadStateStep ==
    ASSUME IInv, NEW r \in Request, NEW reply \in Reply,
           ReadState(r, reply)
    PROVE  IInv'
<1> DEFINE t == winner[r]
<1>1. t \in Task /\ status[t] \in {"none", "queued", "running"} /\ RequestKey(t) = RequestKey(r)
  BY DEF IInv, TypeOK, KeysMatch, Task
<1>2. SessionOf[r] \in Session /\ SessionOf[t] \in Session
  BY <1>1 DEF Task
<1>3. PICK resp : /\ Answer(r, resp)
                  /\ \/ resp = Failure(r, 500)
                     \/ resp = Accepted(t, SessionOf[r], "queued", FALSE)
                     \/ status[t] # "none" /\ resp = Accepted(t, SessionOf[t], status[t], FALSE)
  BY DEF ReadState, DuplicateAnswer
<1>4. resp \in Response /\ (resp.code = 202 => resp.task = t /\ ~ resp.created)
  <2>1. CASE resp = Failure(r, 500)
    BY <2>1, FailureType
  <2>2. CASE resp = Accepted(t, SessionOf[r], "queued", FALSE)
    BY <1>1, <1>2, <2>2 DEF Accepted, Response
  <2>3. CASE status[t] # "none" /\ resp = Accepted(t, SessionOf[t], status[t], FALSE)
    BY <1>1, <1>2, <2>3 DEF Accepted, Response
  <2> QED
    BY <1>3, <2>1, <2>2, <2>3
<1> HIDE DEF t
<1>5. ResponsesMatch' /\ response' = [response EXCEPT ![r] = resp]
  BY <1>1, <1>3, <1>4, AnswerStep
<1>6. KeysMatch'
  BY DEF IInv, TypeOK, KeysMatch, ReadState, Answer, Goto
<1>7. TypeOK'
  BY <1>5 DEF IInv, TypeOK, ResponsesMatch, ReadState, Charge
<1>8. ReservationKept'
  <2>1. \A q \in Request : (Created(q)' => Created(q)) /\ (pc'[q] = pc[q] \/ pc'[q] = "answered")
    BY <1>3, <1>4, <1>5 DEF IInv, TypeOK, Created, Answer, Goto
  <2>2. reservation' = reservation /\ expired' = expired
    BY DEF ReadState
  <2> QED
    BY <2>1, <2>2 DEF IInv, ReservationKept, Holding, RequestKey
<1> QED
  BY <1>5, <1>6, <1>7, <1>8 DEF IInv

\* Crashes, workers and time.
LEMMA EnvironmentStep ==
    ASSUME IInv,
           \/ \E r \in Request : Crash(r) \/ Advance(r)
           \/ \E k \in RedisKey : ExpireKey(k)
           \/ UNCHANGED vars
    PROVE  IInv'
<1> USE DEF IInv, Crash, Advance, ExpireKey, Goto, vars
<1>1. TypeOK'
  <2>1. CASE \E r \in Request : Crash(r) \/ Advance(r)
    BY <2>1 DEF TypeOK, Step
  <2>2. CASE \E k \in RedisKey : ExpireKey(k)
    BY <2>2 DEF TypeOK, Task
  <2>3. CASE UNCHANGED vars
    BY <2>3 DEF TypeOK
  <2> QED
    BY <2>1, <2>2, <2>3
<1>2. ReservationKept'
  BY KeyType DEF TypeOK, ReservationKept, Holding, Created
<1>3. KeysMatch' /\ ResponsesMatch'
  BY DEF TypeOK, KeysMatch, ResponsesMatch, Step
<1> QED
  BY <1>1, <1>2, <1>3

\* The inductive invariant holds in every reachable state.
THEOREM Invariance == Spec => []IInv
<1>1. Init => IInv
  BY InitIInv
<1>2. IInv /\ [Next]_vars => IInv'
  <2>1. Replies \subseteq Reply
    BY DEF Replies, Reply
  <2> QED
    BY <2>1, ClaimStep, LookStep, TouchStep, EnqueueStep, ReleaseStep, ReadStateStep,
       EnvironmentStep DEF Next, Handle
<1> QED
  BY <1>1, <1>2, PTL DEF Spec

\* Reservations, responses and the streamed tasks are well typed in every state.
THEOREM TypesKept == Spec => []TypeOK
<1>1. IInv => TypeOK
  BY DEF IInv
<1> QED
  BY <1>1, Invariance, PTL

\* Until it expires a reservation stays with the request that acquired it.
THEOREM ReservationsAreKept == Spec => []ReservationKept
<1>1. IInv => ReservationKept
  BY DEF IInv
<1> QED
  BY <1>1, Invariance, PTL

-----------------------------------------------------------------------------
\* Only a handler that has not ended moves, and it moves alone.
LEMMA EndedStays ==
    ASSUME IInv, [Next]_vars, NEW t \in Request, pc[t] \in {"answered", "crashed"}
    PROVE  pc'[t] = pc[t] /\ response'[t] = response[t]
<1> USE DEF IInv, TypeOK, Goto, Answer
<1>1. ASSUME NEW r \in Request, NEW reply \in Reply, Claim(r, reply) \/ Look(r, reply)
      PROVE  pc'[t] = pc[t] /\ response'[t] = response[t]
  BY <1>1 DEF Claim, Look
<1>2. ASSUME NEW r \in Request, NEW reply \in Reply,
             Enqueue(r, reply) \/ Release(r, reply) \/ ReadState(r, reply)
      PROVE  pc'[t] = pc[t] /\ response'[t] = response[t]
  <2>1. ASSUME Enqueue(r, reply)
        PROVE  pc'[t] = pc[t] /\ response'[t] = response[t]
    BY <2>1 DEF Enqueue
  <2>2. ASSUME Release(r, reply)
        PROVE  pc'[t] = pc[t] /\ response'[t] = response[t]
    BY <2>2 DEF Release
  <2>3. ASSUME ReadState(r, reply)
        PROVE  pc'[t] = pc[t] /\ response'[t] = response[t]
    BY <2>3 DEF ReadState
  <2> QED
    BY <1>2, <2>1, <2>2, <2>3
<1>3. ASSUME \/ \E r \in Request : Touch(r) \/ TouchFails(r) \/ Crash(r) \/ Advance(r)
             \/ \E k \in RedisKey : ExpireKey(k)
             \/ UNCHANGED vars
      PROVE  pc'[t] = pc[t] /\ response'[t] = response[t]
  BY <1>3 DEF Touch, TouchFails, Crash, Advance, ExpireKey, vars
<1>4. Replies \subseteq Reply
  BY DEF Replies, Reply
<1> QED
  BY <1>1, <1>2, <1>3, <1>4 DEF Next, Handle

\* The requests whose tasks others may be told of: the task is in a stream, or
\* the request is at work, or it failed or died.
Known ==
    {t \in Request : t \in streamed \union Holding \/ Failed(t) \/ pc[t] = "crashed"}

\* A request that holds its key appends its task, goes on, fails or dies.
LEMMA HolderMoves ==
    ASSUME IInv, [Next]_vars, NEW t \in Holding
    PROVE  t \in Known'
<1> USE DEF Known, Holding
<1>1. t \in Request /\ pc[t] \in {"touch", "enqueue", "release409", "release503"}
  OBVIOUS
<1>2. ASSUME pc'[t] = pc[t]
      PROVE  t \in Known'
  BY <1>1, <1>2
<1>3. ASSUME NEW r \in Request, NEW reply \in Reply,
             Claim(r, reply) \/ Look(r, reply) \/ ReadState(r, reply)
      PROVE  t \in Known'
  <2>1. r # t
    BY <1>1, <1>3 DEF Claim, Look, ReadState
  <2> QED
    BY <1>2, <1>3, <2>1 DEF Claim, Look, ReadState, Answer, Goto, IInv, TypeOK
<1>4. ASSUME NEW r \in Request, Touch(r) \/ TouchFails(r)
      PROVE  t \in Known'
  BY <1>1, <1>4 DEF Touch, TouchFails, Goto, IInv, TypeOK
<1>5. ASSUME NEW r \in Request, NEW reply \in Reply, Enqueue(r, reply)
      PROVE  t \in Known'
  <2>1. CASE r = t
    <3>1. CASE reply = "refused"
      BY <1>1, <1>5, <2>1, <3>1 DEF Enqueue, Goto, IInv, TypeOK
    <3>2. CASE reply # "refused"
      BY <1>5, <2>1, <3>2 DEF Enqueue
    <3> QED
      BY <3>1, <3>2
  <2>2. CASE r # t
    BY <1>2, <1>5, <2>2 DEF Enqueue, Answer, Goto, IInv, TypeOK
  <2> QED
    BY <2>1, <2>2
<1>6. ASSUME NEW r \in Request, NEW reply \in Reply, Release(r, reply)
      PROVE  t \in Known'
  <2>1. CASE r = t
    <3>1. PICK code \in {409, 503} : Answer(r, Failure(r, code))
      BY <1>6 DEF Release
    <3>2. Failure(r, code).code = code
      BY <3>1, FailureType
    <3>3. response'[t] = Failure(r, code)
      BY <2>1, <3>1 DEF Answer, IInv, TypeOK
    <3> QED
      BY <3>2, <3>3 DEF Failed
  <2>2. CASE r # t
    BY <1>2, <1>6, <2>2 DEF Release, Answer, Goto, IInv, TypeOK
  <2> QED
    BY <2>1, <2>2
<1>7. ASSUME \/ \E r \in Request : Crash(r) \/ Advance(r)
             \/ \E k \in RedisKey : ExpireKey(k)
             \/ UNCHANGED vars
      PROVE  t \in Known'
  BY <1>1, <1>7 DEF Crash, Advance, ExpireKey, Goto, vars, IInv, TypeOK
<1>8. Replies \subseteq Reply
  BY DEF Replies, Reply
<1> QED
  BY <1>3, <1>4, <1>5, <1>6, <1>7, <1>8 DEF Next, Handle

\* A request that is known stays so.
LEMMA KnownStays ==
    ASSUME IInv, [Next]_vars, NEW t \in Known
    PROVE  t \in Known'
<1>1. CASE t \in streamed
  <2>1. ASSUME NEW r \in Request, NEW reply \in Reply,
               \/ Claim(r, reply) \/ Look(r, reply) \/ Enqueue(r, reply)
               \/ Release(r, reply) \/ ReadState(r, reply)
        PROVE  t \in streamed'
    BY <1>1, <2>1 DEF Claim, Look, Enqueue, Release, ReadState
  <2>2. ASSUME \/ \E r \in Request : Touch(r) \/ TouchFails(r) \/ Crash(r) \/ Advance(r)
               \/ \E k \in RedisKey : ExpireKey(k)
               \/ UNCHANGED vars
        PROVE  t \in streamed'
    BY <1>1, <2>2 DEF Touch, TouchFails, Crash, Advance, ExpireKey, vars
  <2>3. Replies \subseteq Reply
    BY DEF Replies, Reply
  <2>4. t \in streamed'
    BY <2>1, <2>2, <2>3 DEF Next, Handle
  <2> QED
    BY <2>4 DEF Known
<1>2. CASE t \in Holding
  BY <1>2, HolderMoves
<1>3. CASE Failed(t) \/ pc[t] = "crashed"
  <2>1. t \in Request /\ pc[t] \in {"answered", "crashed"}
    BY <1>3 DEF Known, Failed, IInv, ResponsesMatch
  <2>2. pc'[t] = pc[t] /\ response'[t] = response[t]
    BY <2>1, EndedStays
  <2> QED
    BY <1>3, <2>2 DEF Known, Failed
<1> QED
  BY <1>1, <1>2, <1>3 DEF Known

\* Whom a reservation, a claim or a response names is known.
KnownInv ==
    /\ \A k \in RedisKey : reservation[k] # Nobody => reservation[k] \in Known
    /\ \A r \in Request : pc[r] = "readState" => winner[r] \in Known
    /\ \A r \in Request : response[r].code = 202 => response[r].task \in Known

\* What names no one new keeps naming those who are known.
LEMMA KnownCarried ==
    ASSUME IInv, KnownInv, [Next]_vars, NEW r \in Request,
           \A k \in RedisKey : reservation'[k] \in {reservation[k], Nobody} \union Known',
           \A q \in Request \ {r} :
               pc'[q] = pc[q] /\ winner'[q] = winner[q] /\ response'[q] = response[q],
           pc'[r] = "readState" => winner'[r] \in Known',
           response'[r].code = 202 => response'[r].task \in Known'
    PROVE  KnownInv'
<1>1. Known \subseteq Known'
  BY KnownStays
<1>2. \A k \in RedisKey : reservation'[k] # Nobody => reservation'[k] \in Known'
  BY <1>1 DEF KnownInv
<1>3. \A q \in Request : pc'[q] = "readState" => winner'[q] \in Known'
  BY <1>1 DEF KnownInv
<1>4. \A q \in Request : response'[q].code = 202 => response'[q].task \in Known'
  BY <1>1 DEF KnownInv
<1> QED
  BY <1>2, <1>3, <1>4 DEF KnownInv

\* A claim names the request that acquires the key, a look the one that did.
LEMMA KnownByClaim ==
    ASSUME IInv, IInv', KnownInv, [Next]_vars, NEW r \in Request, NEW reply \in Reply,
           Claim(r, reply) \/ Look(r, reply)
    PROVE  KnownInv'
<1>1. Known \subseteq Known'
  BY KnownStays
<1>2. /\ pc \in [Request -> Step] /\ response \in [Request -> Response]
      /\ winner \in [Request -> Task] /\ reservation \in [RedisKey -> Task \union {Nobody}]
  BY DEF IInv, TypeOK
<1>3. response[r].code = 0
  <2>1. response[r] \in Response
    BY <1>2
  <2> QED
    BY <2>1 DEF IInv, ResponsesMatch, Claim, Look, Response
<1>4. response'[r] \in {response[r], Failure(r, 503)}
  BY <1>2 DEF Claim, Look, Answer
<1>5. response'[r].code # 202
  BY <1>3, <1>4, FailureType
<1>6. \A q \in Request \ {r} :
         pc'[q] = pc[q] /\ winner'[q] = winner[q] /\ response'[q] = response[q]
  BY <1>2 DEF Claim, Look, Answer, Goto
<1>7. CASE Claim(r, reply)
  <2>1. pc'[r] # "readState"
    BY <1>2, <1>7 DEF Claim, Answer, Goto
  <2>2. \A k \in RedisKey : reservation'[k] \in {reservation[k], r}
    BY <1>2, <1>7, KeyType DEF Claim, Reserve
  <2>3. reservation' # reservation => r \in Known'
    <3>1. CASE reply = "served"
      <4>1. reservation' # reservation => pc'[r] = "touch"
        BY <1>2, <1>7, <3>1, KeyType DEF Claim, Reserve, Goto
      <4> QED
        BY <4>1 DEF Known, Holding
    <3>2. CASE reply # "served"
      <4>1. response'[r] = Failure(r, 503)
        BY <1>2, <1>7, <3>2 DEF Claim, Answer
      <4> QED
        BY <4>1, FailureType DEF Known, Failed
    <3> QED
      BY <3>1, <3>2
  <2>4. \A k \in RedisKey : reservation'[k] \in {reservation[k], Nobody} \union Known'
    BY <2>2, <2>3
  <2> QED
    BY <1>5, <1>6, <2>1, <2>4, KnownCarried
<1>8. CASE Look(r, reply)
  <2>1. reservation' = reservation
    BY <1>8 DEF Look
  <2>2. pc'[r] = "readState" =>
            reservation[RequestKey(r)] # Nobody /\ winner'[r] = reservation[RequestKey(r)]
    BY <1>2, <1>8 DEF Look, Answer, Goto
  <2>3. pc'[r] = "readState" => winner'[r] \in Known'
    BY <1>1, <2>2, KeyType DEF KnownInv
  <2> QED
    BY <1>5, <1>6, <2>1, <2>3, KnownCarried
<1> QED
  BY <1>7, <1>8

\* An answer names the task that was appended or the winner of the claim.
LEMMA KnownByAnswer ==
    ASSUME IInv, IInv', KnownInv, [Next]_vars, NEW r \in Request, NEW reply \in Reply,
           Enqueue(r, reply) \/ Release(r, reply) \/ ReadState(r, reply)
    PROVE  KnownInv'
<1>1. Known \subseteq Known'
  BY KnownStays
<1>2. /\ pc \in [Request -> Step] /\ response \in [Request -> Response]
      /\ winner \in [Request -> Task] /\ reservation \in [RedisKey -> Task \union {Nobody}]
  BY DEF IInv, TypeOK
<1>3. pc'[r] # "readState" /\ winner' = winner
  BY <1>2 DEF Enqueue, Release, ReadState, Answer, Goto
<1>4. \A q \in Request \ {r} :
         pc'[q] = pc[q] /\ winner'[q] = winner[q] /\ response'[q] = response[q]
  <2>1. \/ Goto(r, "release503") /\ response' = response
        \/ \E resp : Answer(r, resp)
    BY DEF Enqueue, Release, ReadState
  <2> QED
    BY <1>2, <1>3, <2>1 DEF Answer, Goto
<1>5. \A k \in RedisKey : reservation'[k] \in {reservation[k], Nobody}
  BY <1>2, KeyType DEF Enqueue, Release, ReadState, Unreserve
<1>6. response'[r].code = 202 => response'[r].task \in Known'
  <2>1. CASE Enqueue(r, reply)
    <3>1. CASE reply = "served"
      <4>1. response'[r] = Accepted(r, SessionOf[r], "queued", TRUE) /\ r \in streamed'
        BY <1>2, <2>1, <3>1 DEF Enqueue, Answer
      <4>2. response'[r].task = r
        BY <4>1 DEF Accepted
      <4>3. r \in Known'
        BY <4>1 DEF Known
      <4> QED
        BY <4>2, <4>3
    <3>2. CASE reply # "served"
      <4>1. response'[r] = response[r]
        BY <2>1, <3>2 DEF Enqueue
      <4>2. response[r].code # 202
        BY <2>1 DEF Enqueue, IInv, ResponsesMatch
      <4> QED
        BY <4>1, <4>2
    <3> QED
      BY <3>1, <3>2
  <2>2. CASE Release(r, reply)
    <3>1. PICK code \in {409, 503} : Answer(r, Failure(r, code))
      BY <2>2 DEF Release
    <3> QED
      BY <1>2, <3>1, FailureType DEF Answer
  <2>3. CASE ReadState(r, reply)
    <3>1. \/ Answer(r, Failure(r, 500))
          \/ Answer(r, Accepted(winner[r], SessionOf[r], "queued", FALSE))
          \/ Answer(r, Accepted(winner[r], SessionOf[winner[r]], status[winner[r]], FALSE))
      BY <2>3 DEF ReadState, DuplicateAnswer
    <3>2. \/ response'[r] = Failure(r, 500)
          \/ response'[r].task = winner[r]
      BY <1>2, <3>1 DEF Answer, Accepted
    <3>3. winner[r] \in Known'
      BY <1>1, <2>3 DEF ReadState, KnownInv
    <3> QED
      BY <3>2, <3>3, FailureType
  <2> QED
    BY <2>1, <2>2, <2>3
<1> QED
  BY <1>3, <1>4, <1>5, <1>6, KnownCarried

\* No one else names a task.
LEMMA KnownByOthers ==
    ASSUME IInv, IInv', KnownInv, [Next]_vars,
           \/ \E r \in Request : Touch(r) \/ TouchFails(r) \/ Crash(r) \/ Advance(r)
           \/ \E k \in RedisKey : ExpireKey(k)
           \/ UNCHANGED vars
    PROVE  KnownInv'
<1>1. Known \subseteq Known'
  BY KnownStays
<1>2. winner' = winner /\ response' = response
  BY DEF Touch, TouchFails, Crash, Advance, ExpireKey, vars
<1>3. \A q \in Request : pc'[q] = "readState" => pc[q] = "readState"
  BY DEF Touch, TouchFails, Crash, Advance, ExpireKey, vars, Goto, IInv, TypeOK
<1>4. \A k \in RedisKey : reservation'[k] \in {reservation[k], Nobody}
  BY DEF Touch, TouchFails, Crash, Advance, ExpireKey, vars, IInv, TypeOK
<1> QED
  BY <1>1, <1>2, <1>3, <1>4 DEF KnownInv

\* The task a request is told of has its key and is made, or was to be made by
\* a request that is at work, failed or died.
THEOREM NoTaskIsPhantom == Spec => []NoPhantomTask
<1>1. Init => KnownInv
  BY FailureType DEF Init, KnownInv
<1>2. IInv /\ IInv' /\ KnownInv /\ [Next]_vars => KnownInv'
  <2>1. Replies \subseteq Reply
    BY DEF Replies, Reply
  <2> QED
    BY <2>1, KnownByClaim, KnownByAnswer, KnownByOthers DEF Next, Handle
<1>3. IInv /\ KnownInv => NoPhantomTask
  BY DEF IInv, ResponsesMatch, KnownInv, Known, NoPhantomTask
<1> QED
  BY <1>1, <1>2, <1>3, Invariance, PTL DEF Spec

-----------------------------------------------------------------------------
\* A task in the stream whose request missed no reply belongs to an accepted
\* request.
StreamedInv == \A r \in streamed \ lost : Created(r)

\* The append of a task keeps it so.
LEMMA StreamedByEnqueue ==
    ASSUME IInv, StreamedInv, NEW r \in Request, NEW reply \in Reply, Enqueue(r, reply)
    PROVE  StreamedInv'
<1> DEFINE resp == Accepted(r, SessionOf[r], "queued", TRUE)
<1>1. resp.code = 202 /\ resp.created
  BY DEF Accepted
<1> HIDE DEF resp
<1>2. CASE reply = "served"
  <2>1. /\ response' = [response EXCEPT ![r] = resp]
        /\ streamed' = streamed \union {r}
        /\ lost' = lost
    BY <1>2 DEF Enqueue, Answer, Charge, resp
  <2> QED
    BY <1>1, <2>1 DEF IInv, TypeOK, StreamedInv, Created
<1>3. CASE reply # "served"
  <2>1. response' = response /\ streamed' \subseteq streamed \union {r} /\ lost \subseteq lost'
    BY <1>3 DEF Enqueue, Charge
  <2>2. r \in lost' \/ streamed' = streamed
    BY <1>3 DEF Enqueue, Charge, Reply
  <2> QED
    BY <2>1, <2>2 DEF StreamedInv, Created
<1> QED
  BY <1>2, <1>3

\* Whatever another step answers, it is not to a request with a task in the
\* stream.
LEMMA StreamedByOthers ==
    ASSUME IInv, StreamedInv, NEW r \in Request, pc[r] # "answered",
           streamed' = streamed, lost \subseteq lost',
           \A q \in Request \ {r} : response'[q] = response[q]
    PROVE  StreamedInv'
<1>1. r \notin streamed \ lost
  BY DEF StreamedInv, Created, IInv, ResponsesMatch
<1> QED
  BY <1>1 DEF StreamedInv, Created, IInv, TypeOK, Task

\* A task in the stream has an accepted request, in every reachable state.
LEMMA StreamedInvariance == Spec => []StreamedInv
<1>1. Init => StreamedInv
  BY DEF Init, StreamedInv
<1>2. IInv /\ StreamedInv /\ [Next]_vars => StreamedInv'
  <2> SUFFICES ASSUME IInv, StreamedInv, [Next]_vars PROVE StreamedInv'
    OBVIOUS
  <2>1. Replies \subseteq Reply
    BY DEF Replies, Reply
  <2>2. ASSUME NEW r \in Request, NEW reply \in Reply,
               \/ Claim(r, reply)
               \/ Look(r, reply)
               \/ Release(r, reply)
               \/ ReadState(r, reply)
        PROVE  StreamedInv'
    <3>1. pc[r] # "answered" /\ streamed' = streamed /\ lost \subseteq lost'
      BY <2>2 DEF Claim, Look, Release, ReadState, Charge
    <3>2. \A q \in Request \ {r} : response'[q] = response[q]
      BY <2>2 DEF Claim, Look, Release, ReadState, Answer, IInv, TypeOK
    <3> QED
      BY <3>1, <3>2, StreamedByOthers
  <2>3. ASSUME \/ \E r \in Request : Touch(r) \/ TouchFails(r) \/ Crash(r) \/ Advance(r)
               \/ \E k \in RedisKey : ExpireKey(k)
               \/ UNCHANGED vars
        PROVE  StreamedInv'
    BY <2>3 DEF Touch, TouchFails, Crash, Advance, ExpireKey, vars, StreamedInv, Created
  <2> QED
    BY <2>1, <2>2, <2>3, StreamedByEnqueue DEF Next, Handle
<1> QED
  BY <1>1, <1>2, Invariance, PTL DEF Spec

\* However often an action is submitted, it becomes one task, unless its
\* reservation expired or the reply of a served call got lost.
THEOREM OneTaskForEachAction == Spec => []OneTaskPerAction
<1>1. IInv /\ StreamedInv => OneTaskPerAction
  BY DEF IInv, TypeOK, ReservationKept, StreamedInv, OneTaskPerAction, Task
<1> QED
  BY <1>1, Invariance, StreamedInvariance, PTL

-----------------------------------------------------------------------------
\* A request that missed no reply and is not on its way to a task does not
\* hold its key, unless it could not give the key back.
TraceInv ==
    \A r \in Request \ (lost \union unreleased) :
        Failed(r) \/ pc[r] \in {"claim", "look", "readState"} => reservation[RequestKey(r)] # r

\* Whatever one handler does, the other requests keep their traces.
LEMMA TraceOfOthers ==
    ASSUME IInv, TraceInv, NEW r \in Request,
           lost \subseteq lost', unreleased \subseteq unreleased',
           \A q \in Request \ {r} :
               /\ pc'[q] = pc[q]
               /\ response'[q] = response[q]
               /\ reservation'[RequestKey(q)] = q => reservation[RequestKey(q)] = q,
           r \in lost' \union unreleased' \/ reservation'[RequestKey(r)] # r
               \/ (response'[r].code \in {0, 202} /\ pc'[r] \notin {"claim", "look", "readState"})
    PROVE  TraceInv'
<1>1. \A q \in Request : RequestKey(q)' = RequestKey(q)
  BY DEF RequestKey
<1>2. \A q \in Request \ {r} :
         q \notin lost' \union unreleased'
             /\ (response'[q].code \notin {0, 202} \/ pc'[q] \in {"claim", "look", "readState"})
         => reservation'[RequestKey(q)] # q
  BY DEF TraceInv, Failed
<1> QED
  BY <1>1, <1>2 DEF TraceInv, Failed

\* A call is charged to the request that made it.
LEMMA ChargeType ==
    ASSUME NEW r \in Request, NEW reply \in Reply, Charge(r, reply)
    PROVE  /\ lost \subseteq lost'
           /\ reply = "lost" => r \in lost'
BY DEF Charge, Reply

\* A claim that acquires the key goes on, one that fails leaves it alone.
LEMMA TraceOfClaim ==
    ASSUME IInv, TraceInv, NEW r \in Request, NEW reply \in Reply, Claim(r, reply)
    PROVE  TraceInv'
<1>1. lost \subseteq lost' /\ (reply = "lost" => r \in lost') /\ unreleased' = unreleased
  BY ChargeType DEF Claim
<1>2. response[r].code = 0
  <2>1. response[r] \in Response
    BY DEF IInv, TypeOK
  <2> QED
    BY <2>1 DEF IInv, ResponsesMatch, Claim, Response
<1>3. \A q \in Request \ {r} : reservation'[RequestKey(q)] = q => reservation[RequestKey(q)] = q
  BY KeyType DEF Claim, Reserve, IInv, TypeOK
<1>4. \A q \in Request \ {r} : pc'[q] = pc[q] /\ response'[q] = response[q]
  BY DEF Claim, Answer, Goto, IInv, TypeOK
<1>5. CASE reply = "served"
  <2>1. /\ pc' = [pc EXCEPT ![r] = IF reservation'[RequestKey(r)] = r THEN "touch" ELSE "look"]
        /\ response' = response
    BY <1>5 DEF Claim, Goto
  <2>2. pc'[r] = IF reservation'[RequestKey(r)] = r THEN "touch" ELSE "look"
    BY <2>1 DEF IInv, TypeOK
  <2> QED
    BY <1>1, <1>2, <1>3, <1>4, <2>1, <2>2, TraceOfOthers
<1>6. CASE reply = "lost"
  BY <1>1, <1>3, <1>4, <1>6, TraceOfOthers
<1>7. CASE reply = "refused"
  <2>1. reservation' = reservation
    BY <1>7 DEF Claim
  <2>2. r \in lost' \union unreleased' \/ reservation'[RequestKey(r)] # r
    BY <1>1, <2>1 DEF Claim, TraceInv
  <2> QED
    BY <1>1, <1>3, <1>4, <2>2, TraceOfOthers
<1> QED
  BY <1>5, <1>6, <1>7 DEF Reply

\* A look, an append or a read of the status takes no key.
LEMMA TraceOfCalls ==
    ASSUME IInv, TraceInv, NEW r \in Request, NEW reply \in Reply,
           Look(r, reply) \/ Enqueue(r, reply) \/ ReadState(r, reply)
    PROVE  TraceInv'
<1>1. lost \subseteq lost' /\ unreleased' = unreleased /\ reservation' = reservation
  BY ChargeType DEF Look, Enqueue, ReadState
<1>2. \A q \in Request \ {r} : pc'[q] = pc[q] /\ response'[q] = response[q]
  <2>1. ASSUME Look(r, reply)
        PROVE  \A q \in Request \ {r} : pc'[q] = pc[q] /\ response'[q] = response[q]
    BY <2>1 DEF Look, Answer, Goto, IInv, TypeOK
  <2>2. ASSUME Enqueue(r, reply)
        PROVE  \A q \in Request \ {r} : pc'[q] = pc[q] /\ response'[q] = response[q]
    BY <2>2 DEF Enqueue, Answer, Goto, IInv, TypeOK
  <2>3. ASSUME ReadState(r, reply)
        PROVE  \A q \in Request \ {r} : pc'[q] = pc[q] /\ response'[q] = response[q]
    BY <2>3 DEF ReadState, Answer, Goto, IInv, TypeOK
  <2> QED
    BY <2>1, <2>2, <2>3
<1>3. CASE Look(r, reply) \/ ReadState(r, reply)
  <2>1. r \in lost' \union unreleased' \/ reservation'[RequestKey(r)] # r
    BY <1>1, <1>3 DEF Look, ReadState, TraceInv
  <2> QED
    BY <1>1, <1>2, <2>1, TraceOfOthers
<1>4. CASE Enqueue(r, reply)
  <2>1. response[r].code = 0
    <3>1. response[r] \in Response
      BY DEF IInv, TypeOK
    <3> QED
      BY <1>4, <3>1 DEF IInv, ResponsesMatch, Enqueue, Response
  <2> DEFINE resp == Accepted(r, SessionOf[r], "queued", TRUE)
  <2>2. resp.code = 202
    BY CreatedType
  <2> HIDE DEF resp
  <2>3. \/ Answer(r, resp)
        \/ Goto(r, "release503") /\ UNCHANGED response
    BY <1>4, Zenon DEF Enqueue, resp
  <2>4. response'[r].code \in {0, 202} /\ pc'[r] \notin {"claim", "look", "readState"}
    BY <2>1, <2>2, <2>3 DEF Answer, Goto, IInv, TypeOK
  <2> QED
    BY <1>1, <1>2, <2>4, TraceOfOthers
<1> QED
  BY <1>3, <1>4

\* A release gives the key back, or Redis refused it.
LEMMA TraceOfRelease ==
    ASSUME IInv, TraceInv, NEW r \in Request, NEW reply \in Reply, Release(r, reply)
    PROVE  TraceInv'
<1>1. lost \subseteq lost' /\ unreleased \subseteq unreleased'
  BY ChargeType DEF Release
<1>2. \A q \in Request \ {r} : pc'[q] = pc[q] /\ response'[q] = response[q]
  BY DEF Release, Answer, Goto, IInv, TypeOK
<1>3. \A q \in Request \ {r} : reservation'[RequestKey(q)] = q => reservation[RequestKey(q)] = q
  BY KeyType DEF Release, Unreserve, IInv, TypeOK
<1>4. r \in lost' \union unreleased' \/ reservation'[RequestKey(r)] # r
  BY KeyType DEF Release, Unreserve, IInv, TypeOK
<1> QED
  BY <1>1, <1>2, <1>3, <1>4, TraceOfOthers

\* Nothing else gives a key to anyone.
LEMMA TraceOfEnvironment ==
    ASSUME IInv, TraceInv,
           \/ \E r \in Request : Touch(r) \/ TouchFails(r) \/ Crash(r) \/ Advance(r)
           \/ \E k \in RedisKey : ExpireKey(k)
           \/ UNCHANGED vars
    PROVE  TraceInv'
<1>1. lost' = lost /\ unreleased' = unreleased /\ response' = response
  BY DEF Touch, TouchFails, Crash, Advance, ExpireKey, vars
<1>2. \A q \in Request : reservation'[RequestKey(q)] = q => reservation[RequestKey(q)] = q
  BY KeyType DEF Touch, TouchFails, Crash, Advance, ExpireKey, vars, IInv, TypeOK
<1>3. \A q \in Request : pc'[q] \in {"claim", "look", "readState"} => pc'[q] = pc[q]
  BY DEF Touch, TouchFails, Crash, Advance, ExpireKey, Goto, vars, IInv, TypeOK
<1> QED
  BY <1>1, <1>2, <1>3 DEF TraceInv, Failed, RequestKey

\* A request that failed left no task and no reservation, whatever else failed,
\* unless it missed a reply or could not give the key back.
THEOREM FailuresLeaveNoTrace == Spec => []FailureLeavesNoTrace
<1>1. Init => TraceInv
  BY KeyType, FailureType DEF Init, TraceInv
<1>2. IInv /\ TraceInv /\ [Next]_vars => TraceInv'
  <2>1. Replies \subseteq Reply
    BY DEF Replies, Reply
  <2> QED
    BY <2>1, TraceOfClaim, TraceOfCalls, TraceOfRelease, TraceOfEnvironment DEF Next, Handle
<1>3. IInv /\ StreamedInv /\ TraceInv => FailureLeavesNoTrace
  BY DEF IInv, TypeOK, StreamedInv, Created, TraceInv, Failed, FailureLeavesNoTrace
<1> QED
  BY <1>1, <1>2, <1>3, Invariance, StreamedInvariance, PTL DEF Spec

=============================================================================
