------------------------ MODULE TaskDelivery_proofs ------------------------
(***************************************************************************)
(* Proofs about TaskDelivery, for any tasks, workers, delivery limit,      *)
(* concurrency and number of disruptions.                                  *)
(***************************************************************************)
EXTENDS TaskDelivery, Lists_proofs, FiniteSetTheorems, TLAPS

USE TaskDeliveryAssumption

-----------------------------------------------------------------------------
(* The inductive invariant                                                 *)

Reading == {"claimNormal", "claimLarge", "readNormal", "readLarge"}

\* The group never runs ahead of its streams and exists wherever it is read.
StreamsInv ==
    /\ \A t \in Task : entry[t] <= last[StreamOf(t)]
    /\ \A s \in Stream : delivered[s] <= last[s]
    /\ \A s \in Stream \ group : delivered[s] = 0
    /\ \A w \in Worker :
          /\ phase[w] \notin {"down", "ensureNormal"} => "normal" \in group
          /\ phase[w] \notin {"down", "ensureNormal", "ensureLarge"} => "large" \in group
          /\ phase[w] \in Reading => budget[w] > 0

\* A task was handed out exactly if the group has passed its entry, it is
\* pending until it has an outcome, and only handed-out tasks are worked on.
HandedInv ==
    /\ \A t \in Task :
          /\ deliveries[t] > 0 <=> entry[t] > 0 /\ entry[t] <= delivered[StreamOf(t)]
          /\ t \in pending => deliveries[t] > 0
          /\ deliveries[t] > 0 => t \in pending \/ t \in answered \/ dead[t] > 0
          /\ t \in answered \/ dead[t] > 0 => deliveries[t] > 0
    /\ \A j \in jobs :
          /\ deliveries[j.task] > 0
          /\ j.step = "ack" => j.task \in answered
          /\ j.step = "deadAck" => dead[j.task] > 0

\* A coroutine on its way to a verdict has seen the delivery limit reached.
VerdictInv ==
    /\ VerdictEarned
    /\ \A j \in jobs :
          j.task \notin MalformedTask /\ j.step \in {"saveFailed", "bury", "deadAck"}
              => deliveries[j.task] >= MaxDeliveries

IInv == TypeOK /\ IsFiniteSet(jobs) /\ StreamsInv /\ HandedInv /\ VerdictInv

-----------------------------------------------------------------------------
(* Lemmas about the operators                                              *)

\* An XAUTOCLAIM only ever returns entries that are pending and stale.
LEMMA ClaimedStale ==
    ASSUME NEW s, NEW from, NEW count
    PROVE  /\ Claimed(s, from, count) \subseteq stale
           /\ Claimed(s, from, count) \subseteq pending
           /\ Claimed(s, from, count) \subseteq Entries(s)
BY DEF Claimed, Inspected, Ahead

\* The coroutines made for a finite batch are finitely many.
LEMMA NewJobsFinite ==
    ASSUME NEW w, NEW batch, NEW step, IsFiniteSet(batch)
    PROVE  IsFiniteSet(NewJobs(w, batch, step))
<1> DEFINE f == [t \in batch |-> [task |-> t, n |-> deliveries[t] + 1,
                                  worker |-> w, step |-> step]]
<1>1. f \in Surjection(batch, NewJobs(w, batch, step))
  BY DEF Surjection, NewJobs
<1> QED
  BY <1>1, FS_Surjection

\* Creating the coroutines of a batch leaves finitely many.
LEMMA DispatchFinite ==
    ASSUME NEW w, NEW js, IsFiniteSet(js)
    PROVE  IsFiniteSet(Dispatch(w, js))
<1> DEFINE f == [j \in js |-> IF j.worker = w /\ j.step = "fetched"
                              THEN [j EXCEPT !.step = "begin"] ELSE j]
<1>1. f \in Surjection(js, Dispatch(w, js))
  BY DEF Surjection, Dispatch
<1> QED
  BY <1>1, FS_Surjection

\* New coroutines are executions of the tasks of the batch.
LEMMA NewJobsType ==
    ASSUME TypeOK, NEW w \in Worker, NEW batch \in SUBSET Task, NEW step \in JobStep
    PROVE  /\ NewJobs(w, batch, step) \in SUBSET Job
           /\ \A j \in NewJobs(w, batch, step) :
                 j.task \in batch /\ j.worker = w /\ j.step = step
BY DEF TypeOK, NewJobs, Job

\* Creating a coroutine changes its step from fetched to begin and nothing else.
LEMMA DispatchType ==
    ASSUME NEW w, NEW js \in SUBSET Job
    PROVE  /\ Dispatch(w, js) \in SUBSET Job
           /\ \A j \in Dispatch(w, js) :
                 \E k \in js : /\ k.task = j.task /\ k.worker = j.worker
                               /\ k.step = j.step \/ j.step = "begin"
BY DEF Dispatch, Job, JobStep

\* A coroutine that moves on or ends leaves the others as they are.
LEMMA MoveType ==
    ASSUME NEW j \in jobs, jobs \in SUBSET Job, NEW step \in JobStep, Move(j, step)
    PROVE  /\ jobs' \in SUBSET Job
           /\ IsFiniteSet(jobs) => IsFiniteSet(jobs')
           /\ \A k \in jobs' : k \in jobs \/ (k.task = j.task /\ k.step = step)
<1>1. [j EXCEPT !.step = step] \in Job
  BY DEF Job
<1>2. IsFiniteSet(jobs) => IsFiniteSet(jobs')
  BY FS_RemoveElement, FS_AddElement DEF Move
<1> QED
  BY <1>1, <1>2 DEF Move, Job

\* A coroutine that ends leaves the others as they are.
LEMMA EndType ==
    ASSUME NEW j \in jobs, jobs \in SUBSET Job, End(j)
    PROVE  /\ jobs' \in SUBSET Job
           /\ IsFiniteSet(jobs) => IsFiniteSet(jobs')
           /\ \A k \in jobs' : k \in jobs
BY FS_RemoveElement DEF End

-----------------------------------------------------------------------------
(* The initial state, and the steps that are not taken by a coroutine      *)

\* The initial states satisfy the inductive invariant.
LEMMA InitIInv == Init => IInv
<1> SUFFICES ASSUME Init PROVE IInv
  OBVIOUS
<1> USE DEF Init
<1>1. TypeOK
  BY DEF TypeOK, Status, Phase, Stream
<1>2. IsFiniteSet(jobs)
  BY FS_EmptySet
<1>3. StreamsInv
  BY DEF StreamsInv, Reading, Stream, StreamOf
<1>4. HandedInv
  BY DEF HandedInv
<1>5. VerdictInv
  BY DEF VerdictInv, VerdictEarned
<1> QED
  BY <1>1, <1>2, <1>3, <1>4, <1>5 DEF IInv

\* enqueue keeps the invariant.
LEMMA EnqueueStep ==
    ASSUME IInv, NEW t \in Task, Enqueue(t)
    PROVE  IInv'
<1> USE DEF IInv, Enqueue, redisVars, loopVars
<1>1. TypeOK'
  BY DEF TypeOK, Status, Phase, Stream, StreamOf
<1>2. IsFiniteSet(jobs')
  OBVIOUS
<1>3. StreamsInv'
  BY DEF TypeOK, StreamsInv, Stream, StreamOf, Reading
<1>4. HandedInv'
  BY DEF TypeOK, StreamsInv, HandedInv, Stream, StreamOf
<1>5. VerdictInv'
  BY DEF TypeOK, HandedInv, VerdictInv, VerdictEarned, Status
<1> QED
  BY <1>1, <1>2, <1>3, <1>4, <1>5

\* The passing of the claim idle time keeps it.
LEMMA GoStaleStep ==
    ASSUME IInv, NEW t \in Task, GoStale(t)
    PROVE  IInv'
<1> USE DEF IInv, GoStale, redisVars, loopVars
<1>1. TypeOK'
  BY DEF TypeOK, Status, Phase, Stream, StreamOf
<1>2. IsFiniteSet(jobs')
  OBVIOUS
<1>3. StreamsInv'
  BY DEF TypeOK, StreamsInv, Stream, StreamOf, Reading
<1>4. HandedInv'
  BY DEF TypeOK, StreamsInv, HandedInv, Stream, StreamOf
<1>5. VerdictInv'
  BY DEF TypeOK, HandedInv, VerdictInv, VerdictEarned, Status
<1> QED
  BY <1>1, <1>2, <1>3, <1>4, <1>5

\* The expiry of a status record keeps it.
LEMMA ExpireStatusStep ==
    ASSUME IInv, NEW t \in Task, ExpireStatus(t)
    PROVE  IInv'
<1> USE DEF IInv, ExpireStatus, redisVars, loopVars
<1>1. TypeOK'
  BY DEF TypeOK, Status, Phase, Stream, StreamOf
<1>2. IsFiniteSet(jobs')
  OBVIOUS
<1>3. StreamsInv'
  BY DEF TypeOK, StreamsInv, Stream, StreamOf, Reading
<1>4. HandedInv'
  BY DEF TypeOK, StreamsInv, HandedInv, Stream, StreamOf
<1>5. VerdictInv'
  BY DEF TypeOK, HandedInv, VerdictInv, VerdictEarned, Status
<1> QED
  BY <1>1, <1>2, <1>3, <1>4, <1>5

\* A worker process that starts keeps it.
LEMMA StartStep ==
    ASSUME IInv, NEW w \in Worker, Start(w)
    PROVE  IInv'
<1> USE DEF IInv, Start, Goto, redisVars, loopVars
<1>1. TypeOK'
  BY DEF TypeOK, Status, Phase, Stream, StreamOf
<1>2. IsFiniteSet(jobs')
  OBVIOUS
<1>3. StreamsInv'
  BY DEF TypeOK, StreamsInv, Stream, StreamOf, Reading
<1>4. HandedInv'
  BY DEF TypeOK, StreamsInv, HandedInv, Stream, StreamOf
<1>5. VerdictInv'
  BY DEF TypeOK, HandedInv, VerdictInv, VerdictEarned, Status
<1> QED
  BY <1>1, <1>2, <1>3, <1>4, <1>5

\* ensure_ready keeps it: no entry is behind a new group.
LEMMA EnsureReadyStep ==
    ASSUME IInv, NEW w \in Worker, NEW s \in Stream, NEW reply \in Reply, EnsureReady(w, s, reply)
    PROVE  IInv'
<1> USE DEF IInv, EnsureReady, Goto, Charge, GroupStart, redisVars, loopVars
<1>1. TypeOK'
  BY DEF TypeOK, Status, Phase, Stream, StreamOf
<1>2. IsFiniteSet(jobs')
  OBVIOUS
<1>3. StreamsInv'
  BY DEF TypeOK, StreamsInv, Stream, StreamOf, Reading
<1>4. HandedInv'
  BY DEF TypeOK, StreamsInv, HandedInv, Stream, StreamOf
<1>5. VerdictInv'
  BY DEF TypeOK, HandedInv, VerdictInv, VerdictEarned, Status
<1> QED
  BY <1>1, <1>2, <1>3, <1>4, <1>5

\* A stop signal keeps it.
LEMMA RequestStopStep ==
    ASSUME IInv, NEW w \in Worker, RequestStop(w)
    PROVE  IInv'
<1> USE DEF IInv, RequestStop, redisVars, loopVars
<1>1. TypeOK'
  BY DEF TypeOK, Status, Phase, Stream, StreamOf
<1>2. IsFiniteSet(jobs')
  OBVIOUS
<1>3. StreamsInv'
  BY DEF TypeOK, StreamsInv, Stream, StreamOf, Reading
<1>4. HandedInv'
  BY DEF TypeOK, StreamsInv, HandedInv, Stream, StreamOf
<1>5. VerdictInv'
  BY DEF TypeOK, HandedInv, VerdictInv, VerdictEarned, Status
<1> QED
  BY <1>1, <1>2, <1>3, <1>4, <1>5

\* The end of the consume loop keeps it.
LEMMA LeaveLoopStep ==
    ASSUME IInv, NEW w \in Worker, LeaveLoop(w)
    PROVE  IInv'
<1> USE DEF IInv, LeaveLoop, Goto, redisVars, loopVars
<1>1. TypeOK'
  BY DEF TypeOK, Status, Phase, Stream, StreamOf
<1>2. IsFiniteSet(jobs')
  OBVIOUS
<1>3. StreamsInv'
  BY DEF TypeOK, StreamsInv, Stream, StreamOf, Reading
<1>4. HandedInv'
  BY DEF TypeOK, StreamsInv, HandedInv, Stream, StreamOf
<1>5. VerdictInv'
  BY DEF TypeOK, HandedInv, VerdictInv, VerdictEarned, Status
<1> QED
  BY <1>1, <1>2, <1>3, <1>4, <1>5

\* The end of a worker process keeps it.
LEMMA DrainStep ==
    ASSUME IInv, NEW w \in Worker, Drain(w)
    PROVE  IInv'
<1> USE DEF IInv, Drain, Goto, redisVars, loopVars
<1>1. TypeOK'
  BY DEF TypeOK, Status, Phase, Stream, StreamOf
<1>2. IsFiniteSet(jobs')
  OBVIOUS
<1>3. StreamsInv'
  BY DEF TypeOK, StreamsInv, Stream, StreamOf, Reading
<1>4. HandedInv'
  BY DEF TypeOK, StreamsInv, HandedInv, Stream, StreamOf
<1>5. VerdictInv'
  BY DEF TypeOK, HandedInv, VerdictInv, VerdictEarned, Status
<1> QED
  BY <1>1, <1>2, <1>3, <1>4, <1>5

\* The count of the free slots keeps it.
LEMMA OfferSlotsStep ==
    ASSUME IInv, NEW w \in Worker, OfferSlots(w)
    PROVE  IInv'
<1> USE DEF IInv, OfferSlots, Goto, redisVars, loopVars
<1>1. Cardinality(JobsOf(w)) \in Nat
  BY FS_Subset, FS_CardinalityType DEF JobsOf
<1>2. TypeOK'
  BY <1>1 DEF TypeOK, Phase
<1>3. IsFiniteSet(jobs')
  OBVIOUS
<1>4. StreamsInv'
  BY <1>1 DEF TypeOK, StreamsInv, Reading
<1>5. HandedInv'
  BY DEF HandedInv
<1>6. VerdictInv'
  BY DEF VerdictInv, VerdictEarned
<1> QED
  BY <1>2, <1>3, <1>4, <1>5, <1>6

\* _claim_stale_tasks keeps it, whichever way its call ends.
LEMMA ClaimStaleStep ==
    ASSUME IInv, NEW w \in Worker, NEW s \in Stream, NEW reply \in Reply, ClaimStale(w, s, reply)
    PROVE  IInv'
<1> DEFINE batch == IF reply = "refused" THEN {} ELSE Claimed(s, cursor[w][s], budget[w])
           got   == IF reply = "served" THEN batch ELSE {}
           held  == jobs \union NewJobs(w, got, "fetched")
           left  == Left(w, got)
           goOn  == s = "normal" /\ left > 0
           any   == \E j \in held : j.worker = w /\ j.step = "fetched"
<1> USE DEF IInv
<1>1. /\ batch \subseteq stale
      /\ batch \subseteq Task
      /\ got \subseteq batch
      /\ \A t \in batch : deliveries[t] > 0
  BY ClaimedStale DEF TypeOK, HandedInv
<1>2. IsFiniteSet(got)
  BY <1>1, FS_Subset
<1>3. Cardinality(got) \in Nat /\ (got = {} => Cardinality(got) = 0)
  BY <1>2, FS_CardinalityType, FS_EmptySet
<1>4. /\ held \in SUBSET Job
      /\ IsFiniteSet(held)
      /\ \A j \in held \ jobs : j.task \in got /\ j.worker = w /\ j.step = "fetched"
  <2>1. IsFiniteSet(NewJobs(w, got, "fetched"))
    BY <1>2, NewJobsFinite
  <2>2. IsFiniteSet(held)
    BY <2>1, FS_Union
  <2>3. got \in SUBSET Task /\ "fetched" \in JobStep
    BY <1>1 DEF JobStep
  <2>4. \A j \in NewJobs(w, got, "fetched") :
           j \in Job /\ j.task \in got /\ j.worker = w /\ j.step = "fetched"
    <3> HIDE DEF got
    <3> QED
      BY <2>3, NewJobsType DEF TypeOK
  <2>5. jobs \subseteq Job
    BY DEF TypeOK
  <2> QED
    BY <2>2, <2>4, <2>5
<1>5. /\ Dispatch(w, held) \in SUBSET Job
      /\ IsFiniteSet(Dispatch(w, held))
      /\ \A j \in Dispatch(w, held) :
            \E k \in held : k.task = j.task /\ (k.step = j.step \/ j.step = "begin")
  BY <1>4, DispatchType, DispatchFinite
<1>6. /\ phase[w] = IF s = "normal" THEN "claimNormal" ELSE "claimLarge"
      /\ Charge(reply)
      /\ Hand(batch)
      /\ \/ UNCHANGED cursor
         \/ \E i \in 0..last[s] : cursor' = [cursor EXCEPT ![w][s] = i]
      /\ budget' = [budget EXCEPT ![w] = left]
      /\ jobs' = IF goOn THEN held ELSE Dispatch(w, held)
      /\ Goto(w, IF goOn THEN "claimLarge" ELSE IF any THEN "loop" ELSE "readNormal")
      /\ UNCHANGED <<entry, last, group, delivered, dead, status, stopping, answered>>
  BY DEF ClaimStale
<1>7. left \in Int /\ (got = {} => left = budget[w])
  BY <1>3 DEF TypeOK, Left
<1>8. \A j \in jobs' :
         \E k \in held : k.task = j.task /\ (k.step = j.step \/ j.step = "begin")
  BY <1>5, <1>6
<1>9. jobs' \in SUBSET Job /\ IsFiniteSet(jobs')
  BY <1>4, <1>5, <1>6
<1>10. \A j \in jobs' :
          \/ j.task \in got /\ j.step \in {"fetched", "begin"}
          \/ \E k \in jobs : k.task = j.task /\ (k.step = j.step \/ j.step = "begin")
  BY <1>4, <1>8
<1>11. ~goOn /\ ~any => got = {}
  <2> SUFFICES ASSUME NEW t \in got PROVE any
    OBVIOUS
  <2> DEFINE j == [task |-> t, n |-> deliveries[t] + 1, worker |-> w, step |-> "fetched"]
  <2>1. j \in NewJobs(w, got, "fetched")
    BY DEF NewJobs
  <2>2. j.worker = w /\ j.step = "fetched"
    OBVIOUS
  <2> QED
    BY <2>1, <2>2
<1> HIDE DEF batch, got, held, left, goOn, any
<1>12. TypeOK'
  <2>1. cursor' \in [Worker -> [Stream -> Nat]]
    BY <1>6 DEF TypeOK
  <2>2. phase' \in [Worker -> Phase] /\ budget' \in [Worker -> Int]
    BY <1>6, <1>7 DEF TypeOK, Goto, Phase
  <2>3. /\ pending' \subseteq Task /\ stale' \subseteq pending'
        /\ deliveries' \in [Task -> Nat] /\ disruptions' \in Nat
    BY <1>1, <1>6 DEF TypeOK, Hand, Charge
  <2> QED
    BY <1>6, <1>9, <2>1, <2>2, <2>3 DEF TypeOK
<1>13. StreamsInv'
  <2>1. "normal" \in group /\ (s = "large" => "large" \in group) /\ budget[w] > 0
    BY <1>6 DEF StreamsInv, Reading, Stream
  <2>2. phase'[w] \in Reading => budget'[w] > 0
    <3>1. CASE goOn
      BY <1>6, <1>7, <3>1 DEF TypeOK, goOn
    <3>2. CASE ~goOn
      BY <1>6, <1>7, <1>11, <2>1, <3>2 DEF TypeOK, Goto, Reading
    <3> QED
      BY <3>1, <3>2
  <2>3. \A v \in Worker \ {w} : phase'[v] = phase[v] /\ budget'[v] = budget[v]
    BY <1>6 DEF TypeOK, Goto
  <2>4. "large" \in group
    BY <1>6 DEF StreamsInv, Reading
  <2> QED
    BY <1>6, <2>1, <2>2, <2>3, <2>4 DEF StreamsInv
<1>14. /\ \A t \in Task : deliveries'[t] >= deliveries[t]
       /\ \A t \in Task : deliveries'[t] > 0 <=> deliveries[t] > 0
       /\ \A t \in Task : t \in pending' => deliveries[t] > 0
       /\ pending \subseteq pending'
  BY <1>1, <1>6 DEF TypeOK, HandedInv, Hand
<1>15. HandedInv'
  <2>1. \A j \in jobs' : j.task \in Task
    BY <1>9 DEF Job
  <2>2. \A t \in Task :
           /\ deliveries'[t] > 0 <=> entry[t] > 0 /\ entry[t] <= delivered[StreamOf(t)]
           /\ t \in pending' => deliveries'[t] > 0
           /\ deliveries'[t] > 0 => t \in pending' \/ t \in answered \/ dead[t] > 0
           /\ t \in answered \/ dead[t] > 0 => deliveries'[t] > 0
    BY <1>14 DEF HandedInv
  <2>3. \A j \in jobs' :
           /\ deliveries'[j.task] > 0
           /\ j.step = "ack" => j.task \in answered
           /\ j.step = "deadAck" => dead[j.task] > 0
    BY <1>1, <1>10, <1>14, <2>1 DEF HandedInv
  <2> QED
    BY <1>6, <2>2, <2>3 DEF HandedInv
<1>16. VerdictInv'
  <2>1. \A t \in Task : deliveries[t] >= MaxDeliveries => deliveries'[t] >= MaxDeliveries
    BY <1>12, <1>14 DEF TypeOK
  <2>2. VerdictEarned'
    BY <1>6, <2>1 DEF VerdictInv, VerdictEarned
  <2>3. ASSUME NEW j \in jobs', j.task \notin MalformedTask,
               j.step \in {"saveFailed", "bury", "deadAck"}
        PROVE  deliveries'[j.task] >= MaxDeliveries
    BY <1>9, <1>10, <2>1, <2>3 DEF VerdictInv, Job
  <2> QED
    BY <2>2, <2>3 DEF VerdictInv
<1> QED
  BY <1>9, <1>12, <1>13, <1>15, <1>16

\* _read_new_tasks keeps it, whichever way its call ends.
LEMMA ReadNewStep ==
    ASSUME IInv, NEW w \in Worker, NEW s \in Stream, NEW reply \in Reply, ReadNew(w, s, reply)
    PROVE  IInv'
<1> DEFINE batch == IF reply = "refused" THEN {} ELSE NewEntries(s, budget[w])
           new   == IF reply = "served" THEN NewJobs(w, batch, "begin") ELSE {}
<1> USE DEF IInv
<1>1. /\ batch \in SUBSET Task
      /\ \A t \in batch : StreamOf(t) = s
      /\ reply # "refused" =>
            batch = {t \in Task : /\ entry[t] > 0 /\ StreamOf(t) = s
                                  /\ entry[t] > delivered[s]
                                  /\ entry[t] <= delivered[s] + budget[w]}
  BY DEF TypeOK, NewEntries, Entries, Enqueued
<1>2. new \in SUBSET Job /\ IsFiniteSet(new) /\ \A j \in new : j.task \in batch /\ j.step = "begin"
  <2>1. IsFiniteSet(NewJobs(w, batch, "begin"))
    BY <1>1, FS_Subset, NewJobsFinite
  <2> QED
    BY <1>1, <2>1, NewJobsType, FS_EmptySet DEF JobStep
<1>3. /\ phase[w] = IF s = "normal" THEN "readNormal" ELSE "readLarge"
      /\ Charge(reply)
      /\ Hand(batch)
      /\ delivered' = IF reply = "refused" THEN delivered
                      ELSE [delivered EXCEPT ![s] = NextDelivered(s, budget[w])]
      /\ jobs' = jobs \union new
      /\ \/ Goto(w, "readLarge") /\ s = "normal"
         \/ Goto(w, "loop")
      /\ UNCHANGED <<entry, last, group, dead, status, stopping, budget, cursor, answered>>
  BY DEF ReadNew
<1>4. budget[w] > 0 /\ group = Stream
  BY <1>3 DEF TypeOK, StreamsInv, Reading, Stream
<1>5. jobs' \in SUBSET Job /\ IsFiniteSet(jobs')
  BY <1>2, <1>3, FS_Union DEF TypeOK
<1>6. /\ delivered' \in [Stream -> Nat]
      /\ \A r \in Stream : delivered[r] <= delivered'[r] /\ delivered'[r] <= last[r]
      /\ \A t \in Task : entry[t] > 0 /\ entry[t] <= delivered'[StreamOf(t)]
             <=> t \in batch \/ (entry[t] > 0 /\ entry[t] <= delivered[StreamOf(t)])
  <2>1. CASE reply = "refused"
    BY <1>3, <2>1 DEF TypeOK, StreamsInv
  <2>2. CASE reply # "refused"
    <3> HIDE DEF batch, new
    <3> QED
      BY <1>1, <1>3, <1>4, <2>2 DEF TypeOK, StreamsInv, NextDelivered, Stream, StreamOf
  <2> QED
    BY <2>1, <2>2
<1> HIDE DEF batch, new
<1>7. TypeOK'
  <2>1. phase' \in [Worker -> Phase]
    BY <1>3 DEF TypeOK, Goto, Phase
  <2>2. /\ pending' \subseteq Task /\ stale' \subseteq pending'
        /\ deliveries' \in [Task -> Nat] /\ disruptions' \in Nat
    BY <1>1, <1>3 DEF TypeOK, Hand, Charge
  <2> QED
    BY <1>3, <1>5, <1>6, <2>1, <2>2 DEF TypeOK
<1>8. StreamsInv'
  BY <1>3, <1>4, <1>6 DEF TypeOK, StreamsInv, Goto, Reading
<1>9. /\ \A t \in Task : deliveries'[t] >= deliveries[t]
      /\ \A t \in Task : deliveries'[t] > 0 <=> t \in batch \/ deliveries[t] > 0
      /\ pending' = pending \union batch
  BY <1>1, <1>3 DEF TypeOK, Hand
<1>10. HandedInv'
  BY <1>1, <1>2, <1>3, <1>5, <1>6, <1>9 DEF TypeOK, HandedInv, Job
<1>11. VerdictInv'
  <2>1. \A t \in Task : deliveries[t] >= MaxDeliveries => deliveries'[t] >= MaxDeliveries
    BY <1>7, <1>9 DEF TypeOK
  <2>2. VerdictEarned'
    BY <1>3, <2>1 DEF VerdictInv, VerdictEarned
  <2>3. ASSUME NEW j \in jobs', j.task \notin MalformedTask,
               j.step \in {"saveFailed", "bury", "deadAck"}
        PROVE  deliveries'[j.task] >= MaxDeliveries
    BY <1>2, <1>3, <1>5, <2>1, <2>3 DEF VerdictInv, Job
  <2> QED
    BY <2>2, <2>3 DEF VerdictInv
<1> QED
  BY <1>5, <1>7, <1>8, <1>10, <1>11

\* The death of a worker process keeps it.
LEMMA CrashStep ==
    ASSUME IInv, NEW w \in Worker, Crash(w)
    PROVE  IInv'
<1> USE DEF IInv, Crash, Goto, redisVars, loopVars
<1>1. jobs' \subseteq jobs /\ IsFiniteSet(jobs')
  BY FS_Subset
<1>2. TypeOK'
  BY <1>1 DEF TypeOK, Phase
<1>3. StreamsInv'
  BY DEF TypeOK, StreamsInv, Reading
<1>4. HandedInv'
  BY <1>1 DEF HandedInv
<1>5. VerdictInv'
  BY <1>1 DEF VerdictInv, VerdictEarned
<1> QED
  BY <1>1, <1>2, <1>3, <1>4, <1>5

-----------------------------------------------------------------------------
(* The steps of a coroutine                                                *)

\* A step that leaves the streams, the group and the loops alone keeps
\* StreamsInv.
LEMMA StreamsKept ==
    ASSUME StreamsInv, UNCHANGED <<entry, last, group, delivered, loopVars>>
    PROVE  StreamsInv'
BY DEF StreamsInv, loopVars

\* The rejection of a payload keeps it.
LEMMA RejectPayloadStep ==
    ASSUME IInv, NEW j \in jobs, RejectPayload(j)
    PROVE  IInv'
<1> USE DEF IInv
<1>1. /\ jobs' \in SUBSET Job
      /\ IsFiniteSet(jobs')
      /\ \A k \in jobs' : k \in jobs \/ (k.task = j.task /\ k.step \in {"bury"})
  BY MoveType DEF RejectPayload, TypeOK, JobStep
<1>2. j.task \in Task
  BY DEF TypeOK, Job
<1>3. TypeOK'
  BY <1>1, <1>2 DEF TypeOK, Status, RejectPayload, redisVars, loopVars
<1>4. StreamsInv'
  BY StreamsKept DEF RejectPayload, redisVars, loopVars
<1>5. HandedInv'
  BY <1>1, <1>2 DEF TypeOK, HandedInv, RejectPayload, redisVars, loopVars
<1>6. VerdictInv'
  BY <1>1, <1>2 DEF TypeOK, HandedInv, VerdictInv, VerdictEarned, RejectPayload, redisVars, loopVars
<1> QED
  BY <1>1, <1>3, <1>4, <1>5, <1>6

\* The saving of running keeps it.
LEMMA SaveRunningStep ==
    ASSUME IInv, NEW j \in jobs, NEW reply \in Reply, SaveRunning(j, reply)
    PROVE  IInv'
<1> USE DEF IInv
<1>1. /\ jobs' \in SUBSET Job
      /\ IsFiniteSet(jobs')
      /\ \A k \in jobs' : k \in jobs \/ (k.task = j.task /\ k.step \in {"execute", "except"})
  BY MoveType DEF SaveRunning, TypeOK, JobStep
<1>2. j.task \in Task
  BY DEF TypeOK, Job
<1>3. TypeOK'
  BY <1>1, <1>2 DEF TypeOK, Status, SaveRunning, Charge, WriteStatus, redisVars, loopVars
<1>4. StreamsInv'
  BY StreamsKept DEF SaveRunning, Charge, WriteStatus, redisVars, loopVars
<1>5. HandedInv'
  BY <1>1, <1>2 DEF TypeOK, HandedInv, SaveRunning, Charge, WriteStatus, redisVars, loopVars
<1>6. VerdictInv'
  BY <1>1, <1>2 DEF TypeOK, HandedInv, VerdictInv, VerdictEarned, SaveRunning, Charge, WriteStatus, redisVars, loopVars
<1> QED
  BY <1>1, <1>3, <1>4, <1>5, <1>6

\* The end of the orchestrator's work keeps it.
LEMMA ExecuteStep ==
    ASSUME IInv, NEW j \in jobs, Execute(j)
    PROVE  IInv'
<1> USE DEF IInv
<1>1. /\ jobs' \in SUBSET Job
      /\ IsFiniteSet(jobs')
      /\ \A k \in jobs' : k \in jobs \/ (k.task = j.task /\ k.step \in {"saveDone", "except"})
  BY MoveType DEF Execute, TypeOK, JobStep
<1>2. j.task \in Task
  BY DEF TypeOK, Job
<1>3. TypeOK'
  BY <1>1, <1>2 DEF TypeOK, Status, Execute, redisVars, loopVars
<1>4. StreamsInv'
  BY StreamsKept DEF Execute, redisVars, loopVars
<1>5. HandedInv'
  BY <1>1, <1>2 DEF TypeOK, HandedInv, Execute, redisVars, loopVars
<1>6. VerdictInv'
  BY <1>1, <1>2 DEF TypeOK, HandedInv, VerdictInv, VerdictEarned, Execute, redisVars, loopVars
<1> QED
  BY <1>1, <1>3, <1>4, <1>5, <1>6

\* The saving of done keeps it.
LEMMA SaveDoneStep ==
    ASSUME IInv, NEW j \in jobs, NEW reply \in Reply, SaveDone(j, reply)
    PROVE  IInv'
<1> USE DEF IInv
<1>1. /\ jobs' \in SUBSET Job
      /\ IsFiniteSet(jobs')
      /\ \A k \in jobs' : k \in jobs \/ (k.task = j.task /\ k.step = IF reply = "served" THEN "ack" ELSE "except")
  BY MoveType DEF SaveDone, TypeOK, JobStep
<1>2. j.task \in Task
  BY DEF TypeOK, Job
<1>3. TypeOK'
  BY <1>1, <1>2 DEF TypeOK, Status, SaveDone, Charge, WriteStatus, redisVars, loopVars
<1>4. StreamsInv'
  BY StreamsKept DEF SaveDone, Charge, WriteStatus, redisVars, loopVars
<1>5. HandedInv'
  BY <1>1, <1>2 DEF TypeOK, HandedInv, SaveDone, Charge, WriteStatus, redisVars, loopVars
<1>6. VerdictInv'
  BY <1>1, <1>2 DEF TypeOK, HandedInv, VerdictInv, VerdictEarned, SaveDone, Charge, WriteStatus, redisVars, loopVars
<1> QED
  BY <1>1, <1>3, <1>4, <1>5, <1>6

\* An acknowledgement keeps it, because the answer was saved.
LEMMA AcknowledgeStep ==
    ASSUME IInv, NEW j \in jobs, NEW reply \in Reply, Acknowledge(j, reply)
    PROVE  IInv'
<1> USE DEF IInv
<1>1. /\ jobs' \in SUBSET Job
      /\ IsFiniteSet(jobs')
      /\ \A k \in jobs' : k \in jobs
  BY EndType DEF Acknowledge, TypeOK, JobStep
<1>2. j.task \in Task
  BY DEF TypeOK, Job
<1>3. TypeOK'
  BY <1>1, <1>2 DEF TypeOK, Status, Acknowledge, Charge, XAck, redisVars, loopVars
<1>4. StreamsInv'
  BY StreamsKept DEF Acknowledge, Charge, XAck, redisVars, loopVars
<1>5. HandedInv'
  BY <1>1, <1>2 DEF TypeOK, HandedInv, Acknowledge, Charge, XAck, redisVars, loopVars
<1>6. VerdictInv'
  BY <1>1, <1>2 DEF TypeOK, HandedInv, VerdictInv, VerdictEarned, Acknowledge, Charge, XAck, redisVars, loopVars
<1> QED
  BY <1>1, <1>3, <1>4, <1>5, <1>6

\* _delivery_count never exceeds the deliveries there were.
LEMMA CountDeliveriesStep ==
    ASSUME IInv, NEW j \in jobs, NEW reply \in Reply, CountDeliveries(j, reply)
    PROVE  IInv'
<1> USE DEF IInv
<1>1. /\ jobs' \in SUBSET Job
      /\ IsFiniteSet(jobs')
      /\ \A k \in jobs' : k \in jobs \/ (k.task = j.task /\ k.step \in {"saveFailed", "saveRetrying"})
  BY MoveType DEF CountDeliveries, TypeOK, JobStep
<1>2. j.task \in Task
  BY DEF TypeOK, Job
<1>3. TypeOK'
  BY <1>1, <1>2 DEF TypeOK, Status, CountDeliveries, Charge, DeliveryCount, redisVars, loopVars
<1>4. StreamsInv'
  BY StreamsKept DEF CountDeliveries, Charge, DeliveryCount, redisVars, loopVars
<1>5. HandedInv'
  BY <1>1, <1>2 DEF TypeOK, HandedInv, CountDeliveries, Charge, DeliveryCount, redisVars, loopVars
<1>6. VerdictInv'
  <2>1. UNCHANGED <<deliveries, status, dead>> /\ deliveries[j.task] > 0
    BY DEF HandedInv, CountDeliveries, redisVars
  <2>2. VerdictEarned'
    BY <2>1 DEF VerdictInv, VerdictEarned
  <2>3. CASE DeliveryCount(j.task, reply) >= MaxDeliveries
    <3>1. deliveries[j.task] >= MaxDeliveries
      BY <1>2, <2>1, <2>3 DEF TypeOK, DeliveryCount
    <3> QED
      BY <1>1, <2>1, <2>2, <3>1 DEF VerdictInv
  <2>4. CASE ~(DeliveryCount(j.task, reply) >= MaxDeliveries)
    <3>1. jobs' = (jobs \ {j}) \union {[j EXCEPT !.step = "saveRetrying"]}
      BY <2>4 DEF CountDeliveries, Move
    <3>2. [j EXCEPT !.step = "saveRetrying"].step = "saveRetrying"
      BY DEF TypeOK, Job
    <3> QED
      BY <2>1, <2>2, <3>1, <3>2 DEF VerdictInv
  <2> QED
    BY <2>3, <2>4
<1> QED
  BY <1>1, <1>3, <1>4, <1>5, <1>6

\* The saving of retrying keeps it.
LEMMA SaveRetryingStep ==
    ASSUME IInv, NEW j \in jobs, NEW reply \in Reply, SaveRetrying(j, reply)
    PROVE  IInv'
<1> USE DEF IInv
<1>1. /\ jobs' \in SUBSET Job
      /\ IsFiniteSet(jobs')
      /\ \A k \in jobs' : k \in jobs
  BY EndType DEF SaveRetrying, TypeOK, JobStep
<1>2. j.task \in Task
  BY DEF TypeOK, Job
<1>3. TypeOK'
  BY <1>1, <1>2 DEF TypeOK, Status, SaveRetrying, Charge, WriteStatus, redisVars, loopVars
<1>4. StreamsInv'
  BY StreamsKept DEF SaveRetrying, Charge, WriteStatus, redisVars, loopVars
<1>5. HandedInv'
  BY <1>1, <1>2 DEF TypeOK, HandedInv, SaveRetrying, Charge, WriteStatus, redisVars, loopVars
<1>6. VerdictInv'
  BY <1>1, <1>2 DEF TypeOK, HandedInv, VerdictInv, VerdictEarned, SaveRetrying, Charge, WriteStatus, redisVars, loopVars
<1> QED
  BY <1>1, <1>3, <1>4, <1>5, <1>6

\* The saving of failed keeps it.
LEMMA SaveFailedStep ==
    ASSUME IInv, NEW j \in jobs, NEW reply \in Reply, SaveFailed(j, reply)
    PROVE  IInv'
<1> USE DEF IInv
<1>1. /\ jobs' \in SUBSET Job
      /\ IsFiniteSet(jobs')
      /\ \A k \in jobs' : k \in jobs \/ (k.task = j.task /\ k.step \in {"bury"})
  BY MoveType, EndType DEF SaveFailed, TypeOK, JobStep
<1>2. j.task \in Task
  BY DEF TypeOK, Job
<1>3. TypeOK'
  BY <1>1, <1>2 DEF TypeOK, Status, SaveFailed, Charge, WriteStatus, redisVars, loopVars
<1>4. StreamsInv'
  BY StreamsKept DEF SaveFailed, Charge, WriteStatus, redisVars, loopVars
<1>5. HandedInv'
  BY <1>1, <1>2 DEF TypeOK, HandedInv, SaveFailed, Charge, WriteStatus, redisVars, loopVars
<1>6. VerdictInv'
  BY <1>1, <1>2 DEF TypeOK, HandedInv, VerdictInv, VerdictEarned, SaveFailed, Charge, WriteStatus, redisVars, loopVars
<1> QED
  BY <1>1, <1>3, <1>4, <1>5, <1>6

\* The copy to the dead letters keeps it.
LEMMA BuryStep ==
    ASSUME IInv, NEW j \in jobs, NEW reply \in Reply, Bury(j, reply)
    PROVE  IInv'
<1> USE DEF IInv
<1>1. /\ jobs' \in SUBSET Job
      /\ IsFiniteSet(jobs')
      /\ \A k \in jobs' : k \in jobs \/ (k.task = j.task /\ k.step = "deadAck" /\ reply = "served")
  BY MoveType, EndType DEF Bury, TypeOK, JobStep
<1>2. j.task \in Task
  BY DEF TypeOK, Job
<1>3. TypeOK'
  BY <1>1, <1>2 DEF TypeOK, Status, Bury, Charge, redisVars, loopVars
<1>4. StreamsInv'
  BY StreamsKept DEF Bury, Charge, redisVars, loopVars
<1>5. HandedInv'
  BY <1>1, <1>2 DEF TypeOK, HandedInv, Bury, Charge, redisVars, loopVars
<1>6. VerdictInv'
  BY <1>1, <1>2 DEF TypeOK, HandedInv, VerdictInv, VerdictEarned, Bury, Charge, redisVars, loopVars
<1> QED
  BY <1>1, <1>3, <1>4, <1>5, <1>6

\* The acknowledgement of a dead letter keeps it.
LEMMA AcknowledgeDeadStep ==
    ASSUME IInv, NEW j \in jobs, NEW reply \in Reply, AcknowledgeDead(j, reply)
    PROVE  IInv'
<1> USE DEF IInv
<1>1. /\ jobs' \in SUBSET Job
      /\ IsFiniteSet(jobs')
      /\ \A k \in jobs' : k \in jobs
  BY EndType DEF AcknowledgeDead, TypeOK, JobStep
<1>2. j.task \in Task
  BY DEF TypeOK, Job
<1>3. TypeOK'
  BY <1>1, <1>2 DEF TypeOK, Status, AcknowledgeDead, Charge, XAck, redisVars, loopVars
<1>4. StreamsInv'
  BY StreamsKept DEF AcknowledgeDead, Charge, XAck, redisVars, loopVars
<1>5. HandedInv'
  BY <1>1, <1>2 DEF TypeOK, HandedInv, AcknowledgeDead, Charge, XAck, redisVars, loopVars
<1>6. VerdictInv'
  BY <1>1, <1>2 DEF TypeOK, HandedInv, VerdictInv, VerdictEarned, AcknowledgeDead, Charge, XAck, redisVars, loopVars
<1> QED
  BY <1>1, <1>3, <1>4, <1>5, <1>6

-----------------------------------------------------------------------------
(* The invariant and what it implies                                       *)

\* A step that changes no variable keeps the invariant.
LEMMA StutterStep ==
    ASSUME IInv, UNCHANGED vars
    PROVE  IInv'
BY DEF IInv, TypeOK, StreamsInv, HandedInv, VerdictInv, VerdictEarned,
   vars, redisVars, loopVars

\* Every step of the queue or of a worker keeps the invariant.
LEMMA NextStep ==
    ASSUME IInv, [Next]_vars
    PROVE  IInv'
<1>1. ASSUME NEW t \in Task, Enqueue(t) \/ GoStale(t) \/ ExpireStatus(t)
      PROVE  IInv'
  BY <1>1, EnqueueStep, GoStaleStep, ExpireStatusStep
<1>2. ASSUME NEW w \in Worker, Start(w) \/ LoopStep(w) \/ RequestStop(w) \/ Crash(w)
      PROVE  IInv'
  <2>1. \A reply \in Replies : reply \in Reply
    BY DEF Replies, Reply
  <2>2. CASE \E s \in Stream, reply \in Replies :
                EnsureReady(w, s, reply) \/ ClaimStale(w, s, reply) \/ ReadNew(w, s, reply)
    BY <2>1, <2>2, EnsureReadyStep, ClaimStaleStep, ReadNewStep
  <2> QED
    BY <1>2, <2>2, StartStep, RequestStopStep, CrashStep, LeaveLoopStep, OfferSlotsStep,
       DrainStep DEF LoopStep
<1>3. ASSUME NEW j \in jobs, Handle(j)
      PROVE  IInv'
  <2>1. \A reply \in Replies : reply \in Reply
    BY DEF Replies, Reply
  <2>2. ASSUME NEW reply \in Reply, HandlerStep(j, reply)
        PROVE  IInv'
    BY <2>2, SaveRunningStep, SaveDoneStep, AcknowledgeStep, CountDeliveriesStep,
       SaveRetryingStep, SaveFailedStep, BuryStep, AcknowledgeDeadStep DEF HandlerStep
  <2> QED
    BY <1>3, <2>1, <2>2, RejectPayloadStep, ExecuteStep DEF Handle
<1> QED
  BY <1>1, <1>2, <1>3, StutterStep DEF Next

\* The inductive invariant holds in every reachable state.
THEOREM Invariance == Spec => []IInv
<1>1. Init => IInv
  BY InitIInv
<1>2. IInv /\ [Next]_vars => IInv'
  BY NextStep
<1> QED
  BY <1>1, <1>2, PTL DEF Spec

\* Type correctness of the streams, the group and the workers.
THEOREM TypeCorrect == Spec => []TypeOK
<1>1. IInv => TypeOK
  BY DEF IInv
<1> QED
  BY <1>1, Invariance, PTL

\* No intent is lost, whatever calls fail, whichever workers crash or stop and
\* however long a handler runs: until it has an outcome its entry is ahead of
\* the group or pending.
THEOREM NoIntentLost == Spec => []NothingLost
<1>1. IInv => NothingLost
  BY DEF IInv, TypeOK, HandedInv, NothingLost, Enqueued, StreamsInv, Stream, StreamOf
<1> QED
  BY <1>1, Invariance, PTL

\* A decodable intent fails or becomes a dead letter only after max_deliveries
\* deliveries.
THEOREM VerdictsAreEarned == Spec => []VerdictEarned
<1>1. IInv => VerdictEarned
  BY DEF IInv, VerdictInv
<1> QED
  BY <1>1, Invariance, PTL

-----------------------------------------------------------------------------
(* The slots of a worker                                                   *)

\* No two entries of a stream have the same position.
PlacesInv ==
    \A t, u \in Task :
        entry[t] > 0 /\ entry[t] = entry[u] /\ StreamOf(t) = StreamOf(u) => t = u

\* The free slots an iteration still counts on are free.
SlotsInv ==
    \A w \in Worker :
        /\ Cardinality(JobsOf(w)) <= Concurrency
        /\ phase[w] \in Reading => Cardinality(JobsOf(w)) + budget[w] <= Concurrency

\* An XAUTOCLAIM returns at most as many entries as it was asked for.
LEMMA ClaimedBound ==
    ASSUME TypeOK, StreamsInv, PlacesInv, NEW s \in Stream, NEW from, NEW count \in Nat
    PROVE  Cardinality(Claimed(s, from, count)) <= count
<1> DEFINE C == Claimed(s, from, count)
<1>1. C \in SUBSET Entries(s) /\ C \in SUBSET Task /\ C \subseteq stale
  BY ClaimedStale DEF TypeOK, Entries, Enqueued
<1>2. IsFiniteSet(C)
  BY <1>1, FS_Subset
<1>3. CASE C = {}
  BY <1>3, FS_EmptySet
<1>4. CASE C # {}
  <2> DEFINE P == {entry[t] : t \in C}
  <2>1. last[s] \in Nat /\ P \in SUBSET (1..last[s]) /\ P # {}
    BY <1>1, <1>4 DEF TypeOK, StreamsInv, Entries, Enqueued
  <2>2. PICK i \in P : \A k \in P : k <= i
    <3> HIDE DEF P
    <3> QED
      BY <2>1, GreatestExists
  <2>3. PICK t \in C : entry[t] = i
    OBVIOUS
  <2> DEFINE before == {u \in Ahead(s, from) : entry[u] < entry[t]}
  <2>4. Cardinality(before \intersect stale) < count
    BY DEF Claimed, Inspected
  <2>5. C \ {t} \subseteq before \intersect stale
    <3> SUFFICES ASSUME NEW u \in C, u # t
                 PROVE  u \in before
      BY <1>1
    <3>1. u \in Ahead(s, from)
      BY DEF Claimed, Inspected
    <3>2. entry[u] <= entry[t] /\ entry[u] # entry[t]
      BY <1>1, <2>2, <2>3 DEF PlacesInv, Entries, Enqueued
    <3>3. entry[u] \in Nat /\ entry[t] \in Nat
      BY <1>1 DEF TypeOK
    <3> QED
      BY <3>1, <3>2, <3>3
  <2>6. /\ IsFiniteSet(before \intersect stale)
        /\ Cardinality(before \intersect stale) \in Nat
        /\ Cardinality(C \ {t}) <= Cardinality(before \intersect stale)
    <3>1. before \intersect stale \subseteq Task
      BY DEF TypeOK
    <3>2. IsFiniteSet(before \intersect stale)
      BY <3>1, FS_Subset
    <3> QED
      BY <2>5, <3>2, FS_Subset, FS_CardinalityType
  <2>7. Cardinality(C \ {t}) = Cardinality(C) - 1 /\ Cardinality(C) \in Nat
    BY <1>2, <2>3, FS_RemoveElement, FS_CardinalityType
  <2> HIDE DEF before, C
  <2> QED
    BY <2>4, <2>6, <2>7 DEF C
<1> QED
  BY <1>3, <1>4

\* An XREADGROUP returns at most as many entries as it was asked for.
LEMMA NewEntriesBound ==
    ASSUME TypeOK, PlacesInv, NEW s \in Stream, NEW count \in Nat
    PROVE  Cardinality(NewEntries(s, count)) <= count
<1> DEFINE N == NewEntries(s, count)
           f == [t \in N |-> entry[t] - delivered[s]]
<1>1. \A t \in N : /\ t \in Task
                   /\ StreamOf(t) = s
                   /\ entry[t] \in Nat
                   /\ entry[t] > delivered[s]
                   /\ entry[t] <= delivered[s] + count
  BY DEF TypeOK, NewEntries, Entries, Enqueued
<1>2. delivered[s] \in Nat
  BY DEF TypeOK
<1> HIDE DEF N
<1>3. f \in Injection(N, 1..count)
  <2>1. \A t \in N : entry[t] - delivered[s] \in 1..count
    BY <1>1, <1>2
  <2>2. \A t, u \in N : entry[t] - delivered[s] = entry[u] - delivered[s] => t = u
    BY <1>1, <1>2 DEF PlacesInv
  <2> QED
    BY <2>1, <2>2 DEF Injection, IsInjective
<1>4. IsFiniteSet(1..count) /\ Cardinality(1..count) = count
  BY FS_Interval
<1> QED
  BY <1>3, <1>4, FS_Injection DEF N

\* A batch makes at most one coroutine per entry.
LEMMA NewJobsBound ==
    ASSUME NEW w, NEW batch, NEW step, IsFiniteSet(batch)
    PROVE  Cardinality(NewJobs(w, batch, step)) <= Cardinality(batch)
<1> DEFINE f == [t \in batch |-> [task |-> t, n |-> deliveries[t] + 1,
                                  worker |-> w, step |-> step]]
<1>1. f \in Surjection(batch, NewJobs(w, batch, step))
  BY DEF Surjection, NewJobs
<1> QED
  BY <1>1, FS_Surjection

\* Creating the coroutines of a batch makes at most one of each execution.
LEMMA DispatchBound ==
    ASSUME NEW w, NEW v, NEW js \in SUBSET Job, IsFiniteSet(js)
    PROVE  Cardinality({j \in Dispatch(w, js) : j.worker = v})
               <= Cardinality({j \in js : j.worker = v})
<1> DEFINE d(j) == IF j.worker = w /\ j.step = "fetched"
                   THEN [j EXCEPT !.step = "begin"] ELSE j
           S == {j \in js : j.worker = v}
           f == [j \in S |-> d(j)]
<1>1. \A j \in js : d(j).worker = j.worker
  BY DEF Job
<1>2. Dispatch(w, js) = {d(j) : j \in js}
  BY DEF Dispatch
<1> HIDE DEF d
<1>3. f \in Surjection(S, {j \in Dispatch(w, js) : j.worker = v})
  BY <1>1, <1>2 DEF Surjection
<1>4. IsFiniteSet(S)
  BY FS_Subset
<1> QED
  BY <1>3, <1>4, FS_Surjection

\* A step after which every worker has at most as many coroutines, and none
\* has begun to fill slots, keeps the count of the slots.
LEMMA SlotsKept ==
    ASSUME IInv, IInv', SlotsInv,
           \A v \in Worker : Cardinality(JobsOf(v)') <= Cardinality(JobsOf(v)),
           \A v \in Worker : phase'[v] \in Reading
                                 => phase[v] \in Reading /\ budget'[v] = budget[v]
    PROVE  SlotsInv'
<1> SUFFICES ASSUME NEW v \in Worker
             PROVE  /\ Cardinality(JobsOf(v)') <= Concurrency
                    /\ phase'[v] \in Reading
                          => Cardinality(JobsOf(v)') + budget'[v] <= Concurrency
  BY DEF SlotsInv, JobsOf
<1>1. Cardinality(JobsOf(v)) \in Nat /\ Cardinality(JobsOf(v)') \in Nat
  BY FS_Subset, FS_CardinalityType DEF IInv, JobsOf
<1>2. budget[v] \in Int
  BY DEF IInv, TypeOK
<1> QED
  BY <1>1, <1>2 DEF SlotsInv

\* A coroutine that moves on or ends gives no worker another one.
LEMMA HandlerSlots ==
    ASSUME IInv, NEW j \in jobs, NEW v \in Worker,
           \/ \E step \in JobStep : Move(j, step)
           \/ End(j)
    PROVE  Cardinality(JobsOf(v)') <= Cardinality(JobsOf(v))
<1>1. IsFiniteSet(jobs) /\ jobs \in SUBSET Job
  BY DEF IInv, TypeOK
<1>2. IsFiniteSet(JobsOf(v)) /\ Cardinality(JobsOf(v)) \in Nat
  BY <1>1, FS_Subset, FS_CardinalityType DEF JobsOf
<1>3. CASE End(j)
  <2>1. JobsOf(v)' \subseteq JobsOf(v)
    BY <1>3 DEF End, JobsOf
  <2> QED
    BY <1>2, <2>1, FS_Subset
<1>4. ASSUME NEW step \in JobStep, Move(j, step)
      PROVE  Cardinality(JobsOf(v)') <= Cardinality(JobsOf(v))
  <2> DEFINE moved == [j EXCEPT !.step = step]
  <2>1. moved.worker = j.worker
    BY <1>1 DEF Job
  <2> HIDE DEF moved
  <2>2. jobs' = (jobs \ {j}) \union {moved}
    BY <1>4 DEF Move, moved
  <2>3. CASE j.worker # v
    <3>1. JobsOf(v)' \subseteq JobsOf(v)
      BY <2>1, <2>2, <2>3 DEF JobsOf
    <3> QED
      BY <1>2, <3>1, FS_Subset
  <2>4. CASE j.worker = v
    <3>1. JobsOf(v)' = (JobsOf(v) \ {j}) \union {moved} /\ j \in JobsOf(v)
      BY <2>1, <2>2, <2>4 DEF JobsOf
    <3>2. /\ IsFiniteSet(JobsOf(v) \ {j})
          /\ Cardinality(JobsOf(v) \ {j}) = Cardinality(JobsOf(v)) - 1
      BY <1>2, <3>1, FS_RemoveElement
    <3>3. \/ Cardinality(JobsOf(v)') = Cardinality(JobsOf(v)) - 1
          \/ Cardinality(JobsOf(v)') = Cardinality(JobsOf(v)) - 1 + 1
      <4> DEFINE rest == JobsOf(v) \ {j}
      <4>1. /\ IsFiniteSet(rest) /\ Cardinality(rest) = Cardinality(JobsOf(v)) - 1
            /\ JobsOf(v)' = rest \union {moved}
        BY <3>1, <3>2
      <4> HIDE DEF rest
      <4>2. CASE moved \in rest
        <5>1. JobsOf(v)' = rest
          BY <4>1, <4>2
        <5> QED
          BY <4>1, <5>1
      <4>3. CASE moved \notin rest
        <5>1. Cardinality(rest \union {moved}) = Cardinality(rest) + 1
          BY <4>1, <4>3, FS_AddElement
        <5> QED
          BY <4>1, <5>1
      <4> QED
        BY <4>2, <4>3
    <3> QED
      BY <1>2, <3>3
  <2> QED
    BY <2>3, <2>4
<1> QED
  BY <1>3, <1>4

\* What a worker receives fills no more slots than it asked for.
LEMMA ReceiveSlots ==
    ASSUME IInv, NEW w \in Worker, NEW batch \in SUBSET Task, NEW step \in JobStep
    PROVE  /\ Cardinality({j \in jobs \union NewJobs(w, batch, step) : j.worker = w})
                  <= Cardinality(JobsOf(w)) + Cardinality(batch)
           /\ \A v \in Worker \ {w} :
                 {j \in jobs \union NewJobs(w, batch, step) : j.worker = v} = JobsOf(v)
<1> DEFINE new == NewJobs(w, batch, step)
<1>1. \A j \in new : j.worker = w
  BY DEF NewJobs
<1>2. IsFiniteSet(batch) /\ IsFiniteSet(new) /\ Cardinality(new) <= Cardinality(batch)
  <2>1. IsFiniteSet(batch)
    BY FS_Subset
  <2> QED
    BY <2>1, NewJobsFinite, NewJobsBound
<1> HIDE DEF new
<1>3. {j \in jobs \union new : j.worker = w} = JobsOf(w) \union new
  BY <1>1 DEF JobsOf
<1>4. /\ IsFiniteSet(JobsOf(w))
      /\ Cardinality(JobsOf(w)) \in Nat
      /\ Cardinality(new) \in Nat
      /\ Cardinality(batch) \in Nat
  BY <1>2, FS_Subset, FS_CardinalityType DEF JobsOf, IInv
<1>5. /\ Cardinality(JobsOf(w) \union new)
            = Cardinality(JobsOf(w)) + Cardinality(new) - Cardinality(JobsOf(w) \intersect new)
      /\ Cardinality(JobsOf(w) \intersect new) \in Nat
  <2>1. IsFiniteSet(JobsOf(w) \intersect new)
    BY <1>4, FS_Subset
  <2> QED
    BY <1>2, <1>4, <2>1, FS_Union, FS_CardinalityType
<1>6. \A v \in Worker \ {w} : {j \in jobs \union new : j.worker = v} = JobsOf(v)
  BY <1>1 DEF JobsOf
<1>7. Cardinality(JobsOf(w) \union new) <= Cardinality(JobsOf(w)) + Cardinality(batch)
  BY <1>2, <1>4, <1>5
<1> QED
  BY <1>3, <1>6, <1>7 DEF new

\* _claim_stale_tasks hands out no slot twice: what the normal stream takes
\* is taken off what the large one may take.
LEMMA ClaimSlots ==
    ASSUME IInv, IInv', PlacesInv, SlotsInv, NEW w \in Worker, NEW s \in Stream,
           NEW reply \in Reply, ClaimStale(w, s, reply)
    PROVE  SlotsInv'
<1> DEFINE batch == IF reply = "refused" THEN {} ELSE Claimed(s, cursor[w][s], budget[w])
           got   == IF reply = "served" THEN batch ELSE {}
           held  == jobs \union NewJobs(w, got, "fetched")
<1>1. phase[w] \in Reading /\ budget[w] \in Nat /\ budget[w] > 0
  BY DEF ClaimStale, IInv, TypeOK, StreamsInv, Reading
<1>2. got \in SUBSET Task /\ IsFiniteSet(got) /\ Cardinality(got) <= budget[w]
  <2>1. CASE got = {}
    BY <1>1, <2>1, FS_EmptySet
  <2>2. CASE got = Claimed(s, cursor[w][s], budget[w])
    <3>1. got \in SUBSET Task
      BY <2>2, ClaimedStale DEF IInv, TypeOK
    <3>2. IsFiniteSet(got)
      BY <3>1, FS_Subset
    <3> QED
      BY <1>1, <2>2, <3>1, <3>2, ClaimedBound DEF IInv
  <2> QED
    BY <2>1, <2>2
<1>3. /\ jobs' = held \/ jobs' = Dispatch(w, held)
      /\ budget' = [budget EXCEPT ![w] = budget[w] - Cardinality(got)]
      /\ \E p \in Phase : phase' = [phase EXCEPT ![w] = p]
  BY DEF ClaimStale, Left, Goto, Phase
<1> HIDE DEF got
<1>4. held \in SUBSET Job /\ IsFiniteSet(held)
  <2>1. IsFiniteSet(NewJobs(w, got, "fetched"))
    BY <1>2, NewJobsFinite
  <2> QED
    BY <1>2, <2>1, NewJobsType, FS_Union DEF IInv, TypeOK, JobStep
<1>5. /\ Cardinality({j \in held : j.worker = w}) <= Cardinality(JobsOf(w)) + Cardinality(got)
      /\ \A v \in Worker \ {w} : {j \in held : j.worker = v} = JobsOf(v)
  <2>1. "fetched" \in JobStep
    BY DEF JobStep
  <2> QED
    BY <1>2, <2>1, ReceiveSlots
<1> HIDE DEF held
<1>6. ASSUME NEW v \in Worker
      PROVE  /\ Cardinality(JobsOf(v)') <= Cardinality({j \in held : j.worker = v})
             /\ Cardinality(JobsOf(v)') \in Nat
             /\ Cardinality(JobsOf(v)) \in Nat
             /\ Cardinality({j \in held : j.worker = v}) \in Nat
  <2>1. /\ Cardinality(JobsOf(v)') \in Nat
        /\ Cardinality(JobsOf(v)) \in Nat
        /\ Cardinality({j \in held : j.worker = v}) \in Nat
    BY <1>4, FS_Subset, FS_CardinalityType DEF IInv, JobsOf
  <2>2. CASE jobs' = held
    BY <2>1, <2>2 DEF JobsOf
  <2>3. CASE jobs' = Dispatch(w, held)
    BY <1>4, <2>1, <2>3, DispatchBound DEF JobsOf
  <2> QED
    BY <1>3, <2>1, <2>2, <2>3
<1>7. Cardinality(got) \in Nat
  BY <1>2, FS_CardinalityType
<1>8. /\ Cardinality(JobsOf(w)') <= Concurrency
      /\ Cardinality(JobsOf(w)') + budget'[w] <= Concurrency
  <2>1. budget'[w] = budget[w] - Cardinality(got)
    BY <1>3 DEF IInv, TypeOK
  <2>2. Cardinality(JobsOf(w)) + budget[w] <= Concurrency
    BY <1>1 DEF SlotsInv
  <2> QED
    BY <1>1, <1>2, <1>5, <1>6, <1>7, <2>1, <2>2
<1>9. ASSUME NEW v \in Worker \ {w}
      PROVE  /\ Cardinality(JobsOf(v)') <= Concurrency
             /\ phase'[v] \in Reading => Cardinality(JobsOf(v)') + budget'[v] <= Concurrency
  <2>1. phase'[v] = phase[v] /\ budget'[v] = budget[v] /\ budget[v] \in Int
    BY <1>3 DEF IInv, TypeOK
  <2>2. Cardinality(JobsOf(v)') <= Cardinality(JobsOf(v))
    BY <1>5, <1>6
  <2>3. /\ Cardinality(JobsOf(v)) <= Concurrency
        /\ phase[v] \in Reading => Cardinality(JobsOf(v)) + budget[v] <= Concurrency
    BY DEF SlotsInv
  <2>4. Cardinality(JobsOf(v)') \in Nat /\ Cardinality(JobsOf(v)) \in Nat
    BY <1>6
  <2> QED
    BY <2>1, <2>2, <2>3, <2>4
<1> QED
  BY <1>8, <1>9 DEF SlotsInv, JobsOf

\* _read_new_tasks fills no more slots than the iteration counted.
LEMMA ReadSlots ==
    ASSUME IInv, IInv', PlacesInv, SlotsInv, NEW w \in Worker, NEW s \in Stream,
           NEW reply \in Reply, ReadNew(w, s, reply)
    PROVE  SlotsInv'
<1> DEFINE batch == IF reply = "refused" THEN {} ELSE NewEntries(s, budget[w])
           got   == IF reply = "served" THEN batch ELSE {}
<1>1. phase[w] \in Reading /\ budget[w] \in Nat /\ budget[w] > 0
  BY DEF ReadNew, IInv, TypeOK, StreamsInv, Reading
<1>2. got \in SUBSET Task /\ IsFiniteSet(got) /\ Cardinality(got) <= budget[w]
  <2>1. CASE got = {}
    BY <1>1, <2>1, FS_EmptySet
  <2>2. CASE got = NewEntries(s, budget[w])
    <3>1. got \in SUBSET Task
      BY <2>2 DEF NewEntries, Entries, Enqueued
    <3>2. IsFiniteSet(got)
      BY <3>1, FS_Subset
    <3> QED
      BY <1>1, <2>2, <3>1, <3>2, NewEntriesBound DEF IInv
  <2> QED
    BY <2>1, <2>2
<1>3. /\ jobs' = jobs \union NewJobs(w, got, "begin")
      /\ UNCHANGED budget
      /\ \/ phase' = [phase EXCEPT ![w] = "loop"]
         \/ got = {} /\ phase' = [phase EXCEPT ![w] = "readLarge"]
  <2>1. NewJobs(w, {}, "begin") = {}
    BY DEF NewJobs
  <2> QED
    BY <2>1 DEF ReadNew, Goto
<1> HIDE DEF got
<1>4. /\ Cardinality(JobsOf(w)') <= Cardinality(JobsOf(w)) + Cardinality(got)
      /\ \A v \in Worker \ {w} : JobsOf(v)' = JobsOf(v)
  <2>1. "begin" \in JobStep
    BY DEF JobStep
  <2>2. /\ Cardinality({j \in jobs \union NewJobs(w, got, "begin") : j.worker = w})
                <= Cardinality(JobsOf(w)) + Cardinality(got)
        /\ \A v \in Worker \ {w} :
              {j \in jobs \union NewJobs(w, got, "begin") : j.worker = v} = JobsOf(v)
    BY <1>2, <2>1, ReceiveSlots
  <2>3. \A v \in Worker :
           JobsOf(v)' = {j \in jobs \union NewJobs(w, got, "begin") : j.worker = v}
    BY <1>3 DEF JobsOf
  <2> QED
    BY <2>2, <2>3
<1>5. \A v \in Worker : /\ Cardinality(JobsOf(v)') \in Nat
                        /\ Cardinality(JobsOf(v)) \in Nat
  BY FS_Subset, FS_CardinalityType DEF IInv, JobsOf
<1>6. Cardinality(got) \in Nat /\ (got = {} => Cardinality(got) = 0)
  BY <1>2, FS_CardinalityType, FS_EmptySet
<1>7. /\ Cardinality(JobsOf(w)') <= Concurrency
      /\ phase'[w] \in Reading => Cardinality(JobsOf(w)') + budget'[w] <= Concurrency
  <2>1. Cardinality(JobsOf(w)) + budget[w] <= Concurrency
    BY <1>1 DEF SlotsInv
  <2>2. Cardinality(JobsOf(w)') <= Concurrency
    BY <1>1, <1>2, <1>4, <1>5, <1>6, <2>1
  <2>3. CASE phase' = [phase EXCEPT ![w] = "loop"]
    BY <2>2, <2>3 DEF IInv, TypeOK, Reading
  <2>4. CASE got = {}
    <3>1. Cardinality(JobsOf(w)') <= Cardinality(JobsOf(w)) /\ budget'[w] = budget[w]
      BY <1>3, <1>4, <1>5, <1>6, <2>4
    <3>2. Cardinality(JobsOf(w)') + budget[w] <= Concurrency
      BY <1>1, <1>5, <2>1, <3>1
    <3> QED
      BY <2>2, <3>1, <3>2
  <2> QED
    BY <1>3, <2>3, <2>4
<1>8. ASSUME NEW v \in Worker \ {w}
      PROVE  /\ Cardinality(JobsOf(v)') <= Concurrency
             /\ phase'[v] \in Reading => Cardinality(JobsOf(v)') + budget'[v] <= Concurrency
  <2>1. phase'[v] = phase[v] /\ budget'[v] = budget[v]
    BY <1>3 DEF IInv, TypeOK
  <2> QED
    BY <1>4, <2>1 DEF SlotsInv
<1> QED
  BY <1>7, <1>8 DEF SlotsInv, JobsOf

\* Every step keeps the positions of the entries distinct.
LEMMA PlacesStep ==
    ASSUME IInv, PlacesInv, [Next]_vars
    PROVE  PlacesInv'
<1>1. ASSUME NEW t \in Task, Enqueue(t)
      PROVE  PlacesInv'
  BY <1>1 DEF Enqueue, PlacesInv, IInv, TypeOK, StreamsInv, Stream, StreamOf
<1>2. CASE UNCHANGED entry
  BY <1>2 DEF PlacesInv
<1>3. UNCHANGED entry \/ \E t \in Task : Enqueue(t)
  <2>1. ASSUME NEW t \in Task, GoStale(t) \/ ExpireStatus(t)
        PROVE  UNCHANGED entry
    BY <2>1 DEF GoStale, ExpireStatus, redisVars
  <2>2. ASSUME NEW w \in Worker, Start(w) \/ RequestStop(w) \/ Crash(w) \/ LoopStep(w)
        PROVE  UNCHANGED entry
    BY <2>2 DEF Start, RequestStop, Crash, LoopStep, LeaveLoop, OfferSlots, Drain,
       EnsureReady, ClaimStale, ReadNew, redisVars
  <2>3. ASSUME NEW j \in jobs, Handle(j)
        PROVE  UNCHANGED entry
    BY <2>3 DEF Handle, RejectPayload, Execute, HandlerStep, SaveRunning, SaveDone,
       Acknowledge, CountDeliveries, SaveRetrying, SaveFailed, Bury, AcknowledgeDead, redisVars
  <2> QED
    BY <2>1, <2>2, <2>3 DEF Next, vars, redisVars
<1> QED
  BY <1>1, <1>2, <1>3

\* Every step keeps the count of the slots.
LEMMA SlotsStep ==
    ASSUME IInv, IInv', PlacesInv, SlotsInv, [Next]_vars
    PROVE  SlotsInv'
<1>1. ASSUME UNCHANGED <<jobs, budget>>,
             \A v \in Worker : phase'[v] \in Reading => phase[v] \in Reading
      PROVE  SlotsInv'
  <2>1. \A v \in Worker : JobsOf(v)' = JobsOf(v)
    BY <1>1 DEF JobsOf
  <2>2. \A v \in Worker : Cardinality(JobsOf(v)) \in Nat
    BY FS_Subset, FS_CardinalityType DEF IInv, JobsOf
  <2> QED
    BY <1>1, <2>1, <2>2, SlotsKept
<1>2. CASE UNCHANGED <<jobs, budget, phase>>
  BY <1>1, <1>2
<1>3. ASSUME NEW t \in Task, Enqueue(t) \/ GoStale(t) \/ ExpireStatus(t)
      PROVE  UNCHANGED <<jobs, budget, phase>>
  BY <1>3 DEF Enqueue, GoStale, ExpireStatus, loopVars
<1>4. ASSUME NEW w \in Worker, Start(w) \/ LeaveLoop(w) \/ Drain(w)
      PROVE  SlotsInv'
  <2>1. /\ UNCHANGED <<jobs, budget>>
        /\ \A v \in Worker : phase'[v] \in Reading => phase[v] \in Reading
    BY <1>4 DEF IInv, TypeOK, Start, LeaveLoop, Drain, Goto, Reading
  <2> QED
    BY <1>1, <2>1
<1>5. ASSUME NEW w \in Worker, NEW s \in Stream, NEW reply \in Reply, EnsureReady(w, s, reply)
      PROVE  SlotsInv'
  <2>1. /\ UNCHANGED <<jobs, budget>>
        /\ \A v \in Worker : phase'[v] \in Reading => phase[v] \in Reading
    BY <1>5 DEF IInv, TypeOK, EnsureReady, Goto, Reading
  <2> QED
    BY <1>1, <2>1
<1>6. ASSUME NEW w \in Worker, RequestStop(w)
      PROVE  SlotsInv'
  BY <1>2, <1>6 DEF RequestStop
<1>7. ASSUME NEW w \in Worker, Crash(w)
      PROVE  SlotsInv'
  <2>1. \A v \in Worker : JobsOf(v)' \subseteq JobsOf(v) /\ IsFiniteSet(JobsOf(v))
    BY <1>7, FS_Subset DEF Crash, JobsOf, IInv
  <2>2. \A v \in Worker : Cardinality(JobsOf(v)') <= Cardinality(JobsOf(v))
    BY <2>1, FS_Subset
  <2>3. \A v \in Worker : phase'[v] \in Reading => phase[v] \in Reading /\ budget'[v] = budget[v]
    BY <1>7 DEF Crash, Goto, Reading, IInv, TypeOK
  <2> QED
    BY <2>2, <2>3, SlotsKept
<1>8. ASSUME NEW w \in Worker, OfferSlots(w)
      PROVE  SlotsInv'
  <2>1. \A v \in Worker : JobsOf(v)' = JobsOf(v) /\ Cardinality(JobsOf(v)) \in Nat
    BY <1>8, FS_Subset, FS_CardinalityType DEF OfferSlots, JobsOf, IInv
  <2>2. \A v \in Worker \ {w} : phase'[v] = phase[v] /\ budget'[v] = budget[v]
    BY <1>8 DEF OfferSlots, Goto, IInv, TypeOK
  <2>3. budget'[w] = Concurrency - Cardinality(JobsOf(w))
    BY <1>8 DEF OfferSlots, IInv, TypeOK
  <2>4. Cardinality(JobsOf(w)) + budget'[w] <= Concurrency
    BY <2>1, <2>3
  <2>5. \A v \in Worker : /\ Cardinality(JobsOf(v)) <= Concurrency
                          /\ phase'[v] \in Reading
                                => Cardinality(JobsOf(v)) + budget'[v] <= Concurrency
    BY <2>2, <2>4 DEF SlotsInv
  <2> QED
    BY <2>1, <2>5 DEF SlotsInv, JobsOf
<1>9. ASSUME NEW j \in jobs, NEW reply \in Reply,
             RejectPayload(j) \/ Execute(j) \/ HandlerStep(j, reply)
      PROVE  SlotsInv'
  <2>1. (\E step \in JobStep : Move(j, step)) \/ End(j)
    BY <1>9 DEF RejectPayload, Execute, HandlerStep, SaveRunning, SaveDone, Acknowledge,
       CountDeliveries, SaveRetrying, SaveFailed, Bury, AcknowledgeDead, JobStep
  <2>2. UNCHANGED <<phase, budget>>
    BY <1>9 DEF RejectPayload, Execute, HandlerStep, SaveRunning, SaveDone, Acknowledge,
       CountDeliveries, SaveRetrying, SaveFailed, Bury, AcknowledgeDead, loopVars
  <2>3. \A v \in Worker : Cardinality(JobsOf(v)') <= Cardinality(JobsOf(v))
    BY <2>1, HandlerSlots
  <2> QED
    BY <2>2, <2>3, SlotsKept
<1>10. \A reply \in Replies : reply \in Reply
  BY DEF Replies, Reply
<1>11. CASE \E t \in Task : Enqueue(t) \/ GoStale(t) \/ ExpireStatus(t)
  BY <1>2, <1>3, <1>11
<1>12. CASE \E w \in Worker : Start(w) \/ LoopStep(w) \/ RequestStop(w) \/ Crash(w)
  <2>1. ASSUME NEW w \in Worker, NEW s \in Stream, NEW reply \in Reply,
               ClaimStale(w, s, reply) \/ ReadNew(w, s, reply)
        PROVE  SlotsInv'
    BY <2>1, ClaimSlots, ReadSlots
  <2> QED
    BY <1>4, <1>5, <1>6, <1>7, <1>8, <1>10, <1>12, <2>1 DEF LoopStep
<1>13. CASE \E j \in jobs : Handle(j)
  <2>1. "served" \in Reply
    BY DEF Reply
  <2> QED
    BY <1>9, <1>10, <1>13, <2>1 DEF Handle
<1>14. CASE UNCHANGED vars
  BY <1>2, <1>14 DEF vars, loopVars
<1> QED
  BY <1>11, <1>12, <1>13, <1>14 DEF Next

\* A worker never runs more intents at once than its concurrency, although
\* the slots are counted before two claims and two reads that await Redis.
THEOREM ConcurrencyIsExact == Spec => []ConcurrencyExact
<1>1. Init => PlacesInv /\ SlotsInv
  <2> SUFFICES ASSUME Init PROVE PlacesInv /\ SlotsInv
    OBVIOUS
  <2>1. PlacesInv
    BY DEF Init, PlacesInv
  <2>2. \A w \in Worker : JobsOf(w) = {} /\ phase[w] \notin Reading
    BY DEF Init, JobsOf, Reading
  <2> QED
    BY <2>1, <2>2, FS_EmptySet DEF SlotsInv
<1>2. IInv /\ IInv' /\ PlacesInv /\ SlotsInv /\ [Next]_vars => PlacesInv' /\ SlotsInv'
  BY PlacesStep, SlotsStep
<1>3. SlotsInv => ConcurrencyExact
  BY DEF SlotsInv, ConcurrencyExact
<1> QED
  BY <1>1, <1>2, <1>3, Invariance, PTL DEF Spec

-----------------------------------------------------------------------------
(* What the record `queued' says                                          *)

\* The coroutines after a claim: those there were, and those of the batch.
LEMMA ClaimJobs ==
    ASSUME IInv, NEW w \in Worker, NEW s \in Stream, NEW reply \in Reply,
           ClaimStale(w, s, reply)
    PROVE  /\ \A j \in jobs' :
                 \/ j.task \in stale /\ j.step \in {"fetched", "begin"}
                 \/ \E k \in jobs : k.task = j.task /\ (k.step = j.step \/ j.step = "begin")
           /\ \A k \in jobs : k.step # "fetched" => k \in jobs'
           /\ pending' = pending
           /\ UNCHANGED status
<1> DEFINE batch == IF reply = "refused" THEN {} ELSE Claimed(s, cursor[w][s], budget[w])
           got   == IF reply = "served" THEN batch ELSE {}
           held  == jobs \union NewJobs(w, got, "fetched")
<1>1. /\ batch \subseteq stale
      /\ batch \subseteq pending
      /\ got \in SUBSET Task
      /\ got \subseteq stale
  BY ClaimedStale DEF IInv, TypeOK
<1>2. /\ pending' = pending \union batch
      /\ jobs' = held \/ jobs' = Dispatch(w, held)
      /\ UNCHANGED status
  BY DEF ClaimStale, Hand
<1>3. \A j \in held : j \in jobs \/ (j.task \in stale /\ j.step = "fetched")
  BY <1>1 DEF NewJobs
<1>4. held \in SUBSET Job
  BY <1>1, NewJobsType DEF IInv, TypeOK, JobStep
<1>5. \A k \in jobs : k \in held
  OBVIOUS
<1> HIDE DEF held
<1>6. \A j \in Dispatch(w, held) :
         \E k \in held : k.task = j.task /\ (k.step = j.step \/ j.step = "begin")
  BY <1>4, DispatchType
<1>7. \A k \in held : k.step # "fetched" => k \in Dispatch(w, held)
  BY DEF Dispatch
<1>8. \A j \in jobs' :
         \E k \in held : k.task = j.task /\ (k.step = j.step \/ j.step = "begin")
  BY <1>2, <1>6
<1>9. ASSUME NEW j \in jobs'
      PROVE  \/ j.task \in stale /\ j.step \in {"fetched", "begin"}
             \/ \E k \in jobs : k.task = j.task /\ (k.step = j.step \/ j.step = "begin")
  BY <1>3, <1>8
<1> QED
  BY <1>1, <1>2, <1>5, <1>7, <1>9

\* The coroutines after a read: those there were, and those of entries that
\* were never delivered before.
LEMMA ReadJobs ==
    ASSUME IInv, NEW w \in Worker, NEW s \in Stream, NEW reply \in Reply,
           ReadNew(w, s, reply)
    PROVE  /\ \A j \in jobs' : j \in jobs \/ (j.task \in pending' /\ j.step = "begin")
           /\ jobs \subseteq jobs'
           /\ pending \subseteq pending'
           /\ \A t \in pending' \ pending : deliveries[t] = 0
           /\ UNCHANGED status
<1> DEFINE batch == IF reply = "refused" THEN {} ELSE NewEntries(s, budget[w])
<1>1. \A t \in batch : deliveries[t] = 0
  BY DEF IInv, TypeOK, HandedInv, NewEntries, Entries, Enqueued
<1>2. /\ pending' = pending \union batch
      /\ jobs' = jobs \/ jobs' = jobs \union NewJobs(w, batch, "begin")
      /\ UNCHANGED status
  BY DEF ReadNew, Hand
<1>3. \A j \in NewJobs(w, batch, "begin") : j.task \in batch /\ j.step = "begin"
  BY DEF NewJobs
<1> HIDE DEF batch
<1> QED
  BY <1>1, <1>2, <1>3

\* The record of a queued task that decodes: its entry exists, no answer or
\* dead letter does, and no coroutine is past the verdict.
QueuedInv ==
    /\ \A t \in Task \ MalformedTask :
          status[t] = "queued" => entry[t] > 0 /\ t \notin answered /\ dead[t] = 0
    /\ \A j \in jobs :
          j.task \notin MalformedTask /\ j.step \in {"bury", "deadAck"}
              => status[j.task] # "queued"

\* What leaves the records, the entries and the verdicts alone, and the
\* coroutines or their verdicts, keeps it so.
LEMMA QueuedCarried ==
    ASSUME IInv, QueuedInv,
           \A t \in Task \ MalformedTask : status'[t] = "queued" =>
               /\ status[t] = "queued"
               /\ entry'[t] = entry[t] /\ (t \in answered' => t \in answered)
               /\ dead'[t] = dead[t],
           \A j \in jobs' : j.task \notin MalformedTask /\ j.step \in {"bury", "deadAck"} =>
               \/ status'[j.task] # "queued"
               \/ \E k \in jobs : k.task = j.task /\ k.step \in {"bury", "deadAck"},
           \A j \in jobs' : j.task \in Task
    PROVE  QueuedInv'
<1>1. \A t \in Task \ MalformedTask :
         status'[t] = "queued" => entry'[t] > 0 /\ t \notin answered' /\ dead'[t] = 0
  BY DEF QueuedInv
<1>2. \A j \in jobs' :
         j.task \notin MalformedTask /\ j.step \in {"bury", "deadAck"}
             => status'[j.task] # "queued"
  BY DEF QueuedInv
<1> QED
  BY <1>1, <1>2 DEF QueuedInv

\* A step of one coroutine makes no task queued, and none that is queued
\* answered or buried.
LEMMA HandlerQueued ==
    ASSUME IInv, IInv', QueuedInv, NEW j \in jobs, NEW reply \in Reply,
           RejectPayload(j) \/ Execute(j) \/ HandlerStep(j, reply)
    PROVE  QueuedInv'
<1>1. /\ jobs \in SUBSET Job /\ j.task \in Task /\ status \in [Task -> Status]
      /\ dead \in [Task -> Nat] /\ \A k \in jobs' : k.task \in Task
  BY DEF IInv, TypeOK, Job
<1>2. entry' = entry
  BY DEF RejectPayload, Execute, HandlerStep, SaveRunning, SaveDone, Acknowledge,
     CountDeliveries, SaveRetrying, SaveFailed, Bury, AcknowledgeDead, redisVars
<1>3. ASSUME NEW step \in JobStep, Move(j, step)
      PROVE  \A k \in jobs' : k \in jobs \/ (k.task = j.task /\ k.step = step)
  <2>1. [j EXCEPT !.step = step].task = j.task /\ [j EXCEPT !.step = step].step = step
    BY <1>1 DEF Job
  <2> QED
    BY <1>3, <2>1 DEF Move
<1>4. ASSUME End(j)
      PROVE  jobs' \subseteq jobs
  BY <1>4 DEF End
<1>5. \A step \in {"execute", "except", "saveDone", "ack", "saveFailed", "saveRetrying",
                   "bury", "deadAck"} : step \in JobStep
  BY DEF JobStep
<1>6. CASE RejectPayload(j)
  <2>1. Move(j, "bury") /\ UNCHANGED <<status, dead, answered>> /\ j.task \in MalformedTask
    BY <1>6 DEF RejectPayload, redisVars
  <2> QED
    BY <1>1, <1>2, <1>3, <1>5, <2>1, QueuedCarried
<1>7. CASE Execute(j) \/ CountDeliveries(j, reply)
  <2>1. /\ \E step \in {"saveDone", "except", "saveFailed", "saveRetrying"} : Move(j, step)
        /\ UNCHANGED <<status, dead, answered>>
    BY <1>7 DEF Execute, CountDeliveries, redisVars
  <2> QED
    BY <1>1, <1>2, <1>3, <1>5, <2>1, QueuedCarried
<1>8. CASE SaveRunning(j, reply) \/ SaveRetrying(j, reply)
  <2>1. /\ \/ \E step \in {"execute", "except"} : Move(j, step)
           \/ End(j)
        /\ UNCHANGED <<dead, answered>>
        /\ status' = status
             \/ \E v \in {"running", "retrying"} : status' = [status EXCEPT ![j.task] = v]
    BY <1>8 DEF SaveRunning, SaveRetrying, WriteStatus, redisVars
  <2>2. \A t \in Task : status'[t] = "queued" => status[t] = "queued"
    BY <1>1, <2>1
  <2>3. \A k \in jobs' : k.step \in {"bury", "deadAck"} => k \in jobs
    BY <1>3, <1>4, <1>5, <2>1
  <2> QED
    BY <1>1, <1>2, <2>1, <2>2, <2>3, QueuedCarried
<1>9. CASE SaveDone(j, reply)
  <2>1. /\ \E step \in {"ack", "except"} : Move(j, step)
        /\ UNCHANGED dead
        /\ \/ status' = status /\ answered' = answered
           \/ status' = [status EXCEPT ![j.task] = "done"] /\ answered' = answered \union {j.task}
    BY <1>9 DEF SaveDone, WriteStatus, redisVars
  <2>2. \A t \in Task : status'[t] = "queued" =>
           status[t] = "queued" /\ (t \in answered' => t \in answered)
    BY <1>1, <2>1
  <2>3. \A k \in jobs' : k.step \in {"bury", "deadAck"} => k \in jobs
    BY <1>3, <1>5, <2>1
  <2> QED
    BY <1>1, <1>2, <2>1, <2>2, <2>3, QueuedCarried
<1>10. CASE SaveFailed(j, reply)
  <2>1. /\ \/ Move(j, "bury") /\ status' = [status EXCEPT ![j.task] = "failed"]
           \/ End(j)
        /\ UNCHANGED <<dead, answered>>
        /\ status' = status \/ status' = [status EXCEPT ![j.task] = "failed"]
    BY <1>10 DEF SaveFailed, WriteStatus, redisVars
  <2>2. \A t \in Task : status'[t] = "queued" => status[t] = "queued"
    BY <1>1, <2>1
  <2>3. \A k \in jobs' : k \in jobs \/ (k.task = j.task /\ status'[j.task] # "queued")
    BY <1>1, <1>3, <1>4, <1>5, <2>1
  <2>4. \A k \in jobs' : k.step \in {"bury", "deadAck"} =>
           k \in jobs \/ status'[k.task] # "queued"
    BY <2>3
  <2> QED
    BY <1>1, <1>2, <2>1, <2>2, <2>4, QueuedCarried
<1>11. CASE Bury(j, reply)
  <2>1. /\ Move(j, "deadAck") \/ End(j)
        /\ UNCHANGED <<status, answered>>
        /\ dead' = dead \/ dead' = [dead EXCEPT ![j.task] = @ + 1]
        /\ j.step = "bury"
    BY <1>11 DEF Bury
  <2>2. j.task \notin MalformedTask => status[j.task] # "queued"
    BY <2>1 DEF QueuedInv
  <2>3. \A t \in Task \ MalformedTask : status'[t] = "queued" => dead'[t] = dead[t]
    BY <1>1, <2>1, <2>2
  <2>4. \A k \in jobs' : k \in jobs \/ (k.task = j.task /\ k.step = "deadAck")
    BY <1>3, <1>4, <1>5, <2>1
  <2>5. \A k \in jobs' : k.step \in {"bury", "deadAck"} =>
           \E m \in jobs : m.task = k.task /\ m.step \in {"bury", "deadAck"}
    BY <2>1, <2>4
  <2> QED
    BY <1>1, <1>2, <2>1, <2>3, <2>5, QueuedCarried
<1>12. CASE Acknowledge(j, reply) \/ AcknowledgeDead(j, reply)
  <2>1. End(j) /\ UNCHANGED <<status, dead, answered>>
    BY <1>12 DEF Acknowledge, AcknowledgeDead
  <2> QED
    BY <1>1, <1>2, <1>4, <2>1, QueuedCarried
<1> QED
  BY <1>6, <1>7, <1>8, <1>9, <1>10, <1>11, <1>12 DEF HandlerStep

\* No step makes a task queued again, or answered or buried while it is.
LEMMA QueuedStep ==
    ASSUME IInv, IInv', QueuedInv, [Next]_vars
    PROVE  QueuedInv'
<1>1. \A j \in jobs' : j.task \in Task
  BY DEF IInv, TypeOK, Job
<1>2. ASSUME UNCHANGED <<status, answered, entry, dead>>, jobs' \subseteq jobs
      PROVE  QueuedInv'
  BY <1>1, <1>2, QueuedCarried
<1>3. ASSUME NEW t \in Task, Enqueue(t)
      PROVE  QueuedInv'
  <2>1. t \notin answered /\ dead[t] = 0 /\ \A j \in jobs : j.task # t
    BY <1>3 DEF Enqueue, IInv, HandedInv, TypeOK, Job
  <2>2. entry'[t] > 0 /\ \A u \in Task \ {t} : entry'[u] = entry[u] /\ status'[u] = status[u]
    BY <1>3 DEF Enqueue, IInv, TypeOK, Stream, StreamOf
  <2>3. UNCHANGED <<answered, dead, jobs>>
    BY <1>3 DEF Enqueue
  <2>4. \A u \in Task \ MalformedTask :
           status'[u] = "queued" => entry'[u] > 0 /\ u \notin answered' /\ dead'[u] = 0
    BY <2>1, <2>2, <2>3 DEF QueuedInv
  <2>5. \A j \in jobs' : status'[j.task] = status[j.task]
    BY <1>1, <2>1, <2>2, <2>3
  <2> QED
    BY <2>3, <2>4, <2>5 DEF QueuedInv
<1>4. ASSUME NEW t \in Task, GoStale(t) \/ ExpireStatus(t)
      PROVE  QueuedInv'
  <2>1. /\ UNCHANGED <<answered, entry, dead, jobs>>
        /\ status' = status \/ status' = [status EXCEPT ![t] = "none"]
    BY <1>4 DEF GoStale, ExpireStatus, redisVars
  <2>2. \A u \in Task : status'[u] = "queued" => status[u] = "queued"
    BY <2>1 DEF IInv, TypeOK
  <2> QED
    BY <1>1, <2>1, <2>2, QueuedCarried
<1>5. ASSUME NEW w \in Worker, NEW s \in Stream, NEW reply \in Reply,
             \/ Start(w) \/ RequestStop(w) \/ LeaveLoop(w) \/ OfferSlots(w) \/ Drain(w)
             \/ Crash(w) \/ EnsureReady(w, s, reply)
      PROVE  QueuedInv'
  <2>1. UNCHANGED <<status, answered, entry, dead>> /\ jobs' \subseteq jobs
    BY <1>5 DEF Start, RequestStop, Crash, LeaveLoop, OfferSlots, Drain, EnsureReady, redisVars
  <2> QED
    BY <1>2, <2>1
<1>6. ASSUME NEW w \in Worker, NEW s \in Stream, NEW reply \in Reply,
             ClaimStale(w, s, reply) \/ ReadNew(w, s, reply)
      PROVE  QueuedInv'
  <2>1. UNCHANGED <<status, answered, entry, dead>>
    BY <1>6 DEF ClaimStale, ReadNew
  <2>2. \A j \in jobs' : j.step \in {"bury", "deadAck"} =>
           \E k \in jobs : k.task = j.task /\ k.step = j.step
    <3>1. CASE ClaimStale(w, s, reply)
      <4>1. \A j \in jobs' :
               \/ j.task \in stale /\ j.step \in {"fetched", "begin"}
               \/ \E k \in jobs : k.task = j.task /\ (k.step = j.step \/ j.step = "begin")
        BY <3>1, ClaimJobs
      <4> QED
        BY <4>1
    <3>2. CASE ReadNew(w, s, reply)
      <4>1. \A j \in jobs' : j \in jobs \/ (j.task \in pending' /\ j.step = "begin")
        BY <3>2, ReadJobs
      <4> QED
        BY <4>1
    <3> QED
      BY <1>6, <3>1, <3>2
  <2> QED
    BY <1>1, <2>1, <2>2, QueuedCarried
<1>7. \A reply \in Replies : reply \in Reply
  BY DEF Replies, Reply
<1>8. "served" \in Reply /\ "normal" \in Stream
  BY DEF Reply, Stream
<1>9. CASE \E t \in Task : Enqueue(t) \/ GoStale(t) \/ ExpireStatus(t)
  BY <1>3, <1>4, <1>9
<1>10. CASE \E w \in Worker : Start(w) \/ LoopStep(w) \/ RequestStop(w) \/ Crash(w)
  BY <1>5, <1>6, <1>7, <1>8, <1>10 DEF LoopStep
<1>11. CASE \E j \in jobs : Handle(j)
  BY <1>7, <1>8, <1>11, HandlerQueued DEF Handle
<1>12. CASE UNCHANGED vars
  BY <1>2, <1>12 DEF vars, redisVars
<1> QED
  BY <1>9, <1>10, <1>11, <1>12 DEF Next

\* A decodable intent whose record says `queued' waits in its stream or in the
\* pending list and has neither an answer nor a dead letter, however many
\* calls fail and processes crash.
THEOREM QueuedIsWaiting == Spec => []QueuedMeansWaiting
<1>1. Init => QueuedInv
  BY DEF Init, QueuedInv
<1>2. IInv /\ IInv' /\ QueuedInv /\ [Next]_vars => QueuedInv'
  BY QueuedStep
<1>3. IInv /\ QueuedInv => QueuedMeansWaiting
  <2> SUFFICES ASSUME IInv, QueuedInv, NEW t \in Task \ MalformedTask, status[t] = "queued"
               PROVE  /\ entry[t] > delivered[StreamOf(t)] \/ t \in pending
                      /\ t \notin answered
                      /\ dead[t] = 0
    BY DEF QueuedMeansWaiting
  <2>1. entry[t] > 0 /\ t \notin answered /\ dead[t] = 0
    BY DEF QueuedInv
  <2>2. /\ deliveries[t] > 0 <=> entry[t] > 0 /\ entry[t] <= delivered[StreamOf(t)]
        /\ deliveries[t] > 0 => t \in pending \/ t \in answered \/ dead[t] > 0
    BY DEF IInv, HandedInv
  <2>3. entry[t] \in Nat /\ delivered[StreamOf(t)] \in Nat
    BY DEF IInv, TypeOK, Stream, StreamOf
  <2> QED
    BY <2>1, <2>2, <2>3
<1> QED
  BY <1>1, <1>2, <1>3, Invariance, PTL DEF Spec

-----------------------------------------------------------------------------
(* One execution at a time of an intent that is not slow                   *)

\* The tasks that are executed once at a time.
Exclusive(js) == \A j, k \in js : j.task = k.task /\ j.task \notin SlowTask => j = k

\* What makes it inductive: an entry being worked on is not up for a claim.
ExclusiveInv ==
    /\ ExclusiveExecution
    /\ \A j \in jobs : j.task \notin SlowTask => j.task \notin stale

\* Starting a batch nobody works on keeps executions exclusive.
LEMMA NewJobsExclusive ==
    ASSUME NEW w \in Worker, NEW batch \in SUBSET Task, NEW step, ExclusiveExecution,
           \A j \in jobs : j.task \notin SlowTask => j.task \notin batch
    PROVE  Exclusive(jobs \union NewJobs(w, batch, step))
BY DEF NewJobs, ExclusiveExecution, Exclusive

\* Creating the coroutines of a batch keeps executions exclusive.
LEMMA DispatchExclusive ==
    ASSUME NEW w \in Worker, NEW js \in SUBSET Job, Exclusive(js)
    PROVE  Exclusive(Dispatch(w, js))
<1> DEFINE d(j) == IF j.worker = w /\ j.step = "fetched"
                   THEN [j EXCEPT !.step = "begin"] ELSE j
<1>1. \A j \in js : d(j).task = j.task
  BY DEF Job
<1>2. Dispatch(w, js) = {d(j) : j \in js}
  BY DEF Dispatch
<1> SUFFICES ASSUME NEW j \in Dispatch(w, js), NEW k \in Dispatch(w, js), j.task = k.task,
                    j.task \notin SlowTask
             PROVE  j = k
  BY DEF Exclusive
<1> HIDE DEF d
<1>3. PICK a \in js : j = d(a)
  BY <1>2
<1>4. PICK b \in js : k = d(b)
  BY <1>2
<1>5. a = b
  BY <1>1, <1>3, <1>4 DEF Exclusive
<1> QED
  BY <1>3, <1>4, <1>5

\* A coroutine that moves on or ends keeps executions exclusive.
LEMMA MoveExclusive ==
    ASSUME TypeOK, ExclusiveInv, NEW j \in jobs, stale' \subseteq stale,
           \/ \E step \in JobStep : Move(j, step)
           \/ End(j)
    PROVE  ExclusiveInv'
<1>1. CASE End(j)
  BY <1>1 DEF End, ExclusiveInv, ExclusiveExecution
<1>2. ASSUME NEW step \in JobStep, Move(j, step)
      PROVE  ExclusiveInv'
  <2>1. [j EXCEPT !.step = step].task = j.task
    BY DEF TypeOK, Job
  <2> QED
    BY <1>2, <2>1 DEF Move, ExclusiveInv, ExclusiveExecution
<1> QED
  BY <1>1, <1>2

\* A claim takes only entries nobody works on, because they are stale.
LEMMA ClaimExclusive ==
    ASSUME IInv, ExclusiveInv, NEW w \in Worker, NEW s \in Stream, NEW reply \in Reply,
           ClaimStale(w, s, reply)
    PROVE  ExclusiveInv'
<1> DEFINE batch == IF reply = "refused" THEN {} ELSE Claimed(s, cursor[w][s], budget[w])
           got   == IF reply = "served" THEN batch ELSE {}
           held  == jobs \union NewJobs(w, got, "fetched")
<1>1. /\ batch \subseteq stale
      /\ got \in SUBSET Task
      /\ got \subseteq batch
  BY ClaimedStale DEF IInv, TypeOK
<1>2. stale' = stale \ batch /\ (jobs' = held \/ jobs' = Dispatch(w, held))
  BY DEF ClaimStale, Hand
<1>3. Exclusive(held)
  BY <1>1, NewJobsExclusive DEF ExclusiveInv
<1>4. held \in SUBSET Job
  BY <1>1, NewJobsType DEF IInv, TypeOK, JobStep
<1>5. \A j \in held : j.task \notin SlowTask => j.task \notin stale'
  <2>1. \A j \in NewJobs(w, got, "fetched") : j.task \in got
    BY DEF NewJobs
  <2> QED
    BY <1>1, <1>2, <2>1 DEF ExclusiveInv
<1> HIDE DEF held
<1>6. ExclusiveExecution'
  BY <1>2, <1>3, <1>4, DispatchExclusive DEF ExclusiveExecution, Exclusive
<1>7. \A j \in jobs' : j.task \notin SlowTask => j.task \notin stale'
  BY <1>2, <1>4, <1>5, DispatchType
<1> QED
  BY <1>6, <1>7 DEF ExclusiveInv

\* A read hands out only entries that were never delivered.
LEMMA ReadExclusive ==
    ASSUME IInv, ExclusiveInv, NEW w \in Worker, NEW s \in Stream, NEW reply \in Reply,
           ReadNew(w, s, reply)
    PROVE  ExclusiveInv'
<1> DEFINE batch == IF reply = "refused" THEN {} ELSE NewEntries(s, budget[w])
<1>1. /\ batch \in SUBSET Task
      /\ \A t \in batch : deliveries[t] = 0
  BY DEF IInv, TypeOK, HandedInv, NewEntries, Entries, Enqueued
<1>2. /\ stale' = stale \ batch
      /\ jobs' = jobs \/ jobs' = jobs \union NewJobs(w, batch, "begin")
  BY DEF ReadNew, Hand
<1>3. \A j \in jobs : j.task \notin batch
  BY <1>1 DEF IInv, TypeOK, HandedInv, Job
<1>4. \A j \in NewJobs(w, batch, "begin") : j.task \in batch
  BY DEF NewJobs
<1> HIDE DEF batch
<1>5. ExclusiveExecution'
  BY <1>1, <1>2, <1>3, NewJobsExclusive DEF ExclusiveInv, ExclusiveExecution, Exclusive
<1> QED
  BY <1>2, <1>3, <1>4, <1>5 DEF ExclusiveInv

\* What makes executions exclusive is invariant.
LEMMA ExclusiveInvariance == Spec => []ExclusiveInv
<1>1. Init => ExclusiveInv
  BY DEF Init, ExclusiveInv, ExclusiveExecution
<1>2. ASSUME IInv, ExclusiveInv, [Next]_vars
      PROVE  ExclusiveInv'
  <2>1. ASSUME UNCHANGED <<jobs, stale>>
        PROVE  ExclusiveInv'
    BY <1>2, <2>1 DEF ExclusiveInv, ExclusiveExecution
  <2>2. ASSUME NEW t \in Task, GoStale(t)
        PROVE  ExclusiveInv'
    BY <1>2, <2>2 DEF GoStale, ExclusiveInv, ExclusiveExecution
  <2>3. ASSUME NEW w \in Worker, Crash(w)
        PROVE  ExclusiveInv'
    BY <1>2, <2>3 DEF Crash, redisVars, ExclusiveInv, ExclusiveExecution
  <2>4. ASSUME NEW t \in Task, Enqueue(t) \/ ExpireStatus(t)
        PROVE  UNCHANGED <<jobs, stale>>
    BY <2>4 DEF Enqueue, ExpireStatus, redisVars
  <2>5. ASSUME NEW w \in Worker, NEW reply \in Reply, NEW s \in Stream,
               \/ Start(w) \/ RequestStop(w) \/ LeaveLoop(w) \/ OfferSlots(w) \/ Drain(w)
               \/ EnsureReady(w, s, reply)
        PROVE  UNCHANGED <<jobs, stale>>
    BY <2>5 DEF Start, RequestStop, LeaveLoop, OfferSlots, Drain, EnsureReady, redisVars
  <2>6. ASSUME NEW j \in jobs, NEW reply \in Reply, HandlerStep(j, reply)
        PROVE  ExclusiveInv'
    <3>1. stale' \subseteq stale
      BY <2>6 DEF HandlerStep, SaveRunning, SaveDone, Acknowledge, CountDeliveries,
         SaveRetrying, SaveFailed, Bury, AcknowledgeDead, XAck, redisVars
    <3>2. (\E step \in JobStep : Move(j, step)) \/ End(j)
      BY <2>6 DEF HandlerStep, SaveRunning, SaveDone, Acknowledge, CountDeliveries,
         SaveRetrying, SaveFailed, Bury, AcknowledgeDead, JobStep
    <3> QED
      BY <1>2, <3>1, <3>2, MoveExclusive DEF IInv
  <2>7. ASSUME NEW j \in jobs, RejectPayload(j) \/ Execute(j)
        PROVE  ExclusiveInv'
    BY <1>2, <2>7, MoveExclusive DEF IInv, RejectPayload, Execute, redisVars, JobStep
  <2>8. \A reply \in Replies : reply \in Reply
    BY DEF Replies, Reply
  <2>9. CASE \E t \in Task : Enqueue(t) \/ GoStale(t) \/ ExpireStatus(t)
    BY <2>1, <2>2, <2>4, <2>9
  <2>10. ASSUME NEW w \in Worker, Start(w) \/ LoopStep(w) \/ RequestStop(w) \/ Crash(w)
         PROVE  ExclusiveInv'
    <3>1. ASSUME NEW s \in Stream, NEW reply \in Reply,
                 ClaimStale(w, s, reply) \/ ReadNew(w, s, reply)
          PROVE  ExclusiveInv'
      BY <1>2, <3>1, ClaimExclusive, ReadExclusive
    <3>2. "normal" \in Stream /\ "served" \in Reply
      BY DEF Stream, Reply
    <3>3. CASE Start(w) \/ RequestStop(w) \/ LeaveLoop(w) \/ OfferSlots(w) \/ Drain(w)
      BY <2>1, <2>5, <3>2, <3>3
    <3>4. CASE \E s \in Stream, reply \in Replies :
                  \/ EnsureReady(w, s, reply)
                  \/ ClaimStale(w, s, reply)
                  \/ ReadNew(w, s, reply)
      BY <2>1, <2>5, <2>8, <3>1, <3>4
    <3> QED
      BY <2>3, <2>10, <3>3, <3>4 DEF LoopStep
  <2>11. CASE \E j \in jobs : Handle(j)
    BY <2>6, <2>7, <2>8, <2>11 DEF Handle
  <2>12. CASE UNCHANGED vars
    BY <2>1, <2>12 DEF vars, redisVars
  <2> QED
    BY <1>2, <2>9, <2>10, <2>11, <2>12 DEF Next
<1> QED
  BY <1>1, <1>2, Invariance, PTL DEF Spec

\* No two coroutines, of one worker or of two, run the same intent at once,
\* unless its execution may outlast the idle time a claim waits for, whatever
\* the slow intents beside it do.
THEOREM ExecutionsAreExclusive == Spec => []ExclusiveExecution
<1>1. ExclusiveInv => ExclusiveExecution
  BY DEF ExclusiveInv
<1> QED
  BY <1>1, ExclusiveInvariance, PTL

-----------------------------------------------------------------------------
(* What the status of an intent that is not slow promises                  *)

\* A coroutine works only on a pending entry, and one past its verdict has
\* left `retrying' behind.
PromiseInv ==
    /\ \A j \in jobs :
          /\ j.task \notin SlowTask => j.task \in pending
          /\ j.task \in MalformedTask => j.step \in {"fetched", "begin", "bury", "deadAck"}
          /\ j.task \notin SlowTask /\ j.step \in {"ack", "bury", "deadAck"}
                 => status[j.task] # "retrying"
    /\ \A t \in MalformedTask : status[t] # "retrying"
    /\ RetryingIsPending

\* A step of one coroutine leaves the tasks of the others alone.
LEMMA HandlerPromise ==
    ASSUME IInv, ExclusiveInv, PromiseInv, NEW j \in jobs, NEW reply \in Reply,
           RejectPayload(j) \/ Execute(j) \/ HandlerStep(j, reply)
    PROVE  PromiseInv'
<1>1. jobs \in SUBSET Job /\ j.task \in Task /\ status \in [Task -> Status]
  BY DEF IInv, TypeOK, Job
<1>2. \A k \in jobs \ {j} : k.task \notin SlowTask => k.task # j.task
  BY DEF ExclusiveInv, ExclusiveExecution
<1>3. ASSUME NEW step \in JobStep, Move(j, step),
             \A t \in Task \ {j.task} : status'[t] = status[t],
             status'[j.task] = "retrying" => status[j.task] = "retrying",
             pending' = pending,
             j.task \in MalformedTask => step \in {"fetched", "begin", "bury", "deadAck"},
             j.task \notin SlowTask /\ step \in {"ack", "bury", "deadAck"}
                 => status'[j.task] # "retrying"
      PROVE  PromiseInv'
  <2>1. [j EXCEPT !.step = step].task = j.task /\ [j EXCEPT !.step = step].step = step
    BY <1>1 DEF Job
  <2>2. \A k \in jobs' : \/ k \in jobs \ {j}
                         \/ k.task = j.task /\ k.step = step
    BY <1>3, <2>1 DEF Move
  <2>3. \A k \in jobs \ {j} : k.task \notin SlowTask => status'[k.task] = status[k.task]
    BY <1>1, <1>2, <1>3 DEF Job
  <2>4. MalformedTask \subseteq Task
    OBVIOUS
  <2> QED
    BY <1>3, <2>2, <2>3, <2>4 DEF PromiseInv, RetryingIsPending
<1>4. ASSUME End(j),
             \A t \in Task \ {j.task} : status'[t] = status[t],
             j.task \in MalformedTask => status'[j.task] # "retrying",
             \/ pending' = pending
             \/ /\ pending' = pending \ {j.task}
                /\ j.task \notin SlowTask => status'[j.task] # "retrying"
      PROVE  PromiseInv'
  <2>1. \A k \in jobs' : k \in jobs /\ (k.task \notin SlowTask => k.task # j.task)
    BY <1>2, <1>4 DEF End
  <2>2. \A k \in jobs' : k.task \notin SlowTask => status'[k.task] = status[k.task]
    BY <1>1, <1>4, <2>1 DEF Job
  <2>3. \A k \in jobs' : k.task \notin SlowTask => k.task \in pending'
    BY <1>4, <2>1 DEF PromiseInv
  <2>4. \A t \in MalformedTask : status'[t] # "retrying"
    BY <1>4 DEF PromiseInv
  <2>5. j.task \notin SlowTask => j.task \in pending
    BY DEF PromiseInv
  <2>6. RetryingIsPending'
    BY <1>4, <2>5 DEF PromiseInv, RetryingIsPending
  <2> QED
    BY <2>1, <2>2, <2>3, <2>4, <2>6 DEF PromiseInv
<1>5. \A step \in {"execute", "except", "saveDone", "ack", "saveFailed", "saveRetrying",
                   "bury", "deadAck"} : step \in JobStep
  BY DEF JobStep
<1>6. /\ j.task \in MalformedTask => j.step \in {"fetched", "begin", "bury", "deadAck"}
      /\ j.task \notin SlowTask /\ j.step \in {"ack", "bury", "deadAck"}
             => status[j.task] # "retrying"
      /\ j.task \in MalformedTask => status[j.task] # "retrying"
  BY DEF PromiseInv
<1>7. CASE RejectPayload(j)
  <2>1. Move(j, "bury") /\ UNCHANGED <<status, pending>> /\ j.task \in MalformedTask
    BY <1>7 DEF RejectPayload, redisVars
  <2> QED
    BY <1>3, <1>5, <1>6, <2>1
<1>8. CASE Execute(j)
  <2>1. /\ Move(j, "saveDone") \/ Move(j, "except")
        /\ UNCHANGED <<status, pending>>
        /\ j.task \notin MalformedTask
    BY <1>6, <1>8 DEF Execute, redisVars
  <2> QED
    BY <1>3, <1>5, <2>1
<1>9. CASE SaveRunning(j, reply)
  <2>1. /\ Move(j, "execute") \/ Move(j, "except")
        /\ pending' = pending
        /\ j.task \notin MalformedTask
        /\ status' = status \/ status' = [status EXCEPT ![j.task] = "running"]
    BY <1>9 DEF SaveRunning, WriteStatus, redisVars
  <2> QED
    BY <1>1, <1>3, <1>5, <2>1
<1>10. CASE SaveDone(j, reply)
  <2>1. /\ \/ Move(j, "ack") /\ status' = [status EXCEPT ![j.task] = "done"]
           \/ /\ Move(j, "except")
              /\ status' = status \/ status' = [status EXCEPT ![j.task] = "done"]
        /\ pending' = pending
        /\ j.task \notin MalformedTask
    BY <1>6, <1>10 DEF SaveDone, WriteStatus, redisVars
  <2> QED
    BY <1>1, <1>3, <1>5, <2>1
<1>11. CASE CountDeliveries(j, reply)
  <2>1. /\ Move(j, "saveFailed") \/ Move(j, "saveRetrying")
        /\ UNCHANGED <<status, pending>>
        /\ j.task \notin MalformedTask
    BY <1>6, <1>11 DEF CountDeliveries, redisVars
  <2> QED
    BY <1>3, <1>5, <2>1
<1>12. CASE SaveRetrying(j, reply)
  <2>1. /\ End(j)
        /\ pending' = pending
        /\ j.task \notin MalformedTask
        /\ status' = status \/ status' = [status EXCEPT ![j.task] = "retrying"]
    BY <1>6, <1>12 DEF SaveRetrying, WriteStatus, redisVars
  <2> QED
    BY <1>1, <1>4, <2>1
<1>13. CASE SaveFailed(j, reply)
  <2>1. /\ \/ Move(j, "bury") /\ status' = [status EXCEPT ![j.task] = "failed"]
           \/ End(j)
        /\ pending' = pending
        /\ j.task \notin MalformedTask
        /\ status' = status \/ status' = [status EXCEPT ![j.task] = "failed"]
    BY <1>6, <1>13 DEF SaveFailed, WriteStatus, redisVars
  <2> QED
    BY <1>1, <1>3, <1>4, <1>5, <2>1
<1>14. CASE Bury(j, reply)
  <2>1. /\ Move(j, "deadAck") \/ End(j)
        /\ UNCHANGED <<status, pending>>
        /\ j.task \notin SlowTask \/ j.task \in MalformedTask => status[j.task] # "retrying"
    BY <1>6, <1>14 DEF Bury
  <2> QED
    BY <1>3, <1>4, <1>5, <2>1
<1>15. CASE Acknowledge(j, reply) \/ AcknowledgeDead(j, reply)
  <2>1. /\ End(j)
        /\ UNCHANGED status
        /\ j.task \notin SlowTask \/ j.task \in MalformedTask => status[j.task] # "retrying"
        /\ pending' = pending \/ pending' = pending \ {j.task}
    BY <1>6, <1>15 DEF Acknowledge, AcknowledgeDead, XAck
  <2> QED
    BY <1>4, <2>1
<1> QED
  BY <1>7, <1>8, <1>9, <1>10, <1>11, <1>12, <1>13, <1>14, <1>15 DEF HandlerStep

\* Every step keeps the promise.
LEMMA PromiseStep ==
    ASSUME IInv, ExclusiveInv, PromiseInv, [Next]_vars
    PROVE  PromiseInv'
<1>1. CASE UNCHANGED <<jobs, pending, status>>
  BY <1>1 DEF PromiseInv, RetryingIsPending
<1>2. ASSUME NEW t \in Task, Enqueue(t) \/ ExpireStatus(t)
      PROVE  PromiseInv'
  <2>1. /\ UNCHANGED <<jobs, pending>>
        /\ \E v \in {"queued", "none"} : status' = [status EXCEPT ![t] = v]
    BY <1>2 DEF Enqueue, ExpireStatus, redisVars
  <2>2. \A u \in Task : status'[u] = "retrying" => status[u] = "retrying"
    BY <2>1 DEF IInv, TypeOK
  <2>3. \A j \in jobs : j.task \in Task
    BY DEF IInv, TypeOK, Job
  <2>4. MalformedTask \subseteq Task
    OBVIOUS
  <2> QED
    BY <2>1, <2>2, <2>3, <2>4 DEF PromiseInv, RetryingIsPending
<1>3. ASSUME NEW t \in Task, GoStale(t)
      PROVE  UNCHANGED <<jobs, pending, status>>
  BY <1>3 DEF GoStale
<1>4. ASSUME NEW w \in Worker, NEW s \in Stream, NEW reply \in Reply,
             \/ Start(w) \/ RequestStop(w) \/ LeaveLoop(w) \/ OfferSlots(w) \/ Drain(w)
             \/ EnsureReady(w, s, reply)
      PROVE  UNCHANGED <<jobs, pending, status>>
  BY <1>4 DEF Start, RequestStop, LeaveLoop, OfferSlots, Drain, EnsureReady, redisVars
<1>5. ASSUME NEW w \in Worker, Crash(w)
      PROVE  PromiseInv'
  BY <1>5 DEF Crash, redisVars, PromiseInv, RetryingIsPending
<1>6. ASSUME NEW w \in Worker, NEW s \in Stream, NEW reply \in Reply, ClaimStale(w, s, reply)
      PROVE  PromiseInv'
  <2>1. /\ \A j \in jobs' :
              \/ j.task \in stale /\ j.step \in {"fetched", "begin"}
              \/ \E k \in jobs : k.task = j.task /\ (k.step = j.step \/ j.step = "begin")
        /\ pending' = pending
        /\ UNCHANGED status
    BY <1>6, ClaimJobs
  <2>2. stale \subseteq pending
    BY DEF IInv, TypeOK
  <2> QED
    BY <2>1, <2>2 DEF PromiseInv, RetryingIsPending
<1>7. ASSUME NEW w \in Worker, NEW s \in Stream, NEW reply \in Reply, ReadNew(w, s, reply)
      PROVE  PromiseInv'
  <2>1. /\ \A j \in jobs' : j \in jobs \/ (j.task \in pending' /\ j.step = "begin")
        /\ pending \subseteq pending'
        /\ UNCHANGED status
    BY <1>7, ReadJobs
  <2> QED
    BY <2>1 DEF PromiseInv, RetryingIsPending
<1>8. /\ \A reply \in Replies : reply \in Reply
      /\ "served" \in Reply
      /\ "normal" \in Stream
  BY DEF Replies, Reply, Stream
<1>9. CASE \E t \in Task : Enqueue(t) \/ GoStale(t) \/ ExpireStatus(t)
  BY <1>1, <1>2, <1>3, <1>9
<1>10. ASSUME NEW w \in Worker, Start(w) \/ LoopStep(w) \/ RequestStop(w) \/ Crash(w)
       PROVE  PromiseInv'
  <2>1. CASE Start(w) \/ RequestStop(w) \/ LeaveLoop(w) \/ OfferSlots(w) \/ Drain(w)
    BY <1>1, <1>4, <1>8, <2>1
  <2>2. CASE \E s \in Stream, reply \in Replies :
                EnsureReady(w, s, reply) \/ ClaimStale(w, s, reply) \/ ReadNew(w, s, reply)
    BY <1>1, <1>4, <1>6, <1>7, <1>8, <2>2
  <2> QED
    BY <1>5, <1>10, <2>1, <2>2 DEF LoopStep
<1>11. CASE \E j \in jobs : Handle(j)
  BY <1>8, <1>11, HandlerPromise DEF Handle
<1>12. CASE UNCHANGED vars
  BY <1>1, <1>12 DEF vars, redisVars
<1> QED
  BY <1>9, <1>10, <1>11, <1>12 DEF Next

\* The status of a task is what the coroutine that works on it left.
LEMMA PromiseInvariance == Spec => []PromiseInv
<1>1. Init => PromiseInv
  BY DEF Init, PromiseInv, RetryingIsPending
<1>2. IInv /\ ExclusiveInv /\ PromiseInv /\ [Next]_vars => PromiseInv'
  BY PromiseStep
<1> QED
  BY <1>1, <1>2, Invariance, ExclusiveInvariance, PTL DEF Spec

\* `retrying' promises another attempt: the entry is still pending, through
\* crashes, stops and failed calls, unless an execution of the intent may
\* outlast the idle time a claim waits for.
THEOREM RetryingStaysPending == Spec => []RetryingIsPending
<1>1. PromiseInv => RetryingIsPending
  BY DEF PromiseInv
<1> QED
  BY <1>1, PromiseInvariance, PTL

\* A task whose status is done was handed out and, until the first disruption,
\* only its acknowledgement is still to come.
FinalInv ==
    \A t \in Task \ SlowTask :
        status[t] = "done" =>
            /\ deliveries[t] > 0
            /\ disruptions = 0 /\ t \in pending => \E j \in jobs : j.task = t /\ j.step = "ack"

\* What DoneIsFinal asks of a step.
FinalAction ==
    \A t \in Task \ SlowTask :
        status[t] = "done" /\ (disruptions = 0 \/ t \notin pending) => status'[t] \in {"done", "none"}

\* A step of a coroutine, whether its call is served or not.
LEMMA HandlerFinal ==
    ASSUME IInv, ExclusiveInv, PromiseInv, FinalInv, NEW j \in jobs, NEW reply \in Reply,
           RejectPayload(j) \/ Execute(j) \/ HandlerStep(j, reply)
    PROVE  FinalInv' /\ FinalAction
<1>1. /\ jobs \in SUBSET Job
      /\ j.task \in Task
      /\ status \in [Task -> Status]
      /\ disruptions \in Nat
      /\ deliveries[j.task] > 0
  BY DEF IInv, TypeOK, HandedInv, Job
<1>2. disruptions = 0 /\ j.task \notin SlowTask /\ status[j.task] = "done" => j.step = "ack"
  BY <1>1 DEF PromiseInv, FinalInv, ExclusiveInv, ExclusiveExecution
<1>3. /\ deliveries' = deliveries
      /\ jobs \ {j} \subseteq jobs'
      /\ pending' \subseteq pending
  BY DEF RejectPayload, Execute, HandlerStep, SaveRunning, SaveDone, Acknowledge,
     CountDeliveries, SaveRetrying, SaveFailed, Bury, AcknowledgeDead, XAck, Move, End, redisVars
<1>4. /\ \A t \in Task \ {j.task} : status'[t] = status[t]
      /\ j.step = "ack" => status' = status
  BY <1>1 DEF RejectPayload, Execute, HandlerStep, SaveRunning, SaveDone, Acknowledge,
     CountDeliveries, SaveRetrying, SaveFailed, Bury, AcknowledgeDead, WriteStatus
<1>5. disruptions' = 0 => disruptions = 0 /\ (HandlerStep(j, reply) => reply = "served"
                                                \/ disruptions' = disruptions + 1)
  BY <1>1 DEF RejectPayload, Execute, HandlerStep, SaveRunning, SaveDone, Acknowledge,
     CountDeliveries, SaveRetrying, SaveFailed, Bury, AcknowledgeDead, Charge
<1>6. FinalAction
  <2> SUFFICES ASSUME NEW t \in Task \ SlowTask, status[t] = "done",
                      disruptions = 0 \/ t \notin pending
               PROVE  status'[t] = "done"
    BY DEF FinalAction
  <2>1. CASE t # j.task
    BY <1>4, <2>1
  <2>2. CASE t = j.task
    <3>1. t \in pending
      BY <2>2 DEF PromiseInv
    <3> QED
      BY <1>2, <1>4, <2>2, <3>1
  <2> QED
    BY <2>1, <2>2
<1>7. ASSUME NEW t \in Task \ SlowTask, status'[t] = "done"
      PROVE  deliveries'[t] > 0
  BY <1>1, <1>3, <1>4, <1>7 DEF FinalInv
<1>8. ASSUME NEW t \in Task \ SlowTask, status'[t] = "done", disruptions' = 0, t \in pending'
      PROVE  \E k \in jobs' : k.task = t /\ k.step = "ack"
  <2>1. CASE t # j.task
    <3>1. PICK k \in jobs : k.task = t /\ k.step = "ack"
      BY <1>3, <1>4, <1>5, <1>8, <2>1 DEF FinalInv
    <3> QED
      BY <1>3, <2>1, <3>1
  <2>2. CASE t = j.task
    <3>1. disruptions = 0 /\ (HandlerStep(j, reply) => reply = "served")
      BY <1>1, <1>5, <1>8
    <3>2. CASE SaveDone(j, reply)
      <4> DEFINE moved == [j EXCEPT !.step = "ack"]
      <4>1. jobs' = (jobs \ {j}) \union {moved}
        BY <3>1, <3>2 DEF HandlerStep, SaveDone, Move
      <4>2. moved.task = j.task /\ moved.step = "ack"
        BY <1>1 DEF Job
      <4> QED
        BY <2>2, <4>1, <4>2
    <3>3. CASE Acknowledge(j, reply)
      <4>1. pending' = pending \ {j.task}
        BY <3>1, <3>3 DEF HandlerStep, Acknowledge, XAck
      <4> QED
        BY <1>8, <2>2, <4>1
    <3>4. CASE \/ RejectPayload(j) \/ Execute(j) \/ SaveRunning(j, reply)
               \/ CountDeliveries(j, reply) \/ SaveRetrying(j, reply)
               \/ SaveFailed(j, reply) \/ Bury(j, reply) \/ AcknowledgeDead(j, reply)
      <4>1. j.step # "ack"
        BY <3>4 DEF RejectPayload, Execute, SaveRunning, CountDeliveries, SaveRetrying,
           SaveFailed, Bury, AcknowledgeDead
      <4>2. \/ status' = status
            \/ \E v \in {"running", "retrying", "failed"} : status' = [status EXCEPT ![j.task] = v]
        BY <3>4 DEF RejectPayload, Execute, SaveRunning, CountDeliveries, SaveRetrying,
           SaveFailed, Bury, AcknowledgeDead, WriteStatus
      <4>3. status[j.task] # "done"
        BY <1>2, <2>2, <3>1, <4>1
      <4> QED
        BY <1>1, <1>8, <2>2, <4>2, <4>3
    <3> QED
      BY <3>2, <3>3, <3>4 DEF HandlerStep
  <2> QED
    BY <2>1, <2>2
<1> QED
  BY <1>6, <1>7, <1>8 DEF FinalInv

\* Every step keeps what is known of a done task, and its status changes only
\* by expiring.
LEMMA FinalStep ==
    ASSUME IInv, ExclusiveInv, PromiseInv, FinalInv, [Next]_vars
    PROVE  FinalInv' /\ FinalAction
<1>1. disruptions \in Nat /\ status \in [Task -> Status]
  BY DEF IInv, TypeOK
<1>2. ASSUME UNCHANGED <<jobs, pending, status, deliveries>>,
             disruptions' = 0 => disruptions = 0
      PROVE  FinalInv' /\ FinalAction
  BY <1>2 DEF FinalInv, FinalAction
<1>3. ASSUME NEW t \in Task, Enqueue(t) \/ ExpireStatus(t)
      PROVE  FinalInv' /\ FinalAction
  <2>1. /\ UNCHANGED <<jobs, pending, deliveries, disruptions>>
        /\ \E v \in {"queued", "none"} :
              /\ status' = [status EXCEPT ![t] = v]
              /\ v = "queued" => deliveries[t] = 0
    BY <1>3 DEF Enqueue, ExpireStatus, redisVars, IInv, TypeOK, HandedInv
  <2>2. \A u \in Task : u # t => status'[u] = status[u]
    BY <1>1, <2>1
  <2>3. status'[t] = "none" \/ (status'[t] = "queued" /\ deliveries[t] = 0)
    BY <1>1, <2>1
  <2> QED
    BY <2>1, <2>2, <2>3 DEF FinalInv, FinalAction
<1>4. ASSUME NEW t \in Task, GoStale(t)
      PROVE  UNCHANGED <<jobs, pending, status, deliveries, disruptions>>
  BY <1>4 DEF GoStale
<1>5. ASSUME NEW w \in Worker, NEW s \in Stream, NEW reply \in Reply,
             \/ Start(w) \/ RequestStop(w) \/ LeaveLoop(w) \/ OfferSlots(w) \/ Drain(w)
             \/ EnsureReady(w, s, reply)
      PROVE  FinalInv' /\ FinalAction
  <2>1. UNCHANGED <<jobs, pending, status, deliveries>>
    BY <1>5 DEF Start, RequestStop, LeaveLoop, OfferSlots, Drain, EnsureReady, redisVars
  <2>2. disruptions' = 0 => disruptions = 0
    BY <1>1, <1>5 DEF Start, RequestStop, LeaveLoop, OfferSlots, Drain, EnsureReady, Charge
  <2> QED
    BY <1>2, <2>1, <2>2
<1>6. ASSUME NEW w \in Worker, NEW s \in Stream, NEW reply \in Reply,
             ClaimStale(w, s, reply) \/ ReadNew(w, s, reply)
      PROVE  FinalInv' /\ FinalAction
  <2>1. /\ \A k \in jobs : k.step # "fetched" => k \in jobs'
        /\ \A t \in pending' \ pending : deliveries[t] = 0
        /\ UNCHANGED status
    BY <1>6, ClaimJobs, ReadJobs
  <2>2. \A t \in Task : deliveries[t] \in Nat /\ deliveries'[t] \in {deliveries[t], deliveries[t] + 1}
    BY <1>6 DEF ClaimStale, ReadNew, Hand, IInv, TypeOK
  <2>3. disruptions' = 0 => disruptions = 0
    BY <1>1, <1>6 DEF ClaimStale, ReadNew, Charge
  <2>4. ASSUME NEW t \in Task \ SlowTask, status[t] = "done"
        PROVE  /\ deliveries'[t] > 0
               /\ disruptions' = 0 /\ t \in pending' =>
                      \E k \in jobs' : k.task = t /\ k.step = "ack"
    <3>1. deliveries[t] > 0
      BY <2>4 DEF FinalInv
    <3>2. deliveries'[t] > 0
      BY <2>2, <3>1
    <3>3. t \in pending' => t \in pending
      BY <2>1, <3>1
    <3>4. disruptions = 0 /\ t \in pending => \E k \in jobs : k.task = t /\ k.step = "ack"
      BY <2>4 DEF FinalInv
    <3> QED
      BY <2>1, <2>3, <3>2, <3>3, <3>4
  <2> QED
    BY <2>1, <2>4 DEF FinalInv, FinalAction
<1>7. ASSUME NEW w \in Worker, Crash(w)
      PROVE  FinalInv' /\ FinalAction
  <2>1. /\ UNCHANGED <<status, deliveries>>
        /\ disruptions' # 0
    BY <1>1, <1>7 DEF Crash, redisVars
  <2> QED
    BY <2>1 DEF FinalInv, FinalAction
<1>8. /\ \A reply \in Replies : reply \in Reply
      /\ "served" \in Reply
      /\ "normal" \in Stream
  BY DEF Replies, Reply, Stream
<1>9. CASE \E t \in Task : Enqueue(t) \/ GoStale(t) \/ ExpireStatus(t)
  BY <1>2, <1>3, <1>4, <1>9
<1>10. CASE \E w \in Worker : Start(w) \/ LoopStep(w) \/ RequestStop(w) \/ Crash(w)
  BY <1>5, <1>6, <1>7, <1>8, <1>10 DEF LoopStep
<1>11. CASE \E j \in jobs : Handle(j)
  BY <1>8, <1>11, HandlerFinal DEF Handle
<1>12. CASE UNCHANGED vars
  BY <1>2, <1>12 DEF vars, redisVars
<1> QED
  BY <1>9, <1>10, <1>11, <1>12 DEF Next

\* Once `done' is saved the status of an intent that is not slow says nothing
\* else until it expires: before the first disruption always, and after it as
\* soon as the entry is acknowledged.
THEOREM DoneStaysDone == Spec => DoneIsFinal
<1>1. Init => FinalInv
  BY DEF Init, FinalInv
<1>2. IInv /\ ExclusiveInv /\ PromiseInv /\ FinalInv /\ [Next]_vars => FinalInv'
  BY FinalStep
<1>3. IInv /\ ExclusiveInv /\ PromiseInv /\ FinalInv /\ [Next]_vars
          => [\A t \in Task \ SlowTask :
                 status[t] = "done" /\ (disruptions = 0 \/ t \notin pending)
                     => status'[t] \in {"done", "none"}]_vars
  BY FinalStep DEF FinalAction
<1> QED
  BY <1>1, <1>2, <1>3, Invariance, ExclusiveInvariance, PromiseInvariance, PTL
     DEF Spec, DoneIsFinal

-----------------------------------------------------------------------------
(* The workers implement the abstract queue                                *)

\* What the abstract queue calls settled: delivered, and acknowledged.
Settled == {t \in Task : deliveries[t] > 0 /\ t \notin pending}

\* What it calls the outcome of a task.
OutcomeOf(t) ==
    {o \in {"answered", "buried"} : \/ o = "answered" /\ t \in answered
                                    \/ o = "buried" /\ dead[t] > 0}

USE DEF Queue!vars, Queue!Outcome

\* The initial states map to the initial states of the abstract queue.
LEMMA QueueInit == Init => Queue!Init
BY DEF Init, Queue!Init, Enqueued

\* A step that touches no entry, delivery or outcome is a stutter.
LEMMA QueueStutter ==
    ASSUME UNCHANGED <<entry, pending, deliveries, dead, answered>>
    PROVE  UNCHANGED Queue!vars
BY DEF Enqueued

\* enqueue makes the abstract queue accept the task.
LEMMA QueueAccept ==
    ASSUME IInv, NEW t \in Task, Enqueue(t)
    PROVE  Queue!Accept(t)
<1>1. Enqueued' = Enqueued \union {t} /\ t \notin Enqueued
  BY DEF IInv, TypeOK, Enqueue, Enqueued, Stream, StreamOf
<1>2. UNCHANGED <<deliveries, dead, answered, pending>>
  BY DEF Enqueue
<1> QED
  BY <1>1, <1>2 DEF Queue!Accept

\* A batch from a claim or a read is a delivery of the abstract queue, unless
\* it is empty.
LEMMA QueueDeliver ==
    ASSUME IInv, NEW batch \in SUBSET Task, Hand(batch),
           UNCHANGED <<entry, dead, answered>>,
           \A t \in batch : entry[t] > 0 /\ (t \in pending \/ deliveries[t] = 0)
    PROVE  Queue!Deliver(batch) \/ UNCHANGED Queue!vars
<1>1. UNCHANGED Enqueued
  BY DEF Enqueued
<1>2. CASE batch = {}
  BY <1>1, <1>2 DEF Hand, IInv, TypeOK
<1>3. CASE batch # {}
  <2>1. batch \subseteq Enqueued \ Settled
    BY DEF Enqueued, Settled
  <2>2. Settled' = Settled
    BY DEF Settled, Hand, IInv, TypeOK
  <2> QED
    BY <1>1, <1>3, <2>1, <2>2 DEF Queue!Deliver, Hand, Settled
<1> QED
  BY <1>2, <1>3

\* An outcome is recorded only for a task that was handed out.
LEMMA QueueConclude ==
    ASSUME IInv, NEW t \in Task, deliveries[t] > 0,
           UNCHANGED <<entry, pending, deliveries>>,
           \/ /\ answered' = answered \union {t}
              /\ UNCHANGED dead
           \/ /\ dead' = [dead EXCEPT ![t] = @ + 1]
              /\ UNCHANGED answered
    PROVE  \E o \in {"answered", "buried"} : Queue!Conclude(t, o)
<1>1. UNCHANGED Enqueued /\ UNCHANGED Settled
  BY DEF Enqueued, Settled
<1>2. CASE answered' = answered \union {t} /\ UNCHANGED dead
  <2>1. Queue!Conclude(t, "answered")
    BY <1>1, <1>2 DEF Queue!Conclude, Settled
  <2> QED
    BY <2>1
<1>3. CASE dead' = [dead EXCEPT ![t] = @ + 1] /\ UNCHANGED answered
  <2>1. \A u \in Task : dead'[u] > 0 <=> u = t \/ dead[u] > 0
    BY <1>3 DEF IInv, TypeOK
  <2>2. Queue!Conclude(t, "buried")
    BY <1>1, <1>3, <2>1 DEF Queue!Conclude, Settled
  <2> QED
    BY <2>2
<1> QED
  BY <1>2, <1>3

\* An acknowledgement settles a task that has an outcome, once.
LEMMA QueueSettle ==
    ASSUME IInv, NEW t \in Task, deliveries[t] > 0, t \in answered \/ dead[t] > 0,
           pending' = pending \ {t}, UNCHANGED <<entry, deliveries, dead, answered>>
    PROVE  Queue!Settle(t) \/ UNCHANGED Queue!vars
<1>1. UNCHANGED Enqueued
  BY DEF Enqueued
<1>2. CASE t \notin pending
  BY <1>1, <1>2
<1>3. CASE t \in pending
  <2>1. t \in Enqueued \ Settled
    BY <1>3 DEF IInv, HandedInv, Enqueued, Settled
  <2>2. Settled' = Settled \union {t}
    BY DEF Settled
  <2>3. OutcomeOf(t) # {}
    BY DEF OutcomeOf
  <2> QED
    BY <1>1, <2>1, <2>2, <2>3 DEF Queue!Settle, Settled, OutcomeOf
<1> QED
  BY <1>2, <1>3

\* Every step is a step of the abstract queue or leaves it alone.
LEMMA QueueNext ==
    ASSUME IInv, [Next]_vars
    PROVE  [Queue!Next]_(Queue!vars)
<1>1. ASSUME UNCHANGED <<entry, pending, deliveries, dead, answered>>
      PROVE  [Queue!Next]_(Queue!vars)
  BY <1>1, QueueStutter
<1>2. ASSUME NEW t \in Task, Enqueue(t)
      PROVE  Queue!Next
  BY <1>2, QueueAccept DEF Queue!Next
<1>3. ASSUME NEW batch \in SUBSET Task, Queue!Deliver(batch) \/ UNCHANGED Queue!vars
      PROVE  [Queue!Next]_(Queue!vars)
  BY <1>3 DEF Queue!Next
<1>4. ASSUME NEW w \in Worker, NEW s \in Stream, NEW reply \in Reply, ClaimStale(w, s, reply)
      PROVE  [Queue!Next]_(Queue!vars)
  <2> DEFINE batch == IF reply = "refused" THEN {} ELSE Claimed(s, cursor[w][s], budget[w])
  <2>1. batch \in SUBSET Task /\ \A t \in batch : entry[t] > 0 /\ t \in pending
    BY ClaimedStale DEF IInv, TypeOK, Entries, Enqueued
  <2>2. Hand(batch) /\ UNCHANGED <<entry, dead, answered>>
    BY <1>4 DEF ClaimStale
  <2> HIDE DEF batch
  <2> QED
    BY <1>3, <2>1, <2>2, QueueDeliver
<1>5. ASSUME NEW w \in Worker, NEW s \in Stream, NEW reply \in Reply, ReadNew(w, s, reply)
      PROVE  [Queue!Next]_(Queue!vars)
  <2> DEFINE batch == IF reply = "refused" THEN {} ELSE NewEntries(s, budget[w])
  <2>1. batch \in SUBSET Task /\ \A t \in batch : entry[t] > 0 /\ deliveries[t] = 0
    BY DEF IInv, TypeOK, HandedInv, NewEntries, Entries, Enqueued
  <2>2. Hand(batch) /\ UNCHANGED <<entry, dead, answered>>
    BY <1>5 DEF ReadNew
  <2> HIDE DEF batch
  <2> QED
    BY <1>3, <2>1, <2>2, QueueDeliver
<1>6. ASSUME NEW j \in jobs, NEW reply \in Reply, SaveDone(j, reply) \/ Bury(j, reply)
      PROVE  [Queue!Next]_(Queue!vars)
  <2>1. j.task \in Task /\ deliveries[j.task] > 0
    BY DEF IInv, TypeOK, HandedInv, Job
  <2>2. CASE reply = "refused"
    BY <1>1, <1>6, <2>2 DEF SaveDone, Bury, redisVars
  <2>3. CASE reply # "refused"
    <3>1. \E o \in {"answered", "buried"} : Queue!Conclude(j.task, o)
      BY <1>6, <2>1, <2>3, QueueConclude DEF SaveDone, Bury, redisVars
    <3> QED
      BY <2>1, <3>1 DEF Queue!Next
  <2> QED
    BY <2>2, <2>3
<1>7. ASSUME NEW j \in jobs, NEW reply \in Reply, Acknowledge(j, reply) \/ AcknowledgeDead(j, reply)
      PROVE  [Queue!Next]_(Queue!vars)
  <2>1. /\ j.task \in Task /\ deliveries[j.task] > 0
        /\ j.task \in answered \/ dead[j.task] > 0
    BY <1>7 DEF IInv, TypeOK, HandedInv, Job, Acknowledge, AcknowledgeDead
  <2>2. UNCHANGED <<entry, deliveries, dead, answered>>
    BY <1>7 DEF Acknowledge, AcknowledgeDead
  <2>3. pending' = pending \/ pending' = pending \ {j.task}
    BY <1>7 DEF Acknowledge, AcknowledgeDead, XAck
  <2>4. CASE pending' = pending
    BY <1>1, <2>2, <2>4
  <2>5. CASE pending' = pending \ {j.task}
    <3>1. Queue!Settle(j.task) \/ UNCHANGED Queue!vars
      BY <2>1, <2>2, <2>5, QueueSettle
    <3> QED
      BY <2>1, <3>1 DEF Queue!Next
  <2> QED
    BY <2>3, <2>4, <2>5
<1>8. \A reply \in Replies : reply \in Reply
  BY DEF Replies, Reply
<1>9. CASE \E t \in Task : Enqueue(t) \/ GoStale(t) \/ ExpireStatus(t)
  <2>1. ASSUME NEW t \in Task, GoStale(t) \/ ExpireStatus(t)
        PROVE  UNCHANGED <<entry, pending, deliveries, dead, answered>>
    BY <2>1 DEF GoStale, ExpireStatus, redisVars
  <2> QED
    BY <1>1, <1>2, <1>9, <2>1
<1>10. CASE \E w \in Worker : Start(w) \/ LoopStep(w) \/ RequestStop(w) \/ Crash(w)
  <2>1. ASSUME NEW w \in Worker,
               Start(w) \/ RequestStop(w) \/ Crash(w) \/ LeaveLoop(w) \/ OfferSlots(w) \/ Drain(w)
        PROVE  UNCHANGED <<entry, pending, deliveries, dead, answered>>
    BY <2>1 DEF Start, RequestStop, Crash, LeaveLoop, OfferSlots, Drain, redisVars
  <2>2. ASSUME NEW w \in Worker, NEW s \in Stream, NEW reply \in Reply, EnsureReady(w, s, reply)
        PROVE  UNCHANGED <<entry, pending, deliveries, dead, answered>>
    BY <2>2 DEF EnsureReady
  <2> QED
    BY <1>1, <1>4, <1>5, <1>8, <1>10, <2>1, <2>2 DEF LoopStep
<1>11. CASE \E j \in jobs : Handle(j)
  <2>1. ASSUME NEW j \in jobs, RejectPayload(j) \/ Execute(j)
        PROVE  UNCHANGED <<entry, pending, deliveries, dead, answered>>
    BY <2>1 DEF RejectPayload, Execute, redisVars
  <2>2. ASSUME NEW j \in jobs, NEW reply \in Reply,
               \/ SaveRunning(j, reply) \/ CountDeliveries(j, reply)
               \/ SaveRetrying(j, reply) \/ SaveFailed(j, reply)
        PROVE  UNCHANGED <<entry, pending, deliveries, dead, answered>>
    BY <2>2 DEF SaveRunning, CountDeliveries, SaveRetrying, SaveFailed, redisVars
  <2> QED
    BY <1>1, <1>6, <1>7, <1>8, <1>11, <2>1, <2>2 DEF Handle, HandlerStep
<1>12. CASE UNCHANGED vars
  BY <1>1, <1>12 DEF vars, redisVars
<1> QED
  BY <1>9, <1>10, <1>11, <1>12 DEF Next

\* The streams, the consumer group and the workers implement AtLeastOnceQueue.
THEOREM DeliveryRefinesQueue == Spec => ImplementsQueue
<1>1. Init => Queue!Init
  BY QueueInit
<1>2. IInv /\ [Next]_vars => [Queue!Next]_(Queue!vars)
  BY QueueNext
<1> QED
  BY <1>1, <1>2, Invariance, PTL DEF Spec, ImplementsQueue, Queue!Spec

\* The abstract queue never takes back what it let go of.
LEMMA QueueKeepsSettled ==
    ASSUME IInv, [Queue!Next]_(Queue!vars), NEW t \in Settled
    PROVE  t \in Settled' /\ deliveries'[t] = deliveries[t]
<1>1. CASE UNCHANGED Queue!vars
  BY <1>1 DEF Settled
<1>2. ASSUME NEW m \in Task, Queue!Accept(m) \/ Queue!Settle(m)
      PROVE  t \in Settled' /\ deliveries'[t] = deliveries[t]
  <2>1. deliveries' = deliveries /\ (Settled' = Settled \/ Settled' = Settled \union {m})
    BY <1>2 DEF Queue!Accept, Queue!Settle, Settled
  <2> QED
    BY <2>1
<1>3. ASSUME NEW m \in Task, NEW o \in {"answered", "buried"}, Queue!Conclude(m, o)
      PROVE  t \in Settled' /\ deliveries'[t] = deliveries[t]
  <2>1. deliveries' = deliveries /\ Settled' = Settled
    BY <1>3 DEF Queue!Conclude, Settled
  <2> QED
    BY <2>1
<1>4. ASSUME NEW batch \in SUBSET Task, Queue!Deliver(batch)
      PROVE  t \in Settled' /\ deliveries'[t] = deliveries[t]
  <2>1. Settled' = Settled /\ t \in Task /\ t \notin batch
    BY <1>4 DEF Queue!Deliver, Settled
  <2> QED
    BY <1>4, <2>1 DEF Queue!Deliver
<1> QED
  BY <1>1, <1>2, <1>3, <1>4 DEF Queue!Next

\* What was let go of stays so, and is not handed out by the step.
NotHandedOutAgain == \A t \in Settled : t \in Settled' /\ deliveries'[t] = deliveries[t]

\* A task whose entry was acknowledged is never handed out again, whichever
\* calls fail and processes crash: what the abstract queue promises, carried
\* over by the refinement.  (XACK in _handle_one and _move_to_dead_letter)
THEOREM SettledForGood == Spec => [][NotHandedOutAgain]_vars
<1>1. IInv /\ [Next]_vars => [NotHandedOutAgain]_vars
  BY QueueNext, QueueKeepsSettled DEF NotHandedOutAgain
<1> QED
  BY <1>1, Invariance, PTL DEF Spec

=============================================================================
