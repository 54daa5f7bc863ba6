--------------------------- MODULE TaskDelivery ---------------------------
(***************************************************************************)
(* The asynchronous half of the commerce agent: intents wait in two Redis  *)
(* Streams, worker processes read them through one consumer group, run the *)
(* agent and acknowledge.  Modelled from RedisStreamTaskQueue and from     *)
(* process_task / run_worker.                                              *)
(*                                                                         *)
(* One action is one Redis call together with what the coroutine does with *)
(* its reply, because a coroutine can be interrupted only where it awaits. *)
(* Every call ends in one of three ways (Replies): it is served, it is     *)
(* served but the reply never arrives, or it never reaches Redis.          *)
(***************************************************************************)
EXTENDS Integers, FiniteSets

CONSTANTS
    Task,            \* the intents; one stream entry each
    LargeTask,       \* those submitted with priority > 0
    MalformedTask,   \* those whose payload does not decode to an IntentTask
    Worker,          \* the worker processes
    MaxDeliveries,   \* QUEUE_MAX_DELIVERIES
    Concurrency,     \* WORKER_CONCURRENCY, intents one worker runs at a time
    ScanFactor,      \* XAUTOCLAIM inspects at most count * ScanFactor entries
    SlowTask,        \* those whose execution may outlast the claim idle time
    MaxDisruptions,  \* bound: lost or refused calls, crashes and stops
    DeliveryBound    \* bound: an entry delivered this often goes stale no more

ASSUME TaskDeliveryAssumption ==
    /\ IsFiniteSet(Task)
    /\ LargeTask \subseteq Task
    /\ MalformedTask \subseteq Task
    /\ MaxDeliveries \in Nat \ {0}
    /\ Concurrency \in Nat \ {0}
    /\ ScanFactor \in Nat \ {0}
    /\ SlowTask \subseteq Task
    /\ MaxDisruptions \in Nat
    /\ DeliveryBound \in Nat

VARIABLES
    \* Redis
    entry,           \* the task's position in its stream, 0 before XADD
    last,            \* position of the last entry of each stream
    group,           \* the streams whose consumer group exists
    delivered,       \* the group's last-delivered position in each stream
    pending,         \* the group's Pending Entries List
    stale,           \* pending entries that were idle for _CLAIM_IDLE_MS
    deliveries,      \* times_delivered of each entry
    dead,            \* how many copies the dead-letter stream holds
    status,          \* the status record of each task
    \* worker processes
    phase,           \* where the consume loop of each worker is
    stopping,        \* the workers that were asked to stop
    budget,          \* free slots the current iteration may still fill
    cursor,          \* _claim_cursors, a stream position or 0 for "0-0"
    jobs,            \* the _handle_one coroutines that have not ended
    \* bookkeeping
    answered,        \* tasks whose `done' status was saved at some time
    disruptions      \* disruptions so far

redisVars == <<entry, last, group, delivered, pending, stale, deliveries, dead>>
loopVars == <<phase, stopping, budget, cursor>>
vars == <<redisVars, status, loopVars, jobs, answered, disruptions>>

Stream == {"normal", "large"}

Status == {"none", "queued", "running", "retrying", "done", "failed"}

Phase == {"down", "ensureNormal", "ensureLarge", "loop", "claimNormal",
          "claimLarge", "readNormal", "readLarge", "drain"}

JobStep == {"fetched", "begin", "execute", "saveDone", "ack", "except",
            "saveFailed", "saveRetrying", "bury", "deadAck"}

\* An execution: the n-th delivery of a task, handled by a worker.
Job == [task : Task, n : Nat, worker : Worker, step : JobStep]

-----------------------------------------------------------------------------
(* Redis calls                                                             *)

Reply == {"served", "lost", "refused"}

\* The ways the next call can end.
Replies == IF disruptions < MaxDisruptions THEN Reply ELSE {"served"}

Charge(reply) ==
    disruptions' = IF reply = "served" THEN disruptions ELSE disruptions + 1

StreamOf(t) == IF t \in LargeTask THEN "large" ELSE "normal"

Enqueued == {t \in Task : entry[t] > 0}

Entries(s) == {t \in Enqueued : StreamOf(t) = s}

\* (mutant of WriteStatus: a record that exists is not overwritten)
WriteStatusOnce(t, state, reply) ==
    status' = IF reply = "refused" \/ status[t] # "none" THEN status
              ELSE [status EXCEPT ![t] = state]

WriteStatus(t, state, reply) ==
    status' = IF reply = "refused" THEN status ELSE [status EXCEPT ![t] = state]

\* XACK removes the entry from the pending list, whoever owns it.
XAck(t, reply) ==
    /\ pending' = IF reply = "refused" THEN pending ELSE pending \ {t}
    /\ stale' = IF reply = "refused" THEN stale ELSE stale \ {t}

\* A delivery, by XREADGROUP or XAUTOCLAIM, of a batch: the entries are
\* pending, their idle time restarts and their delivery counts grow.
Hand(batch) ==
    /\ pending' = pending \union batch
    /\ stale' = stale \ batch
    /\ deliveries' = [t \in Task |->
                         IF t \in batch THEN deliveries[t] + 1 ELSE deliveries[t]]

\* The executions a worker starts for a batch it received.
NewJobs(w, batch, step) ==
    {[task |-> t, n |-> deliveries[t] + 1, worker |-> w, step |-> step] : t \in batch}

-----------------------------------------------------------------------------
Init ==
    /\ entry = [t \in Task |-> 0]
    /\ last = [s \in Stream |-> 0]
    /\ group = {}
    /\ delivered = [s \in Stream |-> 0]
    /\ pending = {}
    /\ stale = {}
    /\ deliveries = [t \in Task |-> 0]
    /\ dead = [t \in Task |-> 0]
    /\ status = [t \in Task |-> "none"]
    /\ phase = [w \in Worker |-> "down"]
    /\ stopping = {}
    /\ budget = [w \in Worker |-> 0]
    /\ cursor = [w \in Worker |-> [s \in Stream |-> 0]]
    /\ jobs = {}
    /\ answered = {}
    /\ disruptions = 0

-----------------------------------------------------------------------------
(* Submission and time                                                     *)

\* enqueue: one transaction appends the entry and creates the status.
Enqueue(t) ==
    LET s == StreamOf(t) IN
    /\ entry[t] = 0
    /\ last' = [last EXCEPT ![s] = @ + 1]
    /\ entry' = [entry EXCEPT ![t] = last[s] + 1]
    /\ status' = [status EXCEPT ![t] = "queued"]
    /\ UNCHANGED <<group, delivered, pending, stale, deliveries, dead,
                   loopVars, jobs, answered, disruptions>>

\* A pending entry has not been delivered for _CLAIM_IDLE_MS.
GoStale(t) ==
    /\ t \in pending \ stale
    /\ deliveries[t] < DeliveryBound
    /\ t \in SlowTask \/ \A j \in jobs : j.task # t
    /\ stale' = stale \union {t}
    /\ UNCHANGED <<entry, last, group, delivered, pending, deliveries, dead,
                   status, loopVars, jobs, answered, disruptions>>

\* The status record reaches its time to live.
ExpireStatus(t) ==
    /\ status[t] # "none"
    /\ status' = [status EXCEPT ![t] = "none"]
    /\ UNCHANGED <<redisVars, loopVars, jobs, answered, disruptions>>

-----------------------------------------------------------------------------
(* The worker process                                                      *)

Goto(w, p) == phase' = [phase EXCEPT ![w] = p]

\* A new process, so a new adapter object with fresh cursors.
Start(w) ==
    /\ phase[w] = "down"
    /\ Goto(w, "ensureNormal")
    /\ cursor' = [cursor EXCEPT ![w] = [s \in Stream |-> 0]]
    /\ stopping' = stopping \ {w}
    /\ UNCHANGED <<redisVars, status, budget, jobs, answered, disruptions>>

\* (mutant of GroupStart: the group is created at id $)
GroupStartAtTail(s) == last[s]

\* The groups are created at id 0, ahead of everything already appended.
GroupStart(s) == 0

\* ensure_ready: a group is created unless it exists already.  An
\* error ends the process.
EnsureReady(w, s, reply) ==
    /\ phase[w] = IF s = "normal" THEN "ensureNormal" ELSE "ensureLarge"
    /\ Charge(reply)
    /\ group' = IF reply = "refused" THEN group ELSE group \union {s}
    /\ delivered' = IF reply = "refused" \/ s \in group THEN delivered
                    ELSE [delivered EXCEPT ![s] = GroupStart(s)]
    /\ Goto(w, IF reply # "served" THEN "down"
               ELSE IF s = "normal" THEN "ensureLarge" ELSE "loop")
    /\ UNCHANGED <<entry, last, pending, stale, deliveries, dead, status,
                   stopping, budget, cursor, jobs, answered>>

\* SIGTERM or SIGINT, a disruption to whoever waits for work to be done.
RequestStop(w) ==
    /\ phase[w] # "down"
    /\ w \notin stopping
    /\ disruptions < MaxDisruptions
    /\ disruptions' = disruptions + 1
    /\ stopping' = stopping \union {w}
    /\ UNCHANGED <<redisVars, status, phase, budget, cursor, jobs, answered>>

JobsOf(w) == {j \in jobs : j.worker = w}

\* The head of the loop: leave it, or offer the free slots.  With no slot
\* free the loop waits for a coroutine to end.
LeaveLoop(w) ==
    /\ phase[w] = "loop"
    /\ w \in stopping
    /\ Goto(w, "drain")
    /\ UNCHANGED <<redisVars, status, stopping, budget, cursor, jobs, answered, disruptions>>

\* (mutant of OfferSlots: should_stop is not consulted)
OfferSlotsAnyway(w) ==
    /\ phase[w] = "loop"
    /\ Cardinality(JobsOf(w)) < Concurrency
    /\ budget' = [budget EXCEPT ![w] = Concurrency - Cardinality(JobsOf(w))]
    /\ Goto(w, "claimNormal")
    /\ UNCHANGED <<redisVars, status, stopping, cursor, jobs, answered, disruptions>>

OfferSlots(w) ==
    /\ phase[w] = "loop"
    /\ w \notin stopping
    /\ Cardinality(JobsOf(w)) < Concurrency
    /\ budget' = [budget EXCEPT ![w] = Concurrency - Cardinality(JobsOf(w))]
    /\ Goto(w, "claimNormal")
    /\ UNCHANGED <<redisVars, status, stopping, cursor, jobs, answered, disruptions>>

\* The pending entries XAUTOCLAIM inspects: from the cursor on, until it has
\* claimed `count' of them or inspected count * ScanFactor.
Ahead(s, from) == {t \in Entries(s) : t \in pending /\ entry[t] >= from}

Inspected(s, from, count) ==
    {t \in Ahead(s, from) :
        LET before == {u \in Ahead(s, from) : entry[u] < entry[t]} IN
        /\ Cardinality(before) < count * ScanFactor
        /\ Cardinality(before \intersect stale) < count}

\* (mutant of Claimed: min_idle_time is not passed)
ClaimedAtOnce(s, from, count) == Inspected(s, from, count)

Claimed(s, from, count) == Inspected(s, from, count) \intersect stale

\* (mutant of IsNextCursor: a scan that reached the end does not start over)
IsNextCursorNoReset(s, from, count, i) ==
    LET rest == Ahead(s, from) \ Inspected(s, from, count) IN
    \/ rest = {} /\ i = from
    \/ \E t \in rest : i = entry[t] /\ \A u \in rest : i <= entry[u]

\* Where the next scan starts: the first entry not inspected, or "0-0".
IsNextCursor(s, from, count, i) ==
    LET rest == Ahead(s, from) \ Inspected(s, from, count) IN
    \/ rest = {} /\ i = 0
    \/ \E t \in rest : i = entry[t] /\ \A u \in rest : i <= entry[u]

\* The coroutines of everything a worker holds are created.
Dispatch(w, js) ==
    {IF j.worker = w /\ j.step = "fetched" THEN [j EXCEPT !.step = "begin"] ELSE j : j \in js}

\* (mutant of Left: both streams are claimed from with the full budget)
LeftUnreduced(w, got) == budget[w]

\* The slots still free after a claim.
Left(w, got) == budget[w] - Cardinality(got)

\* _claim_stale_tasks: the normal stream first, then the large one with what
\* is left of the budget.  A failed claim counts as one that found nothing.
ClaimStale(w, s, reply) ==
    LET batch == IF reply = "refused" THEN {} ELSE Claimed(s, cursor[w][s], budget[w])
        got   == IF reply = "served" THEN batch ELSE {}
        held  == jobs \union NewJobs(w, got, "fetched")
        left  == Left(w, got)
        goOn  == s = "normal" /\ left > 0
        any   == \E j \in held : j.worker = w /\ j.step = "fetched"
    IN
    /\ phase[w] = IF s = "normal" THEN "claimNormal" ELSE "claimLarge"
    /\ Charge(reply)
    /\ Hand(batch)
    /\ IF reply = "served"
       THEN \E i \in 0..last[s] : /\ IsNextCursor(s, cursor[w][s], budget[w], i)
                                  /\ cursor' = [cursor EXCEPT ![w][s] = i]
       ELSE UNCHANGED cursor
    /\ budget' = [budget EXCEPT ![w] = left]
    /\ jobs' = IF goOn THEN held ELSE Dispatch(w, held)
    /\ Goto(w, IF goOn THEN "claimLarge" ELSE IF any THEN "loop" ELSE "readNormal")
    /\ UNCHANGED <<entry, last, group, delivered, dead, status, stopping, answered>>

\* The entries XREADGROUP delivers: the next ones, at most `count'.
NewEntries(s, count) ==
    {t \in Entries(s) : entry[t] > delivered[s] /\ entry[t] <= delivered[s] + count}

NextDelivered(s, count) ==
    IF delivered[s] + count < last[s] THEN delivered[s] + count ELSE last[s]

\* _read_new_tasks: the large stream is read when the normal one is idle.  A
\* failed read ends the iteration.
ReadNew(w, s, reply) ==
    LET batch == IF reply = "refused" THEN {} ELSE NewEntries(s, budget[w]) IN
    /\ phase[w] = IF s = "normal" THEN "readNormal" ELSE "readLarge"
    /\ Charge(reply)
    /\ Hand(batch)
    /\ delivered' = IF reply = "refused" THEN delivered
                    ELSE [delivered EXCEPT ![s] = NextDelivered(s, budget[w])]
    /\ jobs' = IF reply = "served" THEN jobs \union NewJobs(w, batch, "begin") ELSE jobs
    /\ Goto(w, IF reply = "served" /\ batch = {} /\ s = "normal" THEN "readLarge" ELSE "loop")
    /\ UNCHANGED <<entry, last, group, dead, status, stopping, budget, cursor, answered>>

\* After a stop request the process ends when its coroutines have ended.
Drain(w) ==
    /\ phase[w] = "drain"
    /\ JobsOf(w) = {}
    /\ Goto(w, "down")
    /\ UNCHANGED <<redisVars, status, stopping, budget, cursor, jobs, answered, disruptions>>

\* The process is killed: its coroutines are gone, its entries stay pending.
Crash(w) ==
    /\ phase[w] # "down"
    /\ disruptions < MaxDisruptions
    /\ disruptions' = disruptions + 1
    /\ Goto(w, "down")
    /\ jobs' = jobs \ JobsOf(w)
    /\ UNCHANGED <<redisVars, status, stopping, budget, cursor, answered>>

-----------------------------------------------------------------------------
(* One execution: _handle_one around process_task                          *)

Move(j, step) == jobs' = (jobs \ {j}) \union {[j EXCEPT !.step = step]}

End(j) == jobs' = jobs \ {j}

\* A payload that does not decode goes straight to the dead letters.
RejectPayload(j) ==
    /\ j.step = "begin"
    /\ j.task \in MalformedTask
    /\ Move(j, "bury")
    /\ UNCHANGED <<redisVars, status, loopVars, answered, disruptions>>

\* process_task saves `running' before it does anything else.
SaveRunning(j, reply) ==
    /\ j.step = "begin"
    /\ j.task \notin MalformedTask
    /\ Charge(reply)
    /\ WriteStatus(j.task, "running", reply)
    /\ Move(j, IF reply = "served" THEN "execute" ELSE "except")
    /\ UNCHANGED <<redisVars, loopVars, answered>>

\* The orchestrator handles the intent, or raises.
Execute(j) ==
    /\ j.step = "execute"
    /\ Move(j, "saveDone") \/ Move(j, "except")
    /\ UNCHANGED <<redisVars, status, loopVars, answered, disruptions>>

\* A failure to save `done' is a failure of the handler.
SaveDone(j, reply) ==
    /\ j.step = "saveDone"
    /\ Charge(reply)
    /\ WriteStatus(j.task, "done", reply)
    /\ answered' = IF reply = "refused" THEN answered ELSE answered \union {j.task}
    /\ Move(j, IF reply = "served" THEN "ack" ELSE "except")
    /\ UNCHANGED <<redisVars, loopVars>>

\* (mutant of Acknowledge: the entry is never acknowledged)
AcknowledgeForgotten(j, reply) ==
    /\ j.step = "ack"
    /\ Charge(reply)
    /\ End(j)
    /\ UNCHANGED <<redisVars, status, loopVars, answered>>

Acknowledge(j, reply) ==
    /\ j.step = "ack"
    /\ Charge(reply)
    /\ XAck(j.task, reply)
    /\ End(j)
    /\ UNCHANGED <<entry, last, group, delivered, deliveries, dead, status,
                   loopVars, answered>>

\* (mutant of DeliveryCount: the delivery under way is counted twice)
DeliveryCountPlusOne(t, reply) ==
    IF reply = "served" /\ t \in pending THEN deliveries[t] + 1 ELSE 1

\* _delivery_count: a failed lookup, or an entry no longer pending, counts 1.
DeliveryCount(t, reply) ==
    IF reply = "served" /\ t \in pending THEN deliveries[t] ELSE 1

\* The handler raised: give up at the delivery limit, else try again later.
CountDeliveries(j, reply) ==
    /\ j.step = "except"
    /\ Charge(reply)
    /\ Move(j, IF DeliveryCount(j.task, reply) >= MaxDeliveries
               THEN "saveFailed" ELSE "saveRetrying")
    /\ UNCHANGED <<redisVars, status, loopVars, answered>>

\* (mutant of SaveRetrying: the entry is acknowledged on the way out)
SaveRetryingAndAck(j, reply) ==
    /\ j.step = "saveRetrying"
    /\ Charge(reply)
    /\ WriteStatus(j.task, "retrying", reply)
    /\ XAck(j.task, reply)
    /\ End(j)
    /\ UNCHANGED <<entry, last, group, delivered, deliveries, dead, loopVars, answered>>

\* The entry stays pending; it is claimed again once it is stale.
SaveRetrying(j, reply) ==
    /\ j.step = "saveRetrying"
    /\ Charge(reply)
    /\ WriteStatus(j.task, "retrying", reply)
    /\ End(j)
    /\ UNCHANGED <<redisVars, loopVars, answered>>

\* (mutant of SaveFailed: the dead letter is written without the status)
BuryUnsaved(j, reply) ==
    /\ j.step = "saveFailed"
    /\ Charge(reply)
    /\ IF reply = "served" THEN Move(j, "bury") ELSE End(j)
    /\ UNCHANGED <<redisVars, status, loopVars, answered>>

SaveFailed(j, reply) ==
    /\ j.step = "saveFailed"
    /\ Charge(reply)
    /\ WriteStatus(j.task, "failed", reply)
    /\ IF reply = "served" THEN Move(j, "bury") ELSE End(j)
    /\ UNCHANGED <<redisVars, loopVars, answered>>

\* _move_to_dead_letter is two calls: the copy, then the acknowledgement.
Bury(j, reply) ==
    /\ j.step = "bury"
    /\ Charge(reply)
    /\ dead' = IF reply = "refused" THEN dead ELSE [dead EXCEPT ![j.task] = @ + 1]
    /\ IF reply = "served" THEN Move(j, "deadAck") ELSE End(j)
    /\ UNCHANGED <<entry, last, group, delivered, pending, stale, deliveries,
                   status, loopVars, answered>>

AcknowledgeDead(j, reply) ==
    /\ j.step = "deadAck"
    /\ Charge(reply)
    /\ XAck(j.task, reply)
    /\ End(j)
    /\ UNCHANGED <<entry, last, group, delivered, deliveries, dead, status,
                   loopVars, answered>>

-----------------------------------------------------------------------------
HandlerStep(j, reply) ==
    \/ SaveRunning(j, reply)
    \/ SaveDone(j, reply)
    \/ Acknowledge(j, reply)
    \/ CountDeliveries(j, reply)
    \/ SaveRetrying(j, reply)
    \/ SaveFailed(j, reply)
    \/ Bury(j, reply)
    \/ AcknowledgeDead(j, reply)

Handle(j) ==
    \/ RejectPayload(j)
    \/ Execute(j)
    \/ \E reply \in Replies : HandlerStep(j, reply)

LoopStep(w) ==
    \/ LeaveLoop(w)
    \/ OfferSlots(w)
    \/ Drain(w)
    \/ \E s \in Stream, reply \in Replies :
           \/ EnsureReady(w, s, reply)
           \/ ClaimStale(w, s, reply)
           \/ ReadNew(w, s, reply)

Next ==
    \/ \E t \in Task : Enqueue(t) \/ GoStale(t) \/ ExpireStatus(t)
    \/ \E w \in Worker : Start(w) \/ LoopStep(w) \/ RequestStop(w) \/ Crash(w)
    \/ \E j \in jobs : Handle(j)

Spec == Init /\ [][Next]_vars

\* The event loop runs every coroutine and the consume loop, the clock
\* advances, and a worker that went down is started again.
Fairness ==
    /\ \A t \in Task : WF_vars(GoStale(t))
    /\ \A w \in Worker : WF_vars(Start(w)) /\ WF_vars(LoopStep(w))
    /\ \A w \in Worker, t \in Task :
           WF_vars(\E j \in jobs : j.worker = w /\ j.task = t /\ Handle(j))

FairSpec == Spec /\ Fairness

-----------------------------------------------------------------------------
(* Properties of every behaviour, however slow a handler is                *)

\* The types: what each variable can hold.
TypeOK ==
    /\ entry \in [Task -> Nat]
    /\ last \in [Stream -> Nat]
    /\ group \subseteq Stream
    /\ delivered \in [Stream -> Nat]
    /\ pending \subseteq Task
    /\ stale \subseteq pending
    /\ deliveries \in [Task -> Nat]
    /\ dead \in [Task -> Nat]
    /\ status \in [Task -> Status]
    /\ phase \in [Worker -> Phase]
    /\ stopping \subseteq Worker
    /\ budget \in [Worker -> Int]
    /\ cursor \in [Worker -> [Stream -> Nat]]
    /\ jobs \subseteq Job
    /\ answered \subseteq Task
    /\ disruptions \in Nat

\* No intent disappears: until it has an answer or a dead letter, an entry
\* that was appended is still ahead of the consumer group or in its pending
\* list.  (ensure_ready creates the group at id 0; _handle_one acknowledges
\* only after `done' is saved or the dead letter is written.)
NothingLost ==
    \A t \in Enqueued :
        \/ entry[t] > delivered[StreamOf(t)]
        \/ t \in pending
        \/ t \in answered
        \/ dead[t] > 0

\* A worker never runs more intents at once than its concurrency, although
\* the slots are counted before two claims and two reads that await Redis.
\* (consume, "keeps the concurrency limit exact" in _read_new_tasks)
ConcurrencyExact == \A w \in Worker : Cardinality(JobsOf(w)) <= Concurrency

\* A decodable intent is given up, in its status or in the dead letters, only
\* after max_deliveries deliveries, whatever calls fail and whoever else
\* handles it meanwhile.  (the delivery-limit test of _handle_one)
VerdictEarned ==
    \A t \in Task \ MalformedTask :
        status[t] = "failed" \/ dead[t] > 0 => deliveries[t] >= MaxDeliveries

\* A decodable intent whose record says `queued' waits: its entry was not
\* handed out yet or is pending, and it has neither an answer nor a dead
\* letter, although every save of a later state may fail.
\* (the saves of process_task and _handle_one before XACK and the dead letter)
QueuedMeansWaiting ==
    \A t \in Task \ MalformedTask :
        status[t] = "queued" =>
            /\ entry[t] > delivered[StreamOf(t)] \/ t \in pending
            /\ t \notin answered
            /\ dead[t] = 0

\* The streams, the group and the workers implement the abstract queue: an
\* entry is delivered one or more times, is acknowledged only with an outcome
\* and is never delivered again after that.
Queue == INSTANCE AtLeastOnceQueue WITH
    Message <- Task,
    accepted <- Enqueued,
    attempts <- deliveries,
    outcome <- [t \in Task |-> {o \in {"answered", "buried"} :
                                   \/ o = "answered" /\ t \in answered
                                   \/ o = "buried" /\ dead[t] > 0}],
    settled <- {t \in Task : deliveries[t] > 0 /\ t \notin pending}

ImplementsQueue == Queue!Spec

-----------------------------------------------------------------------------
(* Properties of the intents whose executions are not that slow            *)

\* Two workers, or two coroutines of one, never run the same intent at once,
\* unless its execution may outlast the claim idle time.
\* (the claim idle time of _claim_stale_tasks is what prevents it)
ExclusiveExecution ==
    \A j, k \in jobs : j.task = k.task /\ j.task \notin SlowTask => j = k

\* `retrying' promises another attempt: the entry is still pending, whichever
\* calls fail and whoever crashes.
\* (_handle_one saves `retrying' and leaves the entry unacknowledged)
RetryingIsPending ==
    \A t \in Task \ SlowTask : status[t] = "retrying" => t \in pending

\* Once `done' is saved the status says nothing else until it expires, unless
\* a disruption left the entry pending, to be handled again.
\* (the status transitions of process_task and _handle_one)
DoneIsFinal ==
    [][\A t \in Task \ SlowTask :
          status[t] = "done" /\ (disruptions = 0 \/ t \notin pending)
              => status'[t] \in {"done", "none"}]_vars

-----------------------------------------------------------------------------
(* A statement of the documentation                                        *)

\* ("status becomes `retrying` and the message remains pending")
RetryingRemainsPending == \A t \in Task : status[t] = "retrying" => t \in pending

-----------------------------------------------------------------------------
(* Liveness under FairSpec, with SlowTask empty                            *)

\* Every intent that was appended is acknowledged in the end, through
\* crashes, stops and failed calls: every stale entry is reached by the
\* cursors and every retry ends.
EventuallySettled == Queue!EventuallySettled

\* The status of a decodable intent settles on an outcome, or has expired.
VerdictReached ==
    \A t \in Task \ MalformedTask :
        entry[t] > 0 ~> [](status[t] \in {"done", "failed", "none"})

\* A worker that was asked to stop comes to an end, however many intents it
\* holds and however many are waiting.  (should_stop in consume)
StopObeyed == \A w \in Worker : w \in stopping ~> phase[w] = "down"

=============================================================================
