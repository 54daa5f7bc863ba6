---------------------------- MODULE SessionTurns ----------------------------
(***************************************************************************)
(* One shopping session, many intents: handle_intent finds or builds the   *)
(* session's agent in its process, runs it under the session's lock, saves *)
(* the agent's state and appends the turns and the trace to the            *)
(* conversation.  Modelled from MainAgentOrchestrator, SessionRegistry and *)
(* the SQL stores.                                                         *)
(*                                                                         *)
(* A process may crash and start again with an empty registry; several     *)
(* processes share the database.  One action is one call to a store, a     *)
(* lock or the agent, with what handle_intent does until it awaits again.  *)
(***************************************************************************)
EXTENDS Naturals, Sequences, FiniteSets

CONSTANTS
    Call,            \* the calls of handle_intent
    Process,         \* the processes that may serve them
    Session,         \* shopping sessions
    Buyer,           \* the buyers
    SessionOf,       \* the session of each call
    BuyerOf,         \* its buyer
    None,            \* no call, no buyer
    MaxFaults        \* bound: failed store calls, agent errors and crashes

ASSUME SessionTurnsAssumption ==
    /\ SessionOf \in [Call -> Session]
    /\ BuyerOf \in [Call -> Buyer]
    /\ None \notin Call \union Buyer
    /\ MaxFaults \in Nat

VARIABLES
    \* the processes
    registry,        \* the agent each process keeps for a session
    creating,        \* the call that holds the creation lock of a process
    running,         \* the call that holds the execution lock of an agent
    context,         \* the calls whose messages an agent's state contains
    \* the calls of handle_intent
    pc,              \* where each call is
    process,         \* the process it runs in
    agent,           \* the agent it was given
    answer,          \* where its final text came from, or none
    place,           \* the turn index its append_turn is going to use
    trace,           \* the calls whose events its trace queue received
    \* the database
    snapshot,        \* the saved state of each session's agent
    owner,           \* the buyer each conversation belongs to
    turns,           \* its turns, in the order of turn_index
    recorded,        \* its events, as pairs of recording and publishing call
    \* bookkeeping
    faults,          \* faults so far
    forgetful        \* sessions for which a call to the session store failed

processVars == <<registry, creating, running, context>>
callVars == <<pc, process, agent, answer, place, trace>>
storeVars == <<snapshot, owner, turns, recorded>>
vars == <<processVars, callVars, storeVars, faults, forgetful>>

Step == {"arriving", "create", "restore", "lock", "history", "lookup", "agent",
         "persist", "touch", "lastBuyer", "addBuyer", "lastAgent", "addAgent",
         "events", "ended", "refused", "crashed"}

\* An agent is named by the call that built it.
Agent == Call

\* From here on a call works with an agent of its process ...
WithAgent == {"lock", "history", "lookup", "agent", "persist", "touch",
              "lastBuyer", "addBuyer", "lastAgent", "addAgent", "events"}

\* ... and from here to there its trace queue is subscribed.
Subscribed == {"history", "lookup", "agent", "persist"}

NoSnapshot == [buyer |-> None, context |-> <<>>]

Turn == [call : Call, role : {"buyer", "agent"}]

Init ==
    /\ registry = [p \in Process |-> [s \in Session |-> None]]
    /\ creating = [p \in Process |-> None]
    /\ running = [a \in Agent |-> None]
    /\ context = [a \in Agent |-> <<>>]
    /\ pc = [c \in Call |-> "arriving"]
    /\ process \in [Call -> Process]
    /\ agent = [c \in Call |-> None]
    /\ answer = [c \in Call |-> "none"]
    /\ place = [c \in Call |-> 0]
    /\ trace = [c \in Call |-> {}]
    /\ snapshot = [s \in Session |-> NoSnapshot]
    /\ owner \in [Session -> Buyer \union {None}]
    /\ turns = [s \in Session |-> <<>>]
    /\ recorded = {}
    /\ faults = 0
    /\ forgetful = {}

-----------------------------------------------------------------------------
Goto(c, step) == pc' = [pc EXCEPT ![c] = step]

\* Whether the next call of a store succeeds.
Outcomes == IF faults < MaxFaults THEN BOOLEAN ELSE {TRUE}

Charge(ok) == faults' = IF ok THEN faults ELSE faults + 1

Registered(c) == registry[process[c]][SessionOf[c]]

-----------------------------------------------------------------------------
(* SessionRegistry.get_or_create                                           *)

\* A live entry is reused by its own buyer and refused to another.
Reuse(c) ==
    IF BuyerOf[Registered(c)] = BuyerOf[c]
    THEN agent' = [agent EXCEPT ![c] = Registered(c)] /\ Goto(c, "lock")
    ELSE Goto(c, "refused") /\ UNCHANGED agent

\* The first look, without the lock.
Arrive(c) ==
    /\ pc[c] = "arriving"
    /\ IF Registered(c) # None THEN Reuse(c) ELSE Goto(c, "create") /\ UNCHANGED agent
    /\ UNCHANGED <<processVars, process, answer, place, trace, storeVars, faults, forgetful>>

\* (mutant of EnterCreation: no second look)
EnterCreationUnchecked(c) ==
    /\ pc[c] = "create"
    /\ creating[process[c]] = None
    /\ creating' = [creating EXCEPT ![process[c]] = c]
    /\ Goto(c, "restore")
    /\ UNCHANGED <<registry, running, context, process, agent, answer, place, trace,
                   storeVars, faults, forgetful>>

\* The creation lock is free: the second look, then the session is loaded.
EnterCreation(c) ==
    /\ pc[c] = "create"
    /\ creating[process[c]] = None
    /\ IF Registered(c) # None
       THEN Reuse(c) /\ UNCHANGED creating
       ELSE /\ creating' = [creating EXCEPT ![process[c]] = c]
            /\ Goto(c, "restore")
            /\ UNCHANGED agent
    /\ UNCHANGED <<registry, running, context, process, answer, place, trace,
                   storeVars, faults, forgetful>>

LeaveCreation(c) == creating' = [creating EXCEPT ![process[c]] = None]

\* A new entry, whose agent starts with the given context.
Build(c, restored) ==
    /\ registry' = [registry EXCEPT ![process[c]][SessionOf[c]] = c]
    /\ context' = [context EXCEPT ![c] = restored]
    /\ agent' = [agent EXCEPT ![c] = c]
    /\ Goto(c, "lock")

BelongsToAnother(c) == snapshot[SessionOf[c]].buyer \notin {None, BuyerOf[c]}

\* (mutant of Restored: the agent is always a fresh one)
RestoredNothing(c) == <<>>

Restored(c) == snapshot[SessionOf[c]].context

\* _restore answers.  A snapshot that cannot be loaded counts as none.
Restore(c, ok) ==
    /\ pc[c] = "restore"
    /\ Charge(ok)
    /\ LeaveCreation(c)
    /\ forgetful' = IF ok THEN forgetful ELSE forgetful \union {SessionOf[c]}
    /\ IF ok /\ BelongsToAnother(c)
       THEN Goto(c, "refused") /\ UNCHANGED <<registry, context, agent>>
       ELSE Build(c, IF ok THEN Restored(c) ELSE <<>>)
    /\ UNCHANGED <<running, process, answer, place, trace, storeVars>>

-----------------------------------------------------------------------------
(* MainAgentOrchestrator.handle_intent                                     *)

\* The execution lock is free; the trace queue is subscribed under it.
Acquire(c) ==
    /\ pc[c] = "lock"
    /\ running[agent[c]] = None
    /\ running' = [running EXCEPT ![agent[c]] = c]
    /\ Goto(c, "history")
    /\ UNCHANGED <<registry, creating, context, process, agent, answer, place, trace,
                   storeVars, faults, forgetful>>

\* (mutant of HasHistory: only the agent's own state is asked)
HasContext(c) == context[agent[c]] # <<>>

HasHistory(c) == turns[SessionOf[c]] # <<>> \/ context[agent[c]] # <<>>

\* list_turns answers; the reply cache is asked only without a history.
LookBack(c, ok) ==
    /\ pc[c] = "history"
    /\ Charge(ok)
    /\ Goto(c, IF ok /\ ~ HasHistory(c) THEN "lookup" ELSE "agent")
    /\ UNCHANGED <<processVars, process, agent, answer, place, trace, storeVars, forgetful>>

\* (mutant of Hears: whoever waits for the lock is subscribed already)
HearsWaiting(d, c) ==
    /\ process[d] = process[c] /\ SessionOf[d] = SessionOf[c]
    /\ pc[d] \in Subscribed \union {"lock"}

\* The calls whose trace queue receives what a call publishes.
Hears(d, c) ==
    /\ process[d] = process[c] /\ SessionOf[d] = SessionOf[c]
    /\ pc[d] \in Subscribed

Publish(c) == trace' = [d \in Call |-> IF Hears(d, c) THEN trace[d] \union {c} ELSE trace[d]]

\* The semantic cache has a reply (which, is no matter here) or has none.
Lookup(c) ==
    /\ pc[c] = "lookup"
    /\ \/ /\ Publish(c)
          /\ answer' = [answer EXCEPT ![c] = "cache"]
          /\ Goto(c, "persist")
       \/ /\ Goto(c, "agent")
          /\ UNCHANGED <<answer, trace>>
    /\ UNCHANGED <<processVars, process, agent, place, storeVars, faults, forgetful>>

\* The agent adds the turn to its state and answers.
RunAgent(c) ==
    /\ pc[c] = "agent"
    /\ Publish(c)
    /\ context' = [context EXCEPT ![agent[c]] = Append(@, c)]
    /\ answer' = [answer EXCEPT ![c] = "agent"]
    /\ Goto(c, "persist")
    /\ UNCHANGED <<registry, creating, running, process, agent, place, storeVars,
                   faults, forgetful>>

\* The agent raises, with or without the user's message in its state.
AgentRaises(c) ==
    /\ pc[c] = "agent"
    /\ faults < MaxFaults
    /\ faults' = faults + 1
    /\ Publish(c)
    /\ context' \in {context, [context EXCEPT ![agent[c]] = Append(@, c)]}
    /\ Goto(c, "persist")
    /\ UNCHANGED <<registry, creating, running, process, agent, answer, place,
                   storeVars, forgetful>>

Saved(c) == [buyer |-> BuyerOf[agent[c]], context |-> context[agent[c]]]

\* (mutant of Persist: the execution lock is released before the turns are recorded)
PersistAndRelease(c, ok) ==
    /\ pc[c] = "persist"
    /\ Charge(ok)
    /\ snapshot' = IF ok THEN [snapshot EXCEPT ![SessionOf[c]] = Saved(c)] ELSE snapshot
    /\ forgetful' = IF ok THEN forgetful ELSE forgetful \union {SessionOf[c]}
    /\ running' = [running EXCEPT ![agent[c]] = None]
    /\ Goto(c, "touch")
    /\ UNCHANGED <<registry, creating, context, process, agent, answer, place, trace,
                   owner, turns, recorded>>

\* SessionRegistry.persist, after a reply and after an error.  Its own failure
\* is swallowed.
Persist(c, ok) ==
    /\ pc[c] = "persist"
    /\ Charge(ok)
    /\ snapshot' = IF ok THEN [snapshot EXCEPT ![SessionOf[c]] = Saved(c)] ELSE snapshot
    /\ forgetful' = IF ok THEN forgetful ELSE forgetful \union {SessionOf[c]}
    /\ Goto(c, "touch")
    /\ UNCHANGED <<processVars, process, agent, answer, place, trace, owner, turns, recorded>>

-----------------------------------------------------------------------------
(* _record_conversation, which gives up at the first call that fails       *)

\* The end of handle_intent releases the execution lock.
Finish(c) ==
    /\ running' = [running EXCEPT ![agent[c]] = None]
    /\ Goto(c, "ended")

\* (mutant of GiveUp: the agent's turn is tried although the buyer's failed)
GoOn(c) ==
    IF pc[c] \in {"lastBuyer", "addBuyer"} /\ answer[c] # "none"
    THEN Goto(c, "lastAgent") /\ UNCHANGED running
    ELSE Finish(c)

\* (mutant of GiveUp: the execution lock is kept)
GiveUpLocked(c) == Goto(c, "ended") /\ UNCHANGED running

\* A store call of the recording failed: the rest is left out.
GiveUp(c) == Finish(c)

\* (mutant of IsOwn: touch_session takes the conversation over)
IsAnyones(c) == TRUE

IsOwn(c) == owner[SessionOf[c]] \in {None, BuyerOf[c]}

\* touch_session refuses another buyer's conversation.
Touch(c, ok) ==
    /\ pc[c] = "touch"
    /\ Charge(ok)
    /\ IF ok /\ IsOwn(c)
       THEN /\ owner' = [owner EXCEPT ![SessionOf[c]] = BuyerOf[c]]
            /\ Goto(c, "lastBuyer")
            /\ UNCHANGED running
       ELSE GiveUp(c) /\ UNCHANGED owner
    /\ UNCHANGED <<registry, creating, context, process, agent, answer, place, trace,
                   snapshot, turns, recorded, forgetful>>

\* append_turn reads the largest turn_index ...
ReadLast(c, ok) ==
    /\ pc[c] \in {"lastBuyer", "lastAgent"}
    /\ Charge(ok)
    /\ IF ok
       THEN /\ place' = [place EXCEPT ![c] = Len(turns[SessionOf[c]]) + 1]
            /\ Goto(c, IF pc[c] = "lastBuyer" THEN "addBuyer" ELSE "addAgent")
            /\ UNCHANGED running
       ELSE GiveUp(c) /\ UNCHANGED place
    /\ UNCHANGED <<registry, creating, context, process, agent, answer, trace,
                   storeVars, forgetful>>

\* The agent's turn follows if there is one.
AfterTurn(c) == IF pc[c] = "addBuyer" /\ answer[c] # "none" THEN "lastAgent" ELSE "events"

\* ... and inserts the next one, unless another process did so meanwhile: the
\* pair of session and turn_index is unique.
AddTurn(c, ok) ==
    LET s == SessionOf[c] IN
    /\ pc[c] \in {"addBuyer", "addAgent"}
    /\ Charge(ok)
    /\ IF ok /\ place[c] = Len(turns[s]) + 1
       THEN /\ turns' = [turns EXCEPT ![s] = Append(@,
                            [call |-> c, role |-> IF pc[c] = "addBuyer" THEN "buyer" ELSE "agent"])]
            /\ Goto(c, AfterTurn(c))
            /\ UNCHANGED running
       ELSE GiveUp(c) /\ UNCHANGED turns
    /\ UNCHANGED <<registry, creating, context, process, agent, answer, place, trace,
                   snapshot, owner, recorded, forgetful>>

\* append_events stores what the trace queue received.
AddEvents(c, ok) ==
    /\ pc[c] = "events"
    /\ Charge(ok)
    /\ recorded' = IF ok THEN recorded \union ({c} \X trace[c]) ELSE recorded
    /\ Finish(c)
    /\ UNCHANGED <<registry, creating, context, process, agent, answer, place, trace,
                   snapshot, owner, turns, forgetful>>

-----------------------------------------------------------------------------
InProcess(p) == {c \in Call : process[c] = p /\ pc[c] # "arriving"}

\* A process dies, and the next one starts with an empty registry.
Crash(p) ==
    /\ faults < MaxFaults
    /\ faults' = faults + 1
    /\ \E c \in InProcess(p) : pc[c] \notin {"refused", "crashed"}
    /\ registry' = [registry EXCEPT ![p] = [s \in Session |-> None]]
    /\ creating' = [creating EXCEPT ![p] = None]
    /\ running' = [a \in Agent |-> IF a \in InProcess(p) THEN None ELSE running[a]]
    /\ context' = [a \in Agent |-> IF a \in InProcess(p) THEN <<>> ELSE context[a]]
    /\ pc' = [c \in Call |->
                 IF c \in InProcess(p) /\ pc[c] \notin {"ended", "refused"} THEN "crashed" ELSE pc[c]]
    /\ UNCHANGED <<process, agent, answer, place, trace, storeVars, forgetful>>

StoreStep(c, ok) ==
    \/ Restore(c, ok)
    \/ LookBack(c, ok)
    \/ Persist(c, ok)
    \/ Touch(c, ok)
    \/ ReadLast(c, ok)
    \/ AddTurn(c, ok)
    \/ AddEvents(c, ok)

Handle(c) ==
    \/ Arrive(c)
    \/ EnterCreation(c)
    \/ Acquire(c)
    \/ Lookup(c)
    \/ RunAgent(c)
    \/ AgentRaises(c)
    \/ \E ok \in Outcomes : StoreStep(c, ok)

Next ==
    \/ \E c \in Call : Handle(c)
    \/ \E p \in Process : Crash(p)

Spec == Init /\ [][Next]_vars

\* The event loop goes on with every call whose await is answered.
FairSpec == Spec /\ \A c \in Call : WF_vars(Handle(c))

-----------------------------------------------------------------------------
(* Properties for any number of processes                                  *)

\* The types: what each variable can hold.
TypeOK ==
    /\ registry \in [Process -> [Session -> Agent \union {None}]]
    /\ creating \in [Process -> Call \union {None}]
    /\ running \in [Agent -> Call \union {None}]
    /\ context \in [Agent -> Seq(Call)]
    /\ pc \in [Call -> Step]
    /\ process \in [Call -> Process]
    /\ agent \in [Call -> Agent \union {None}]
    /\ answer \in [Call -> {"none", "agent", "cache"}]
    /\ place \in [Call -> Nat]
    /\ trace \in [Call -> SUBSET Call]
    /\ snapshot \in [Session -> {NoSnapshot} \union [buyer : Buyer, context : Seq(Call)]]
    /\ owner \in [Session -> Buyer \union {None}]
    /\ turns \in [Session -> Seq(Turn)]
    /\ recorded \subseteq Call \X Call
    /\ faults \in Nat
    /\ forgetful \subseteq Session

\* Calls that overlap in a process never work with two agents of one session,
\* so its execution lock is one lock.  (the double check of get_or_create)
OneAgentPerSession ==
    \A c, d \in Call :
        /\ pc[c] \in WithAgent /\ pc[d] \in WithAgent
        /\ process[c] = process[d] /\ SessionOf[c] = SessionOf[d]
        => agent[c] = agent[d]

\* An agent's state, alive or saved, holds the messages of one buyer, whatever
\* fails.  (_ensure_owner and the buyer test of _restore)
OneBuyerPerAgent ==
    /\ \A a \in Agent : \A i \in DOMAIN context[a] : BuyerOf[context[a][i]] = BuyerOf[a]
    /\ \A s \in Session : \A i \in DOMAIN snapshot[s].context :
           BuyerOf[snapshot[s].context[i]] = snapshot[s].buyer

\* All turns of a conversation belong to the buyer who owns it.
\* (touch_session before append_turn in _record_conversation)
OneBuyerPerConversation ==
    \A s \in Session : \A i \in DOMAIN turns[s] : BuyerOf[turns[s][i].call] = owner[s]

\* However calls of several buyers meet in a session, their messages stay apart:
\* in the agents, in the snapshots and in the history.
BuyersApart == OneBuyerPerAgent /\ OneBuyerPerConversation

\* An agent's turn comes after the buyer's turn it answers, whatever other
\* processes insert between the two.  (_record_conversation)
AnswerFollowsQuestion ==
    \A s \in Session : \A i \in DOMAIN turns[s] :
        turns[s][i].role = "agent" =>
            \E j \in 1..(i - 1) : turns[s][j] = [call |-> turns[s][i].call, role |-> "buyer"]

-----------------------------------------------------------------------------
(* Properties of a session that one process serves                         *)

ServedByOne(s) ==
    \A c, d \in Call : SessionOf[c] = s /\ SessionOf[d] = s => process[c] = process[d]
SingleServer == {s \in Session : ServedByOne(s)}

\* The two turns of an intent stand side by side in the history.
\* (the execution lock is held until _record_conversation is over)
TurnsInPairs ==
    \A s \in SingleServer : \A i \in DOMAIN turns[s] :
        turns[s][i].role = "agent" =>
            i > 1 /\ turns[s][i - 1] = [call |-> turns[s][i].call, role |-> "buyer"]

\* What the history shows as answered by the agent is in the agent's saved
\* state, crashes notwithstanding, unless the session store failed.
\* (persist before _record_conversation, _restore)
RecordedIsRemembered ==
    \A s \in SingleServer \ forgetful : \A i \in DOMAIN turns[s] :
        turns[s][i].role = "agent" /\ answer[turns[s][i].call] = "agent" =>
            \E j \in DOMAIN snapshot[s].context : snapshot[s].context[j] = turns[s][i].call

\* The events recorded for an intent are its own.  ("keeps two queued requests
\* for the same session from collecting each other's trace")
TraceIsOwn ==
    \A pair \in recorded : SessionOf[pair[1]] \in SingleServer => pair[1] = pair[2]

\* A cached reply only ever opens a conversation.  (_has_history: "a previous
\* cache hit does not add messages to AgentState")
CachedReplyOpensSession ==
    \A s \in SingleServer : \A i \in DOMAIN turns[s] :
        turns[s][i].role = "agent" /\ answer[turns[s][i].call] = "cache" => i = 2

\* Every call of handle_intent ends, however many share a session and
\* whichever of them fail: both locks are always released.
EveryCallEnds == \A c \in Call : <>(pc[c] \in {"ended", "refused", "crashed"})

=============================================================================
