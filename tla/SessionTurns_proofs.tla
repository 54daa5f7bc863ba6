------------------------- MODULE SessionTurns_proofs -------------------------
(***************************************************************************)
(* The properties of SessionTurns that hold for any number of calls,       *)
(* processes, sessions and faults.                                         *)
(***************************************************************************)
EXTENDS SessionTurns, TLAPS

-----------------------------------------------------------------------------
(* The inductive invariant                                                 *)

\* A call works with the agent its process keeps for the session, which was
\* built for the same buyer.
AgentInv ==
    \A c \in Call : pc[c] \in WithAgent =>
        /\ agent[c] = Registered(c)
        /\ agent[c] \in Agent
        /\ BuyerOf[agent[c]] = BuyerOf[c]

\* A call that loads a session holds the creation lock, and nobody built the
\* session's agent before it.
CreationInv ==
    \A c \in Call : pc[c] = "restore" =>
        creating[process[c]] = c /\ Registered(c) = None

Appending == {"lastBuyer", "addBuyer", "lastAgent", "addAgent"}

\* A call that appends turns passed touch_session.
OwnerInv ==
    \A c \in Call : pc[c] \in Appending => owner[SessionOf[c]] = BuyerOf[c]

\* A call that appends the agent's turn has appended the buyer's.
QuestionInv ==
    \A c \in Call : pc[c] \in {"lastAgent", "addAgent"} =>
        \E j \in DOMAIN turns[SessionOf[c]] :
            turns[SessionOf[c]][j] = [call |-> c, role |-> "buyer"]

IInv ==
    /\ TypeOK
    /\ AgentInv
    /\ CreationInv
    /\ OneBuyerPerAgent
    /\ OneBuyerPerConversation
    /\ OwnerInv
    /\ QuestionInv
    /\ AnswerFollowsQuestion

-----------------------------------------------------------------------------
(* Types                                                                   *)

\* The empty sequence is a sequence of anything.
LEMMA NothingIsASequence == ASSUME NEW S PROVE <<>> \in Seq(S) /\ DOMAIN <<>> = {}
OBVIOUS

\* Appending keeps the earlier elements and adds the last one.
LEMMA Appended ==
    ASSUME NEW S, NEW q \in Seq(S), NEW x \in S
    PROVE  /\ Append(q, x) \in Seq(S)
           /\ DOMAIN q = 1..Len(q) /\ Len(q) \in Nat
           /\ DOMAIN Append(q, x) = 1..(Len(q) + 1)
           /\ \A i \in 1..Len(q) : Append(q, x)[i] = q[i]
           /\ Append(q, x)[Len(q) + 1] = x
OBVIOUS

\* The initial states are well typed.
LEMMA InitTypeOK == Init => TypeOK
<1> SUFFICES ASSUME Init PROVE TypeOK
  OBVIOUS
<1>1. <<>> \in Seq(Call) /\ <<>> \in Seq(Turn)
  BY NothingIsASequence
<1> QED
  BY <1>1, SessionTurnsAssumption DEF Init, TypeOK, Agent, Step, NoSnapshot

\* What get_or_create leaves behind is well typed.
LEMMA CreationKeepsTypes ==
    ASSUME TypeOK, NEW c \in Call, NEW ok \in BOOLEAN,
           Arrive(c) \/ EnterCreation(c) \/ Restore(c, ok)
    PROVE  TypeOK'
<1> USE SessionTurnsAssumption
<1>0. /\ pc \in [Call -> Step] /\ agent \in [Call -> Agent \union {None}]
      /\ creating \in [Process -> Call \union {None}]
      /\ registry \in [Process -> [Session -> Agent \union {None}]]
      /\ process[c] \in Process /\ SessionOf[c] \in Session
  BY DEF TypeOK
<1>1. CASE Arrive(c)
  <2>1. Registered(c) \in Agent \union {None}
    BY <1>0 DEF Registered
  <2>2. pc' \in [Call -> Step] /\ agent' \in [Call -> Agent \union {None}]
    <3>1. \/ Reuse(c)
          \/ Goto(c, "create") /\ UNCHANGED agent
      BY <1>1 DEF Arrive
    <3>2. CASE Reuse(c)
      BY <1>0, <2>1, <3>2 DEF Reuse, Goto, Step
    <3>3. CASE Goto(c, "create") /\ UNCHANGED agent
      BY <1>0, <3>3 DEF Goto, Step
    <3> QED
      BY <3>1, <3>2, <3>3
  <2>3. UNCHANGED <<processVars, process, answer, place, trace, storeVars, faults, forgetful>>
    BY <1>1 DEF Arrive
  <2> QED
    BY <2>2, <2>3 DEF TypeOK, processVars, storeVars
<1>2. CASE EnterCreation(c)
  <2>1. Registered(c) \in Agent \union {None}
    BY <1>0 DEF Registered
  <2>2. \/ Reuse(c) /\ UNCHANGED creating
        \/ Goto(c, "restore") /\ UNCHANGED agent /\ creating' = [creating EXCEPT ![process[c]] = c]
    BY <1>2 DEF EnterCreation
  <2>3. /\ pc' \in [Call -> Step] /\ agent' \in [Call -> Agent \union {None}]
        /\ creating' \in [Process -> Call \union {None}]
    <3>1. CASE Reuse(c) /\ UNCHANGED creating
      BY <1>0, <2>1, <3>1 DEF Reuse, Goto, Step
    <3>2. CASE Goto(c, "restore") /\ UNCHANGED agent /\ creating' = [creating EXCEPT ![process[c]] = c]
      BY <1>0, <3>2 DEF Goto, Step
    <3> QED
      BY <2>2, <3>1, <3>2
  <2>4. UNCHANGED <<registry, running, context, process, answer, place, trace,
                    storeVars, faults, forgetful>>
    BY <1>2 DEF EnterCreation
  <2> QED
    BY <2>3, <2>4 DEF TypeOK, storeVars
<1>3. CASE Restore(c, ok)
  <2>1. Restored(c) \in Seq(Call)
    <3>1. snapshot[SessionOf[c]] \in {NoSnapshot} \union [buyer : Buyer, context : Seq(Call)]
      BY <1>0 DEF TypeOK
    <3>2. NoSnapshot.context \in Seq(Call)
      BY NothingIsASequence DEF NoSnapshot
    <3> HIDE DEF NoSnapshot
    <3> QED
      BY <3>1, <3>2 DEF Restored
  <2>2. \/ Goto(c, "refused") /\ UNCHANGED <<registry, context, agent>>
        \/ \E q \in Seq(Call) : Build(c, q)
    BY <1>3, <2>1, NothingIsASequence DEF Restore
  <2>3. pc' \in [Call -> Step]
    BY <1>0, <2>2 DEF Build, Goto, Step
  <2>4. context \in [Agent -> Seq(Call)]
    BY DEF TypeOK
  <2>5. context' \in [Agent -> Seq(Call)]
    BY <2>2, <2>4 DEF Build, Agent
  <2>6. registry' \in [Process -> [Session -> Agent \union {None}]] /\ agent' \in [Call -> Agent \union {None}]
    <3>1. CASE Goto(c, "refused") /\ UNCHANGED <<registry, context, agent>>
      BY <1>0, <3>1
    <3>2. CASE \E q \in Seq(Call) : Build(c, q)
      <4>1. registry' = [registry EXCEPT ![process[c]][SessionOf[c]] = c]
        BY <3>2 DEF Build
      <4>2. registry' \in [Process -> [Session -> Agent \union {None}]]
        BY <1>0, <4>1 DEF Agent
      <4> QED
        BY <1>0, <3>2, <4>2 DEF Build, Agent
    <3> QED
      BY <2>2, <3>1, <3>2
  <2>7. creating' \in [Process -> Call \union {None}]
    BY <1>0, <1>3 DEF Restore, LeaveCreation
  <2>8. faults' \in Nat /\ forgetful' \subseteq Session
    <3>1. faults \in Nat /\ forgetful \subseteq Session
      BY DEF TypeOK
    <3> QED
      BY <1>0, <1>3, <3>1 DEF Restore, Charge
  <2>9. UNCHANGED <<running, process, answer, place, trace, storeVars>>
    BY <1>3 DEF Restore
  <2> QED
    BY <2>3, <2>5, <2>6, <2>7, <2>8, <2>9 DEF TypeOK, storeVars
<1> QED
  BY <1>1, <1>2, <1>3

\* What the orchestrator does with the agent leaves behind is well typed.
LEMMA TurnKeepsTypes ==
    ASSUME TypeOK, AgentInv, NEW c \in Call, NEW ok \in BOOLEAN,
           \/ Acquire(c) \/ LookBack(c, ok) \/ Lookup(c) \/ RunAgent(c) \/ AgentRaises(c)
           \/ Persist(c, ok)
    PROVE  TypeOK'
<1> USE SessionTurnsAssumption
<1>0. /\ pc \in [Call -> Step] /\ answer \in [Call -> {"none", "agent", "cache"}]
      /\ faults \in Nat /\ SessionOf[c] \in Session
  BY DEF TypeOK
<1>1. CASE Acquire(c)
  BY <1>1 DEF TypeOK, Acquire, Goto, Step, Agent, storeVars
<1>2. CASE LookBack(c, ok)
  <2>1. pc' \in [Call -> Step] /\ faults' \in Nat
    BY <1>0, <1>2 DEF LookBack, Goto, Charge, Step
  <2>2. UNCHANGED <<processVars, process, agent, answer, place, trace, storeVars, forgetful>>
    BY <1>2 DEF LookBack
  <2> QED
    BY <2>1, <2>2 DEF TypeOK, processVars, storeVars
<1>3. ASSUME Publish(c) PROVE trace' \in [Call -> SUBSET Call]
  <2>1. trace \in [Call -> SUBSET Call]
    BY DEF TypeOK
  <2> QED
    BY <1>3, <2>1 DEF Publish, Hears
<1>4. CASE Lookup(c)
  <2>1. trace' \in [Call -> SUBSET Call]
    <3>1. trace \in [Call -> SUBSET Call]
      BY DEF TypeOK
    <3> QED
      BY <1>3, <1>4, <3>1 DEF Lookup
  <2>2. pc' \in [Call -> Step] /\ answer' \in [Call -> {"none", "agent", "cache"}]
    BY <1>0, <1>4 DEF Lookup, Goto, Step
  <2>3. UNCHANGED <<processVars, process, agent, place, storeVars, faults, forgetful>>
    BY <1>4 DEF Lookup
  <2> QED
    BY <2>1, <2>2, <2>3 DEF TypeOK, processVars, storeVars
<1>5. CASE RunAgent(c) \/ AgentRaises(c)
  <2>1. trace' \in [Call -> SUBSET Call]
    BY <1>3, <1>5 DEF RunAgent, AgentRaises
  <2>2. agent[c] \in Agent
    BY <1>5 DEF AgentInv, RunAgent, AgentRaises, WithAgent
  <2>3. Append(context[agent[c]], c) \in Seq(Call)
    BY <2>2, Appended DEF TypeOK
  <2>4. context' \in [Agent -> Seq(Call)]
    <3>1. context \in [Agent -> Seq(Call)]
      BY DEF TypeOK
    <3> QED
      BY <1>5, <2>2, <2>3, <3>1 DEF RunAgent, AgentRaises
  <2>5. /\ pc' \in [Call -> Step] /\ answer' \in [Call -> {"none", "agent", "cache"}]
        /\ faults' \in Nat
    BY <1>0, <1>5 DEF RunAgent, AgentRaises, Goto, Step
  <2>6. UNCHANGED <<registry, creating, running, process, agent, place, storeVars, forgetful>>
    BY <1>5 DEF RunAgent, AgentRaises
  <2> QED
    BY <2>1, <2>4, <2>5, <2>6 DEF TypeOK, storeVars
<1>6. CASE Persist(c, ok)
  <2>1. Saved(c) \in [buyer : Buyer, context : Seq(Call)]
    BY <1>6 DEF TypeOK, AgentInv, Saved, Persist, WithAgent, Agent
  <2> HIDE DEF Saved
  <2>2. snapshot' \in [Session -> {NoSnapshot} \union [buyer : Buyer, context : Seq(Call)]]
    BY <1>6, <2>1 DEF TypeOK, Persist
  <2>3. forgetful' \subseteq Session /\ pc' \in [Call -> Step] /\ faults' \in Nat
    <3>1. forgetful \subseteq Session
      BY DEF TypeOK
    <3> QED
      BY <1>0, <1>6, <3>1 DEF Persist, Goto, Charge, Step
  <2>4. UNCHANGED <<processVars, process, agent, answer, place, trace, owner, turns, recorded>>
    BY <1>6 DEF Persist
  <2> QED
    BY <2>2, <2>3, <2>4 DEF TypeOK, processVars
<1> QED
  BY <1>1, <1>2, <1>4, <1>5, <1>6

\* What the recording of a turn leaves behind is well typed.
LEMMA RecordingKeepsTypes ==
    ASSUME TypeOK, NEW c \in Call, NEW ok \in BOOLEAN,
           Touch(c, ok) \/ ReadLast(c, ok) \/ AddTurn(c, ok) \/ AddEvents(c, ok)
    PROVE  TypeOK'
<1> USE SessionTurnsAssumption
<1>0. /\ pc \in [Call -> Step] /\ running \in [Agent -> Call \union {None}]
      /\ faults \in Nat /\ SessionOf[c] \in Session /\ BuyerOf[c] \in Buyer
  BY DEF TypeOK
<1>1. /\ pc' \in [Call -> Step]
      /\ running' \in [Agent -> Call \union {None}]
      /\ faults' \in Nat
  <2>1. \/ UNCHANGED running
        \/ Finish(c)
    BY DEF Touch, ReadLast, AddTurn, AddEvents, GiveUp
  <2>2. \E x \in Step : Goto(c, x)
    BY DEF Touch, ReadLast, AddTurn, AddEvents, GiveUp, Finish, AfterTurn, Step
  <2>3. Charge(ok)
    BY DEF Touch, ReadLast, AddTurn, AddEvents
  <2> QED
    BY <1>0, <2>1, <2>2, <2>3 DEF Finish, Goto, Charge
<1>2. CASE Touch(c, ok)
  <2>1. owner \in [Session -> Buyer \union {None}]
    BY DEF TypeOK
  <2>2. owner' \in [Session -> Buyer \union {None}]
    BY <1>0, <1>2, <2>1 DEF Touch
  <2>3. UNCHANGED <<registry, creating, context, process, agent, answer, place, trace,
                    snapshot, turns, recorded, forgetful>>
    BY <1>2 DEF Touch
  <2> QED
    BY <1>1, <2>2, <2>3 DEF TypeOK
<1>3. CASE ReadLast(c, ok)
  <2>1. Len(turns[SessionOf[c]]) \in Nat /\ place \in [Call -> Nat]
    BY <1>0 DEF TypeOK
  <2>2. place' \in [Call -> Nat]
    BY <1>3, <2>1 DEF ReadLast
  <2>3. UNCHANGED <<registry, creating, context, process, agent, answer, trace,
                    storeVars, forgetful>>
    BY <1>3 DEF ReadLast
  <2> QED
    BY <1>1, <2>2, <2>3 DEF TypeOK, storeVars
<1>4. CASE AddTurn(c, ok)
  <2> DEFINE s == SessionOf[c]
             t == [call |-> c, role |-> IF pc[c] = "addBuyer" THEN "buyer" ELSE "agent"]
  <2>1. turns \in [Session -> Seq(Turn)] /\ t \in Turn
    BY DEF TypeOK, Turn
  <2>2. Append(turns[s], t) \in Seq(Turn)
    BY <1>0, <2>1, Appended
  <2>3. UNCHANGED turns \/ turns' = [turns EXCEPT ![s] = Append(turns[s], t)]
    BY <1>4 DEF AddTurn
  <2> HIDE DEF t
  <2>4. turns' \in [Session -> Seq(Turn)]
    BY <2>1, <2>2, <2>3
  <2>5. UNCHANGED <<registry, creating, context, process, agent, answer, place, trace,
                    snapshot, owner, recorded, forgetful>>
    BY <1>4 DEF AddTurn
  <2> QED
    BY <1>1, <2>4, <2>5 DEF TypeOK
<1>5. CASE AddEvents(c, ok)
  <2>1. recorded \subseteq Call \X Call /\ trace[c] \subseteq Call
    BY DEF TypeOK
  <2>2. recorded' \subseteq Call \X Call
    BY <1>5, <2>1 DEF AddEvents
  <2>3. UNCHANGED <<registry, creating, context, process, agent, answer, place, trace,
                    snapshot, owner, turns, forgetful>>
    BY <1>5 DEF AddEvents
  <2> QED
    BY <1>1, <2>2, <2>3 DEF TypeOK
<1> QED
  BY <1>2, <1>3, <1>4, <1>5

\* What a crash leaves behind is well typed.
LEMMA CrashKeepsTypes == ASSUME TypeOK, NEW p \in Process, Crash(p) PROVE TypeOK'
<1>1. <<>> \in Seq(Call)
  BY NothingIsASequence
<1> QED
  BY <1>1 DEF TypeOK, Crash, Step, Agent, storeVars

\* No step leaves the types.
LEMMA NextTypeOK == ASSUME TypeOK, AgentInv, [Next]_vars PROVE TypeOK'
<1>1. CASE UNCHANGED vars
  BY <1>1 DEF TypeOK, vars, processVars, callVars, storeVars
<1>2. CASE \E c \in Call : Handle(c)
  <2> PICK c \in Call : Handle(c)
    BY <1>2
  <2>1. CASE \E ok \in Outcomes : StoreStep(c, ok)
    <3> PICK ok \in BOOLEAN : StoreStep(c, ok)
      BY <2>1 DEF Outcomes
    <3> QED
      BY CreationKeepsTypes, TurnKeepsTypes, RecordingKeepsTypes DEF StoreStep
  <2>2. CASE Arrive(c) \/ EnterCreation(c) \/ Acquire(c) \/ Lookup(c) \/ RunAgent(c) \/ AgentRaises(c)
    <3>1. TRUE \in BOOLEAN
      OBVIOUS
    <3> QED
      BY <2>2, <3>1, CreationKeepsTypes, TurnKeepsTypes
  <2> QED
    BY <2>1, <2>2 DEF Handle
<1>3. CASE \E p \in Process : Crash(p)
  BY <1>3, CrashKeepsTypes
<1> QED
  BY <1>1, <1>2, <1>3 DEF Next

-----------------------------------------------------------------------------
(* Agents                                                                  *)

\* The steps of a call that has its agent leave the registry and the creation
\* lock alone.
LEMMA WithAgentStep ==
    ASSUME NEW c \in Call, NEW ok \in BOOLEAN,
           \/ Acquire(c) \/ LookBack(c, ok) \/ Lookup(c) \/ RunAgent(c) \/ AgentRaises(c)
           \/ Persist(c, ok) \/ Touch(c, ok) \/ ReadLast(c, ok) \/ AddTurn(c, ok)
           \/ AddEvents(c, ok)
    PROVE  /\ UNCHANGED <<registry, creating, process, agent>>
           /\ pc[c] \in WithAgent
           /\ \E x \in WithAgent \union {"ended"} : Goto(c, x)
<1>1. UNCHANGED <<registry, creating, process, agent>>
  BY DEF Acquire, LookBack, Lookup, RunAgent, AgentRaises, Persist, Touch, ReadLast,
         AddTurn, AddEvents, processVars
<1>2. pc[c] \in WithAgent
  BY DEF Acquire, LookBack, Lookup, RunAgent, AgentRaises, Persist, Touch, ReadLast,
         AddTurn, AddEvents, WithAgent
<1>3. \E x \in WithAgent \union {"ended"} : Goto(c, x)
  BY DEF Acquire, LookBack, Lookup, RunAgent, AgentRaises, Persist, Touch, ReadLast,
         AddTurn, AddEvents, WithAgent, GiveUp, Finish, AfterTurn
<1> QED
  BY <1>1, <1>2, <1>3

\* A call that is told to reuse the registered agent may do so.
LEMMA ReuseStep ==
    ASSUME TypeOK, AgentInv, CreationInv, NEW c \in Call, Reuse(c), Registered(c) # None,
           pc[c] \in {"arriving", "create"},
           UNCHANGED <<registry, creating, process>>
    PROVE  AgentInv' /\ CreationInv'
<1>0. pc \in [Call -> Step] /\ agent \in [Call -> Agent \union {None}]
  BY DEF TypeOK
<1>1. Registered(c) \in Agent
  BY SessionTurnsAssumption DEF TypeOK, Registered
<1>2. \A d \in Call : Registered(d)' = Registered(d)
  BY DEF Registered
<1>3. AgentInv'
  BY <1>0, <1>1, <1>2 DEF AgentInv, Reuse, Goto, WithAgent
<1>4. CreationInv'
  BY <1>0, <1>2 DEF CreationInv, Reuse, Goto
<1> QED
  BY <1>3, <1>4

\* The agent a call builds is the first of its process for the session.
LEMMA BuildStep ==
    ASSUME TypeOK, AgentInv, CreationInv, NEW c \in Call, NEW q, pc[c] = "restore",
           Build(c, q), LeaveCreation(c), UNCHANGED process
    PROVE  AgentInv' /\ CreationInv'
<1> USE SessionTurnsAssumption
<1>0. /\ pc \in [Call -> Step] /\ agent \in [Call -> Agent \union {None}]
      /\ process \in [Call -> Process]
      /\ creating \in [Process -> Call \union {None}]
      /\ registry \in [Process -> [Session -> Agent \union {None}]]
  BY DEF TypeOK
<1>1. creating[process[c]] = c /\ Registered(c) = None
  BY DEF CreationInv
<1>2. registry' = [registry EXCEPT ![process[c]][SessionOf[c]] = c]
  BY DEF Build
<1>3. Registered(c)' = c
  BY <1>0, <1>2 DEF Registered
<1>4. ASSUME NEW d \in Call, process[d] # process[c] \/ SessionOf[d] # SessionOf[c]
      PROVE  Registered(d)' = Registered(d)
  BY <1>0, <1>2, <1>4 DEF Registered
<1>5. ASSUME NEW d \in Call, d # c, pc[d] \in WithAgent
      PROVE  Registered(d)' = Registered(d)
  <2>1. Registered(d) # None
    BY <1>5 DEF AgentInv, Agent
  <2> QED
    BY <1>1, <1>4, <2>1 DEF Registered
<1>6. ASSUME NEW d \in Call, pc'[d] \in WithAgent
      PROVE  agent'[d] = Registered(d)' /\ agent'[d] \in Agent /\ BuyerOf[agent'[d]] = BuyerOf[d]
  <2>1. CASE d = c
    BY <1>0, <1>3, <2>1 DEF Build, Agent
  <2>2. CASE d # c
    <3>1. pc'[d] = pc[d] /\ agent'[d] = agent[d]
      BY <1>0, <2>2 DEF Build, Goto
    <3> QED
      BY <1>5, <1>6, <2>2, <3>1 DEF AgentInv
  <2> QED
    BY <2>1, <2>2
<1>7. ASSUME NEW d \in Call, pc'[d] = "restore"
      PROVE  creating'[process'[d]] = d /\ Registered(d)' = None
  <2>1. d # c /\ pc[d] = "restore"
    BY <1>0, <1>7 DEF Build, Goto
  <2>2. creating[process[d]] = d /\ Registered(d) = None
    BY <2>1 DEF CreationInv
  <2>3. process[d] # process[c]
    BY <1>1, <2>1, <2>2
  <2> QED
    BY <1>0, <1>4, <2>2, <2>3 DEF LeaveCreation
<1> QED
  BY <1>6, <1>7 DEF AgentInv, CreationInv

\* Every step keeps to one agent per process and session.
LEMMA AgentStep ==
    ASSUME TypeOK, AgentInv, CreationInv, [Next]_vars
    PROVE  AgentInv' /\ CreationInv'
<1> USE SessionTurnsAssumption
<1>0. /\ pc \in [Call -> Step] /\ process \in [Call -> Process]
      /\ creating \in [Process -> Call \union {None}]
      /\ registry \in [Process -> [Session -> Agent \union {None}]]
  BY DEF TypeOK
<1>1. CASE UNCHANGED vars
  BY <1>1 DEF AgentInv, CreationInv, Registered, vars, processVars, callVars
<1>2. ASSUME NEW c \in Call, NEW ok \in BOOLEAN,
             \/ Acquire(c) \/ LookBack(c, ok) \/ Lookup(c) \/ RunAgent(c) \/ AgentRaises(c)
             \/ Persist(c, ok) \/ Touch(c, ok) \/ ReadLast(c, ok) \/ AddTurn(c, ok)
             \/ AddEvents(c, ok)
      PROVE  AgentInv' /\ CreationInv'
  <2>1. /\ UNCHANGED <<registry, creating, process, agent>>
        /\ pc[c] \in WithAgent
        /\ \E x \in WithAgent \union {"ended"} : Goto(c, x)
    BY <1>2, WithAgentStep
  <2>2. \A d \in Call : Registered(d)' = Registered(d)
    BY <2>1 DEF Registered
  <2>3. \A d \in Call : pc'[d] \in WithAgent => pc[d] \in WithAgent
    BY <1>0, <2>1 DEF Goto
  <2>4. \A d \in Call : pc'[d] = "restore" => pc[d] = "restore"
    BY <1>0, <2>1 DEF Goto, WithAgent
  <2> QED
    BY <2>1, <2>2, <2>3, <2>4 DEF AgentInv, CreationInv
<1>3. ASSUME NEW c \in Call, Arrive(c) PROVE AgentInv' /\ CreationInv'
  <2>1. CASE Registered(c) # None
    BY <1>3, <2>1, ReuseStep DEF Arrive, processVars
  <2>2. CASE Registered(c) = None
    <3>1. Goto(c, "create") /\ UNCHANGED <<agent, registry, creating, process>>
      BY <1>3, <2>2 DEF Arrive, processVars
    <3> QED
      BY <1>0, <3>1 DEF AgentInv, CreationInv, Registered, Goto, WithAgent
  <2> QED
    BY <2>1, <2>2
<1>4. ASSUME NEW c \in Call, EnterCreation(c) PROVE AgentInv' /\ CreationInv'
  <2>1. CASE Registered(c) # None
    BY <1>4, <2>1, ReuseStep DEF EnterCreation
  <2>2. CASE Registered(c) = None
    <3>1. /\ creating[process[c]] = None
          /\ creating' = [creating EXCEPT ![process[c]] = c]
          /\ Goto(c, "restore") /\ UNCHANGED <<agent, registry, process>>
      BY <1>4, <2>2 DEF EnterCreation
    <3>2. \A d \in Call : Registered(d)' = Registered(d)
      BY <3>1 DEF Registered
    <3>3. AgentInv'
      BY <1>0, <3>1, <3>2 DEF AgentInv, Goto, WithAgent
    <3>4. ASSUME NEW d \in Call, pc'[d] = "restore"
          PROVE  creating'[process'[d]] = d /\ Registered(d)' = None
      <4>1. CASE d = c
        BY <1>0, <2>2, <3>1, <3>2, <4>1
      <4>2. CASE d # c
        <5>1. creating[process[d]] = d /\ Registered(d) = None
          BY <1>0, <3>1, <3>4, <4>2 DEF CreationInv, Goto
        <5> QED
          BY <1>0, <3>1, <3>2, <4>2, <5>1
      <4> QED
        BY <4>1, <4>2
    <3> QED
      BY <3>3, <3>4 DEF CreationInv
  <2> QED
    BY <2>1, <2>2
<1>5. ASSUME NEW c \in Call, NEW ok \in BOOLEAN, Restore(c, ok) PROVE AgentInv' /\ CreationInv'
  <2>1. CASE ok /\ BelongsToAnother(c)
    <3>1. /\ Goto(c, "refused") /\ LeaveCreation(c) /\ pc[c] = "restore"
          /\ UNCHANGED <<registry, agent, process>>
      BY <1>5, <2>1 DEF Restore
    <3>2. \A d \in Call : Registered(d)' = Registered(d)
      BY <3>1 DEF Registered
    <3>3. AgentInv'
      BY <1>0, <3>1, <3>2 DEF AgentInv, Goto, WithAgent
    <3>4. ASSUME NEW d \in Call, pc'[d] = "restore"
          PROVE  creating'[process'[d]] = d /\ Registered(d)' = None
      <4>1. d # c /\ pc[d] = "restore"
        BY <1>0, <3>1, <3>4 DEF Goto
      <4>2. creating[process[d]] = d /\ creating[process[c]] = c /\ Registered(d) = None
        BY <3>1, <4>1 DEF CreationInv
      <4> QED
        BY <1>0, <3>1, <3>2, <4>1, <4>2 DEF LeaveCreation
    <3> QED
      BY <3>3, <3>4 DEF CreationInv
  <2>2. CASE ~ (ok /\ BelongsToAnother(c))
    BY <1>5, <2>2, BuildStep DEF Restore
  <2> QED
    BY <2>1, <2>2
<1>6. ASSUME NEW p \in Process, Crash(p) PROVE AgentInv' /\ CreationInv'
  <2>1. ASSUME NEW d \in Call, pc'[d] \in WithAgent \union {"restore"}
        PROVE  pc[d] = pc'[d] /\ process[d] # p
    BY <1>0, <1>6, <2>1 DEF Crash, InProcess, WithAgent
  <2>2. ASSUME NEW d \in Call, process[d] # p
        PROVE  Registered(d)' = Registered(d) /\ creating'[process'[d]] = creating[process[d]]
    BY <1>0, <1>6, <2>2 DEF Crash, Registered
  <2>3. agent' = agent /\ process' = process
    BY <1>6 DEF Crash
  <2> QED
    BY <2>1, <2>2, <2>3 DEF AgentInv, CreationInv
<1>7. CASE \E c \in Call : Handle(c)
  BY <1>2, <1>3, <1>4, <1>5, <1>7 DEF Handle, StoreStep, Outcomes
<1> QED
  BY <1>1, <1>6, <1>7 DEF Next

-----------------------------------------------------------------------------
(* Buyers                                                                  *)

\* What a call appends to its agent's state is of the agent's buyer.
LEMMA AppendStep ==
    ASSUME TypeOK, AgentInv, OneBuyerPerAgent, NEW c \in Call, pc[c] \in WithAgent,
           context' \in {context, [context EXCEPT ![agent[c]] = Append(@, c)]},
           UNCHANGED snapshot
    PROVE  OneBuyerPerAgent'
<1>0. /\ context \in [Agent -> Seq(Call)]
      /\ agent[c] \in Agent /\ BuyerOf[agent[c]] = BuyerOf[c]
  BY DEF TypeOK, AgentInv
<1>1. ASSUME NEW a \in Agent, NEW i \in DOMAIN context'[a]
      PROVE  BuyerOf[context'[a][i]] = BuyerOf[a]
  <2>1. CASE context'[a] = context[a]
    BY <1>1, <2>1 DEF OneBuyerPerAgent, Agent
  <2>2. CASE context'[a] # context[a]
    <3>1. a = agent[c] /\ context'[a] = Append(context[a], c)
      BY <1>0, <2>2
    <3>2. context[a] \in Seq(Call)
      BY <1>0
    <3> DEFINE q == context[a]
    <3>3. /\ DOMAIN q = 1..Len(q) /\ Len(q) \in Nat
          /\ DOMAIN Append(q, c) = 1..(Len(q) + 1)
          /\ \A j \in 1..Len(q) : Append(q, c)[j] = q[j]
          /\ Append(q, c)[Len(q) + 1] = c
      BY <3>2, Appended
    <3>4. \A j \in DOMAIN q : BuyerOf[q[j]] = BuyerOf[a]
      BY DEF OneBuyerPerAgent, Agent
    <3>5. i = Len(q) + 1 \/ i \in 1..Len(q)
      BY <1>1, <3>1, <3>3
    <3> HIDE DEF q
    <3> QED
      BY <1>0, <3>1, <3>3, <3>4, <3>5 DEF q
  <2> QED
    BY <2>1, <2>2
<1>2. ASSUME NEW s \in Session, NEW i \in DOMAIN snapshot'[s].context
      PROVE  BuyerOf[snapshot'[s].context[i]] = snapshot'[s].buyer
  BY <1>2 DEF OneBuyerPerAgent
<1> QED
  BY <1>1, <1>2 DEF OneBuyerPerAgent, Agent

\* An agent starts with the messages of its own buyer.
LEMMA RestoreStep ==
    ASSUME TypeOK, OneBuyerPerAgent, NEW c \in Call, NEW ok \in BOOLEAN, Restore(c, ok)
    PROVE  OneBuyerPerAgent'
<1> USE SessionTurnsAssumption
<1>0. context \in [Agent -> Seq(Call)] /\ SessionOf[c] \in Session /\ BuyerOf[c] \in Buyer
  BY DEF TypeOK
<1>1. snapshot' = snapshot
  BY DEF Restore, storeVars
<1>2. ASSUME NEW s \in Session, NEW i \in DOMAIN snapshot'[s].context
      PROVE  BuyerOf[snapshot'[s].context[i]] = snapshot'[s].buyer
  BY <1>1, <1>2 DEF OneBuyerPerAgent
<1>3. CASE context' = context
  BY <1>2, <1>3 DEF OneBuyerPerAgent
<1>4. ASSUME NEW q, Build(c, q), \A i \in DOMAIN q : BuyerOf[q[i]] = BuyerOf[c]
      PROVE  OneBuyerPerAgent'
  <2>1. context' = [context EXCEPT ![c] = q]
    BY <1>4 DEF Build
  <2>2. ASSUME NEW a \in Agent, NEW i \in DOMAIN context'[a]
        PROVE  BuyerOf[context'[a][i]] = BuyerOf[a]
    <3>1. CASE a = c
      BY <1>0, <1>4, <2>1, <2>2, <3>1 DEF Agent
    <3>2. CASE a # c
      BY <1>0, <2>1, <2>2, <3>2 DEF Agent, OneBuyerPerAgent
    <3> QED
      BY <3>1, <3>2
  <2> QED
    BY <1>2, <2>2 DEF OneBuyerPerAgent, Agent
<1>5. CASE ~ BelongsToAnother(c)
  <2> DEFINE n == snapshot[SessionOf[c]]
  <2>1. n.buyer \in {None, BuyerOf[c]}
    BY <1>5 DEF BelongsToAnother
  <2>2. n \in {NoSnapshot} \union [buyer : Buyer, context : Seq(Call)]
    BY <1>0 DEF TypeOK
  <2>3. \A i \in DOMAIN n.context : BuyerOf[n.context[i]] = n.buyer
    BY <1>0 DEF OneBuyerPerAgent
  <2>4. n.buyer = BuyerOf[c] \/ n.context = <<>>
    <3>1. CASE n = NoSnapshot
      BY <3>1 DEF NoSnapshot
    <3>2. CASE n \in [buyer : Buyer, context : Seq(Call)]
      BY <2>1, <3>2
    <3> QED
      BY <2>2, <3>1, <3>2
  <2> HIDE DEF n
  <2>5. \A i \in DOMAIN n.context : BuyerOf[n.context[i]] = BuyerOf[c]
    BY <2>3, <2>4, NothingIsASequence
  <2>6. \A i \in DOMAIN Restored(c) : BuyerOf[Restored(c)[i]] = BuyerOf[c]
    BY <2>5 DEF Restored, n
  <2>7. \A i \in DOMAIN <<>> : BuyerOf[<<>>[i]] = BuyerOf[c]
    BY NothingIsASequence
  <2>8. Build(c, Restored(c)) \/ Build(c, <<>>)
    BY <1>5 DEF Restore
  <2> QED
    BY <1>4, <2>6, <2>7, <2>8
<1>6. CASE BelongsToAnother(c)
  <2>1. context' = context \/ Build(c, <<>>)
    BY <1>6 DEF Restore
  <2>2. \A i \in DOMAIN <<>> : BuyerOf[<<>>[i]] = BuyerOf[c]
    BY NothingIsASequence
  <2> QED
    BY <1>3, <1>4, <2>1, <2>2
<1> QED
  BY <1>5, <1>6

\* No step mixes two buyers in an agent's state.
LEMMA AgentBuyerStep ==
    ASSUME TypeOK, AgentInv, OneBuyerPerAgent, [Next]_vars
    PROVE  OneBuyerPerAgent'
<1> USE SessionTurnsAssumption
<1>1. CASE UNCHANGED <<context, snapshot>>
  BY <1>1 DEF OneBuyerPerAgent
<1>2. ASSUME NEW c \in Call, RunAgent(c) \/ AgentRaises(c) PROVE OneBuyerPerAgent'
  <2>1. /\ pc[c] \in WithAgent
        /\ context' \in {context, [context EXCEPT ![agent[c]] = Append(@, c)]}
        /\ UNCHANGED snapshot
    BY <1>2 DEF RunAgent, AgentRaises, WithAgent, storeVars
  <2> QED
    BY <2>1, AppendStep
<1>3. ASSUME NEW c \in Call, NEW ok \in BOOLEAN, Persist(c, ok) PROVE OneBuyerPerAgent'
  <2>1. /\ agent[c] \in Agent /\ SessionOf[c] \in Session
        /\ snapshot \in [Session -> {NoSnapshot} \union [buyer : Buyer, context : Seq(Call)]]
    BY <1>3 DEF TypeOK, AgentInv, Persist, WithAgent
  <2>2. /\ context' = context
        /\ snapshot' = snapshot \/ snapshot' = [snapshot EXCEPT ![SessionOf[c]] = Saved(c)]
    BY <1>3 DEF Persist, processVars
  <2>3. \A i \in DOMAIN Saved(c).context : BuyerOf[Saved(c).context[i]] = Saved(c).buyer
    BY <2>1 DEF Saved, OneBuyerPerAgent, Agent
  <2> HIDE DEF Saved
  <2>4. ASSUME NEW s \in Session, NEW i \in DOMAIN snapshot'[s].context
        PROVE  BuyerOf[snapshot'[s].context[i]] = snapshot'[s].buyer
    <3>1. snapshot'[s] = snapshot[s] \/ snapshot'[s] = Saved(c)
      BY <2>1, <2>2
    <3> QED
      BY <2>3, <2>4, <3>1 DEF OneBuyerPerAgent
  <2> QED
    BY <2>2, <2>4 DEF OneBuyerPerAgent
<1>4. ASSUME NEW p \in Process, Crash(p) PROVE OneBuyerPerAgent'
  <2>1. snapshot' = snapshot
    BY <1>4 DEF Crash, storeVars
  <2>2. ASSUME NEW a \in Agent, NEW i \in DOMAIN context'[a]
        PROVE  BuyerOf[context'[a][i]] = BuyerOf[a]
    <3>1. context'[a] = <<>> \/ context'[a] = context[a]
      BY <1>4 DEF Crash
    <3>2. context'[a] = context[a]
      BY <2>2, <3>1, NothingIsASequence
    <3> QED
      BY <2>2, <3>2 DEF OneBuyerPerAgent, Agent
  <2> QED
    BY <2>1, <2>2 DEF OneBuyerPerAgent, Agent
<1>5. ASSUME NEW c \in Call, NEW ok \in BOOLEAN,
             \/ Arrive(c) \/ EnterCreation(c) \/ Acquire(c) \/ LookBack(c, ok) \/ Lookup(c)
             \/ Touch(c, ok) \/ ReadLast(c, ok) \/ AddTurn(c, ok) \/ AddEvents(c, ok)
      PROVE  UNCHANGED <<context, snapshot>>
  BY <1>5 DEF Arrive, EnterCreation, Acquire, LookBack, Lookup, Touch, ReadLast, AddTurn,
              AddEvents, processVars, storeVars
<1>6. ASSUME NEW c \in Call, Handle(c) PROVE OneBuyerPerAgent'
  <2>1. CASE \E ok \in Outcomes : StoreStep(c, ok)
    <3> PICK ok \in BOOLEAN : StoreStep(c, ok)
      BY <2>1 DEF Outcomes
    <3> QED
      BY <1>1, <1>3, <1>5, RestoreStep DEF StoreStep
  <2>2. CASE Arrive(c) \/ EnterCreation(c) \/ Acquire(c) \/ Lookup(c)
    <3>1. TRUE \in BOOLEAN
      OBVIOUS
    <3> QED
      BY <1>1, <1>5, <2>2, <3>1
  <2> QED
    BY <1>2, <1>6, <2>1, <2>2 DEF Handle
<1> QED
  BY <1>1, <1>4, <1>6 DEF Next, vars, processVars, storeVars

-----------------------------------------------------------------------------
(* Conversations                                                           *)

\* Before and after the recording, a step leaves the turns alone and brings no
\* call to their appending.
LEMMA OutsideRecording ==
    ASSUME TypeOK, [Next]_vars,
           \A c \in Call, ok \in BOOLEAN : ~ (Touch(c, ok) \/ ReadLast(c, ok) \/ AddTurn(c, ok))
    PROVE  /\ UNCHANGED <<owner, turns>>
           /\ \A d \in Call : pc'[d] \in Appending => pc[d] = pc'[d]
<1>0. pc \in [Call -> Step]
  BY DEF TypeOK
<1>1. CASE UNCHANGED vars
  BY <1>1 DEF vars, callVars, storeVars
<1>2. ASSUME NEW c \in Call, NEW ok \in BOOLEAN,
             \/ Arrive(c) \/ EnterCreation(c) \/ Acquire(c) \/ Lookup(c) \/ RunAgent(c)
             \/ AgentRaises(c) \/ Restore(c, ok) \/ LookBack(c, ok) \/ Persist(c, ok)
             \/ AddEvents(c, ok)
      PROVE  /\ UNCHANGED <<owner, turns>>
             /\ \A d \in Call : pc'[d] \in Appending => pc[d] = pc'[d]
  <2>1. UNCHANGED <<owner, turns>>
    BY <1>2 DEF Arrive, EnterCreation, Acquire, Lookup, RunAgent, AgentRaises, Restore,
                LookBack, Persist, AddEvents, storeVars
  <2>2. \E x \in Step \ Appending : Goto(c, x)
    BY <1>2 DEF Arrive, EnterCreation, Acquire, Lookup, RunAgent, AgentRaises, Restore,
                LookBack, Persist, AddEvents, Reuse, Build, Finish, Step, Appending
  <2> QED
    BY <1>0, <2>1, <2>2 DEF Goto
<1>3. ASSUME NEW p \in Process, Crash(p)
      PROVE  /\ UNCHANGED <<owner, turns>>
             /\ \A d \in Call : pc'[d] \in Appending => pc[d] = pc'[d]
  BY <1>0, <1>3 DEF Crash, Appending, storeVars
<1>4. CASE \E c \in Call : Handle(c)
  <2> PICK c \in Call : Handle(c)
    BY <1>4
  <2>1. CASE \E ok \in Outcomes : StoreStep(c, ok)
    <3> PICK ok \in BOOLEAN : StoreStep(c, ok)
      BY <2>1 DEF Outcomes
    <3> QED
      BY <1>2 DEF StoreStep
  <2>2. CASE Arrive(c) \/ EnterCreation(c) \/ Acquire(c) \/ Lookup(c) \/ RunAgent(c) \/ AgentRaises(c)
    <3>1. TRUE \in BOOLEAN
      OBVIOUS
    <3> QED
      BY <1>2, <2>2, <3>1
  <2> QED
    BY <2>1, <2>2 DEF Handle
<1> QED
  BY <1>1, <1>3, <1>4 DEF Next

\* The steps of the recording move a call on, or end it.
LEMMA RecordingStep ==
    ASSUME TypeOK, NEW c \in Call, NEW ok \in BOOLEAN, ReadLast(c, ok) \/ AddTurn(c, ok)
    PROVE  /\ pc[c] \in Appending
           /\ UNCHANGED owner
           /\ \A d \in Call : d # c => pc'[d] = pc[d]
           /\ turns' = turns /\ pc'[c] \in {"lastAgent", "addAgent"} =>
                  pc[c] \in {"lastAgent", "addAgent"}
<1>0. pc \in [Call -> Step] /\ turns \in [Session -> Seq(Turn)] /\ SessionOf[c] \in Session
  BY SessionTurnsAssumption DEF TypeOK
<1>1. CASE ReadLast(c, ok)
  BY <1>0, <1>1 DEF ReadLast, Appending, Goto, GiveUp, Finish, storeVars
<1>2. CASE AddTurn(c, ok)
  <2>1. pc[c] \in Appending /\ UNCHANGED owner /\ \A d \in Call : d # c => pc'[d] = pc[d]
    BY <1>0, <1>2 DEF AddTurn, Appending, Goto, GiveUp, Finish
  <2>2. CASE Finish(c)
    BY <1>0, <2>1, <2>2 DEF Finish, Goto
  <2>3. CASE turns' # turns
    BY <2>1, <2>3
  <2>4. CASE turns' = turns
    <3> DEFINE q == turns[SessionOf[c]]
               t == [call |-> c, role |-> IF pc[c] = "addBuyer" THEN "buyer" ELSE "agent"]
    <3>1. Finish(c) \/ turns' = [turns EXCEPT ![SessionOf[c]] = Append(q, t)]
      BY <1>2 DEF AddTurn, GiveUp
    <3>2. q \in Seq(Turn) /\ t \in Turn
      BY <1>0 DEF Turn
    <3>3. Append(q, t) # q
      <4> HIDE DEF q, t
      <4>1. Len(Append(q, t)) = Len(q) + 1 /\ Len(q) \in Nat
        BY <3>2
      <4> QED
        BY <4>1
    <3> HIDE DEF t
    <3>4. Finish(c)
      BY <1>0, <2>4, <3>1, <3>3
    <3> QED
      BY <2>2, <3>4
  <2> QED
    BY <2>3, <2>4
<1> QED
  BY <1>1, <1>2

\* An added turn is the call's, and is the last one.
LEMMA AddTurnStep ==
    ASSUME TypeOK, NEW c \in Call, NEW ok \in BOOLEAN, AddTurn(c, ok), turns' # turns
    PROVE  \E role \in {"buyer", "agent"} :
               /\ role = "agent" => pc[c] = "addAgent"
               /\ turns' = [turns EXCEPT ![SessionOf[c]] = Append(@, [call |-> c, role |-> role])]
               /\ pc'[c] \in {"lastAgent", "addAgent"} => role = "buyer"
<1>0. pc \in [Call -> Step] /\ turns \in [Session -> Seq(Turn)] /\ SessionOf[c] \in Session
  BY SessionTurnsAssumption DEF TypeOK
<1> DEFINE role == IF pc[c] = "addBuyer" THEN "buyer" ELSE "agent"
<1>1. /\ turns' = [turns EXCEPT ![SessionOf[c]] = Append(@, [call |-> c, role |-> role])]
      /\ Goto(c, AfterTurn(c))
  BY DEF AddTurn
<1>2. pc[c] \in {"addBuyer", "addAgent"}
  BY DEF AddTurn
<1>3. pc'[c] \in {"lastAgent", "addAgent"} => role = "buyer"
  BY <1>0, <1>1 DEF Goto, AfterTurn
<1>4. role \in {"buyer", "agent"} /\ (role = "agent" => pc[c] = "addAgent")
  BY <1>2
<1> HIDE DEF role
<1> QED
  BY <1>1, <1>3, <1>4

\* No step mixes two buyers in a conversation.
LEMMA ConversationBuyerStep ==
    ASSUME TypeOK, OneBuyerPerConversation, OwnerInv, [Next]_vars
    PROVE  OneBuyerPerConversation' /\ OwnerInv'
<1> USE SessionTurnsAssumption
<1>0. /\ pc \in [Call -> Step] /\ turns \in [Session -> Seq(Turn)]
      /\ owner \in [Session -> Buyer \union {None}]
  BY DEF TypeOK
<1>1. CASE \A c \in Call, ok \in BOOLEAN : ~ (Touch(c, ok) \/ ReadLast(c, ok) \/ AddTurn(c, ok))
  <2>1. /\ UNCHANGED <<owner, turns>>
        /\ \A d \in Call : pc'[d] \in Appending => pc[d] = pc'[d]
    BY <1>1, OutsideRecording
  <2> QED
    BY <2>1 DEF OneBuyerPerConversation, OwnerInv
<1>2. ASSUME NEW c \in Call, NEW ok \in BOOLEAN, Touch(c, ok)
      PROVE  OneBuyerPerConversation' /\ OwnerInv'
  <2>1. turns' = turns
    BY <1>2 DEF Touch
  <2>2. CASE ok /\ IsOwn(c)
    <3>1. /\ owner' = [owner EXCEPT ![SessionOf[c]] = BuyerOf[c]]
          /\ pc' = [pc EXCEPT ![c] = "lastBuyer"]
      BY <1>2, <2>2 DEF Touch, Goto
    <3>2. ASSUME NEW s \in Session, NEW i \in DOMAIN turns[s]
          PROVE  BuyerOf[turns[s][i].call] = owner'[s]
      <4>1. BuyerOf[turns[s][i].call] = owner[s]
        BY <3>2 DEF OneBuyerPerConversation
      <4>2. turns[s][i].call \in Call
        <5>1. turns[s][i] \in Turn
          <6>1. turns[s] \in Seq(Turn)
            BY <1>0
          <6> QED
            BY <6>1
        <5> QED
          BY <5>1 DEF Turn
      <4>3. owner[s] # None
        BY <4>1, <4>2
      <4>4. s = SessionOf[c] => owner[s] = BuyerOf[c]
        BY <2>2, <4>3 DEF IsOwn
      <4> QED
        BY <1>0, <3>1, <4>1, <4>4
    <3>3. ASSUME NEW d \in Call, pc'[d] \in Appending
          PROVE  owner'[SessionOf[d]] = BuyerOf[d]
      <4>1. CASE d = c
        BY <1>0, <3>1, <4>1
      <4>2. CASE d # c
        <5>1. pc[d] \in Appending
          BY <1>0, <3>1, <3>3, <4>2
        <5>2. owner[SessionOf[d]] = BuyerOf[d] /\ BuyerOf[d] # None
          BY <5>1 DEF OwnerInv
        <5>3. SessionOf[d] = SessionOf[c] => BuyerOf[d] = BuyerOf[c]
          BY <2>2, <5>2 DEF IsOwn
        <5> QED
          BY <1>0, <3>1, <5>2, <5>3
      <4> QED
        BY <4>1, <4>2
    <3> QED
      BY <2>1, <3>2, <3>3 DEF OneBuyerPerConversation, OwnerInv
  <2>3. CASE ~ (ok /\ IsOwn(c))
    <3>1. owner' = owner /\ pc' = [pc EXCEPT ![c] = "ended"]
      BY <1>2, <2>3 DEF Touch, GiveUp, Finish, Goto
    <3>2. \A d \in Call : pc'[d] \in Appending => pc[d] \in Appending
      BY <1>0, <3>1 DEF Appending
    <3> QED
      BY <2>1, <3>1, <3>2 DEF OneBuyerPerConversation, OwnerInv
  <2> QED
    BY <2>2, <2>3
<1>3. ASSUME NEW c \in Call, NEW ok \in BOOLEAN, ReadLast(c, ok) \/ AddTurn(c, ok)
      PROVE  OneBuyerPerConversation' /\ OwnerInv'
  <2>1. /\ pc[c] \in Appending /\ owner' = owner
        /\ \A d \in Call : pc'[d] \in Appending => pc[d] \in Appending
    BY <1>3, RecordingStep
  <2>2. OwnerInv'
    BY <2>1 DEF OwnerInv
  <2>3. owner[SessionOf[c]] = BuyerOf[c]
    BY <2>1 DEF OwnerInv
  <2>4. CASE turns' = turns
    BY <2>1, <2>2, <2>4 DEF OneBuyerPerConversation
  <2>5. CASE turns' # turns
    <3>1. AddTurn(c, ok)
      BY <1>3, <2>5 DEF ReadLast, storeVars
    <3>2. PICK role \in {"buyer", "agent"} :
              turns' = [turns EXCEPT ![SessionOf[c]] = Append(@, [call |-> c, role |-> role])]
      BY <2>5, <3>1, AddTurnStep
    <3>3. ASSUME NEW s \in Session, NEW i \in DOMAIN turns'[s]
          PROVE  BuyerOf[turns'[s][i].call] = owner[s]
      <4>1. CASE s # SessionOf[c]
        BY <1>0, <3>2, <3>3, <4>1 DEF OneBuyerPerConversation
      <4>2. CASE s = SessionOf[c]
        <5> DEFINE q == turns[s]
                   t == [call |-> c, role |-> role]
        <5>1. q \in Seq(Turn) /\ t \in Turn /\ turns'[s] = Append(q, t)
          BY <1>0, <3>2, <4>2 DEF Turn
        <5>2. \A j \in DOMAIN q : BuyerOf[q[j].call] = owner[s]
          BY DEF OneBuyerPerConversation
        <5>3. BuyerOf[t.call] = owner[s]
          BY <2>3, <4>2
        <5> HIDE DEF q, t
        <5>4. /\ DOMAIN q = 1..Len(q) /\ Len(q) \in Nat
              /\ DOMAIN Append(q, t) = 1..(Len(q) + 1)
              /\ \A j \in 1..Len(q) : Append(q, t)[j] = q[j]
              /\ Append(q, t)[Len(q) + 1] = t
          BY <5>1, Appended
        <5>5. i = Len(q) + 1 \/ i \in 1..Len(q)
          BY <3>3, <5>1, <5>4
        <5> QED
          BY <5>1, <5>2, <5>3, <5>4, <5>5
      <4> QED
        BY <4>1, <4>2
    <3> QED
      BY <2>1, <2>2, <3>3 DEF OneBuyerPerConversation
  <2> QED
    BY <2>4, <2>5
<1> QED
  BY <1>1, <1>2, <1>3

\* No step answers a question that was not recorded.
LEMMA QuestionStep ==
    ASSUME TypeOK, QuestionInv, AnswerFollowsQuestion, [Next]_vars
    PROVE  QuestionInv' /\ AnswerFollowsQuestion'
<1> USE SessionTurnsAssumption
<1>0. pc \in [Call -> Step] /\ turns \in [Session -> Seq(Turn)]
  BY DEF TypeOK
<1>1. ASSUME turns' = turns,
             \A d \in Call : pc'[d] \in {"lastAgent", "addAgent"} => pc[d] \in {"lastAgent", "addAgent"}
      PROVE  QuestionInv' /\ AnswerFollowsQuestion'
  BY <1>1 DEF QuestionInv, AnswerFollowsQuestion
<1>2. CASE \A c \in Call, ok \in BOOLEAN : ~ (Touch(c, ok) \/ ReadLast(c, ok) \/ AddTurn(c, ok))
  <2>1. /\ UNCHANGED <<owner, turns>>
        /\ \A d \in Call : pc'[d] \in Appending => pc[d] = pc'[d]
    BY <1>2, OutsideRecording
  <2> QED
    BY <1>1, <2>1 DEF Appending
<1>3. ASSUME NEW c \in Call, NEW ok \in BOOLEAN, Touch(c, ok)
      PROVE  QuestionInv' /\ AnswerFollowsQuestion'
  <2>1. turns' = turns /\ (Goto(c, "lastBuyer") \/ Goto(c, "ended"))
    BY <1>3 DEF Touch, GiveUp, Finish
  <2> QED
    BY <1>0, <1>1, <2>1 DEF Goto
<1>4. ASSUME NEW c \in Call, NEW ok \in BOOLEAN, ReadLast(c, ok) \/ AddTurn(c, ok)
      PROVE  QuestionInv' /\ AnswerFollowsQuestion'
  <2>1. /\ \A d \in Call : d # c => pc'[d] = pc[d]
        /\ turns' = turns /\ pc'[c] \in {"lastAgent", "addAgent"} =>
               pc[c] \in {"lastAgent", "addAgent"}
    BY <1>4, RecordingStep
  <2>2. CASE turns' = turns
    BY <1>1, <2>1, <2>2
  <2>3. CASE turns' # turns
    <3>1. AddTurn(c, ok)
      BY <1>4, <2>3 DEF ReadLast, storeVars
    <3>2. PICK role \in {"buyer", "agent"} :
              /\ role = "agent" => pc[c] = "addAgent"
              /\ turns' = [turns EXCEPT ![SessionOf[c]] = Append(@, [call |-> c, role |-> role])]
              /\ pc'[c] \in {"lastAgent", "addAgent"} => role = "buyer"
      BY <2>3, <3>1, AddTurnStep
    <3> DEFINE s == SessionOf[c]
               q == turns[s]
               t == [call |-> c, role |-> role]
    <3>3. q \in Seq(Turn) /\ t \in Turn /\ turns'[s] = Append(q, t) /\ s \in Session
      BY <1>0, <3>2 DEF Turn
    <3>4. \A r \in Session : r # s => turns'[r] = turns[r]
      BY <1>0, <3>2
    <3>5. /\ DOMAIN q = 1..Len(q) /\ Len(q) \in Nat
          /\ DOMAIN Append(q, t) = 1..(Len(q) + 1)
          /\ \A j \in 1..Len(q) : Append(q, t)[j] = q[j]
          /\ Append(q, t)[Len(q) + 1] = t
      <4> HIDE DEF q, t
      <4> QED
        BY <3>3, Appended
    <3>6. ASSUME NEW d \in Call, pc'[d] \in {"lastAgent", "addAgent"}
          PROVE  \E j \in DOMAIN turns'[SessionOf[d]] :
                     turns'[SessionOf[d]][j] = [call |-> d, role |-> "buyer"]
      <4>1. CASE d = c
        <5>1. t = [call |-> d, role |-> "buyer"]
          BY <3>2, <3>6, <4>1
        <5> HIDE DEF q, t
        <5>2. Len(q) + 1 \in DOMAIN turns'[s] /\ turns'[s][Len(q) + 1] = t
          BY <3>3, <3>5
        <5> QED
          BY <4>1, <5>1, <5>2
      <4>2. CASE d # c
        <5>1. PICK j \in DOMAIN turns[SessionOf[d]] :
                  turns[SessionOf[d]][j] = [call |-> d, role |-> "buyer"]
          BY <2>1, <3>6, <4>2 DEF QuestionInv
        <5>2. j \in DOMAIN turns'[SessionOf[d]] /\ turns'[SessionOf[d]][j] = turns[SessionOf[d]][j]
          <6>1. CASE SessionOf[d] # s
            BY <3>4, <5>1, <6>1
          <6>2. CASE SessionOf[d] = s
            <7>1. j \in DOMAIN q
              BY <5>1, <6>2
            <7> HIDE DEF q, t
            <7>2. j \in 1..Len(q) /\ j \in DOMAIN Append(q, t) /\ Append(q, t)[j] = q[j]
              BY <3>5, <7>1
            <7> QED
              BY <3>3, <6>2, <7>2 DEF q
          <6> QED
            BY <6>1, <6>2
        <5> QED
          BY <5>1, <5>2
      <4> QED
        BY <4>1, <4>2
    <3>7. ASSUME NEW r \in Session, NEW i \in DOMAIN turns'[r], turns'[r][i].role = "agent"
          PROVE  \E j \in 1..(i - 1) :
                     turns'[r][j] = [call |-> turns'[r][i].call, role |-> "buyer"]
      <4>1. CASE r # s
        BY <3>4, <3>7, <4>1 DEF AnswerFollowsQuestion
      <4>2. CASE r = s /\ i \in 1..Len(q)
        <5>1. i \in DOMAIN q /\ turns'[s][i] = q[i]
          BY <3>3, <3>5, <4>2
        <5>2. PICK j \in 1..(i - 1) : q[j] = [call |-> q[i].call, role |-> "buyer"]
          BY <3>3, <3>7, <4>2, <5>1 DEF AnswerFollowsQuestion
        <5> HIDE DEF q, t
        <5>3. j \in 1..Len(q) /\ turns'[s][j] = q[j]
          BY <3>3, <3>5, <4>2, <5>2
        <5> QED
          BY <4>2, <5>1, <5>2, <5>3
      <4>3. CASE r = s /\ i = Len(q) + 1
        <5>1. turns'[s][i] = t
          BY <3>3, <3>5, <4>3
        <5>2. role = "agent" /\ turns'[r][i].call = c
          BY <3>7, <4>3, <5>1
        <5>3. PICK j \in DOMAIN q : q[j] = [call |-> c, role |-> "buyer"]
          BY <3>2, <5>2 DEF QuestionInv
        <5> HIDE DEF q, t
        <5>4. j \in 1..(i - 1) /\ turns'[s][j] = q[j]
          BY <3>3, <3>5, <4>3, <5>3
        <5> QED
          BY <4>3, <5>2, <5>3, <5>4
      <4>4. r = s => i = Len(q) + 1 \/ i \in 1..Len(q)
        BY <3>3, <3>5, <3>7
      <4> QED
        BY <4>1, <4>2, <4>3, <4>4
    <3> QED
      BY <3>6, <3>7 DEF QuestionInv, AnswerFollowsQuestion
  <2> QED
    BY <2>2, <2>3
<1> QED
  BY <1>2, <1>3, <1>4

-----------------------------------------------------------------------------
(* Theorems                                                                *)

\* The invariant holds at first.
LEMMA InitInv == Init => IInv
<1> SUFFICES ASSUME Init PROVE IInv
  OBVIOUS
<1>1. TypeOK
  BY InitTypeOK
<1>2. pc = [c \in Call |-> "arriving"]
  BY DEF Init
<1>3. AgentInv /\ CreationInv /\ OwnerInv /\ QuestionInv
  BY <1>2 DEF AgentInv, CreationInv, OwnerInv, QuestionInv, WithAgent, Appending
<1>4. OneBuyerPerAgent
  <2>1. \A a \in Agent : DOMAIN context[a] = {}
    BY NothingIsASequence DEF Init
  <2>2. \A s \in Session : DOMAIN snapshot[s].context = {}
    BY NothingIsASequence DEF Init, NoSnapshot
  <2> QED
    BY <2>1, <2>2 DEF OneBuyerPerAgent, Agent
<1>5. \A s \in Session : DOMAIN turns[s] = {}
  BY NothingIsASequence DEF Init
<1>6. OneBuyerPerConversation /\ AnswerFollowsQuestion
  BY <1>5 DEF OneBuyerPerConversation, AnswerFollowsQuestion
<1> QED
  BY <1>1, <1>3, <1>4, <1>6 DEF IInv

\* Every step keeps the invariant.
LEMMA NextInv == IInv /\ [Next]_vars => IInv'
BY NextTypeOK, AgentStep, AgentBuyerStep, ConversationBuyerStep, QuestionStep DEF IInv

\* The invariant holds throughout.  (all of handle_intent)
THEOREM Invariance == Spec => []IInv
BY InitInv, NextInv, PTL DEF Spec

\* The variables keep their types.  (all of handle_intent)
THEOREM TypesKept == Spec => []TypeOK
<1>1. IInv => TypeOK
  BY DEF IInv
<1> QED
  BY <1>1, Invariance, PTL

\* However many calls of a session a process serves at once, and whatever
\* fails, they work with one agent, hence under one lock.  (the double check
\* of get_or_create)
THEOREM OneAgent == Spec => []OneAgentPerSession
<1>1. IInv => OneAgentPerSession
  BY DEF IInv, AgentInv, OneAgentPerSession, Registered
<1> QED
  BY <1>1, Invariance, PTL

\* No agent, alive or saved, ever holds the messages of two buyers, and no
\* conversation their turns.  (_ensure_owner and the buyer test of _restore,
\* touch_session before append_turn)
THEOREM BuyersKeptApart == Spec => []BuyersApart
<1>1. IInv => BuyersApart
  BY DEF IInv, BuyersApart
<1> QED
  BY <1>1, Invariance, PTL

\* No conversation ever holds an answer without its question before it,
\* however many processes write to it.  (_record_conversation)
THEOREM QuestionsFirst == Spec => []AnswerFollowsQuestion
<1>1. IInv => AnswerFollowsQuestion
  BY DEF IInv
<1> QED
  BY <1>1, Invariance, PTL

-----------------------------------------------------------------------------
(* The execution lock                                                      *)

\* Between these steps a call holds the execution lock of its agent.
Exclusive == WithAgent \ {"lock"}

\* An entry of the registry was built by a call of that process and session.
RegistryInv ==
    \A p \in Process, s \in Session :
        registry[p][s] # None => process[registry[p][s]] = p /\ SessionOf[registry[p][s]] = s

\* A call between its steps holds the lock.
LockInv == \A c \in Call : pc[c] \in Exclusive => running[agent[c]] = c

\* What one call of the handler does until it awaits again.
CallStep(c, ok) ==
    \/ Arrive(c) \/ EnterCreation(c) \/ Acquire(c) \/ Lookup(c) \/ RunAgent(c) \/ AgentRaises(c)
    \/ StoreStep(c, ok)

\* A step is a stutter, a step of one call or a crash.
LEMMA AnyStep ==
    ASSUME [Next]_vars
    PROVE  \/ UNCHANGED vars
           \/ \E c \in Call, ok \in BOOLEAN : CallStep(c, ok)
           \/ \E p \in Process : Crash(p)
<1>1. ASSUME NEW c \in Call, Handle(c) PROVE \E ok \in BOOLEAN : CallStep(c, ok)
  <2>1. TRUE \in BOOLEAN
    OBVIOUS
  <2>2. Outcomes \subseteq BOOLEAN
    BY DEF Outcomes
  <2> QED
    BY <1>1, <2>1, <2>2 DEF Handle, CallStep
<1> QED
  BY <1>1 DEF Next

\* A step of one call leaves the others where they are.
LEMMA OneCallMoves ==
    ASSUME TypeOK, NEW c \in Call, NEW ok \in BOOLEAN, CallStep(c, ok)
    PROVE  /\ process' = process
           /\ forgetful \subseteq forgetful'
           /\ \A d \in Call : d # c => pc'[d] = pc[d] /\ agent'[d] = agent[d] /\ answer'[d] = answer[d]
<1>0. /\ pc \in [Call -> Step] /\ agent \in [Call -> Agent \union {None}]
      /\ answer \in [Call -> {"none", "agent", "cache"}]
  BY DEF TypeOK
<1>1. process' = process
  BY DEF CallStep, StoreStep, Arrive, EnterCreation, Acquire, LookBack, Lookup, RunAgent, AgentRaises,
         Restore, Persist, Touch, ReadLast, AddTurn, AddEvents
<1>2. forgetful \subseteq forgetful'
  BY DEF CallStep, StoreStep, Arrive, EnterCreation, Acquire, LookBack, Lookup, RunAgent, AgentRaises,
         Restore, Persist, Touch, ReadLast, AddTurn, AddEvents
<1>3. \E x \in Step : Goto(c, x)
  BY DEF CallStep, StoreStep, Arrive, EnterCreation, Acquire, LookBack, Lookup, RunAgent, AgentRaises,
         Restore, Persist, Touch, ReadLast, AddTurn, AddEvents, Reuse, Build, GiveUp, Finish, AfterTurn,
         Step
<1>4. agent' = agent \/ \E a : agent' = [agent EXCEPT ![c] = a]
  BY DEF CallStep, StoreStep, Arrive, EnterCreation, Acquire, LookBack, Lookup, RunAgent, AgentRaises,
         Restore, Persist, Touch, ReadLast, AddTurn, AddEvents, Reuse, Build
<1>5. answer' = answer \/ \E a : answer' = [answer EXCEPT ![c] = a]
  BY DEF CallStep, StoreStep, Arrive, EnterCreation, Acquire, LookBack, Lookup, RunAgent, AgentRaises,
         Restore, Persist, Touch, ReadLast, AddTurn, AddEvents
<1> QED
  BY <1>0, <1>1, <1>2, <1>3, <1>4, <1>5 DEF Goto

\* A call reaches its exclusive steps through the lock only, and leaves them
\* with it.
LEMMA ExclusiveStep ==
    ASSUME TypeOK, NEW c \in Call, NEW ok \in BOOLEAN, CallStep(c, ok)
    PROVE  \/ Acquire(c)
           \/ /\ pc[c] \in Exclusive
              /\ agent' = agent
              /\ running' = running \/ Finish(c)
           \/ /\ pc'[c] \notin Exclusive
              /\ running' = running
<1>0. pc \in [Call -> Step]
  BY DEF TypeOK
<1>1. CASE Arrive(c) \/ EnterCreation(c) \/ Restore(c, ok)
  <2>1. running' = running
    BY <1>1 DEF Arrive, EnterCreation, Restore, processVars
  <2>2. \E x \in Step \ Exclusive : Goto(c, x)
    BY <1>1 DEF Arrive, EnterCreation, Restore, Reuse, Build, Step, Exclusive, WithAgent
  <2> QED
    BY <1>0, <2>1, <2>2 DEF Goto
<1>2. CASE \/ LookBack(c, ok) \/ Lookup(c) \/ RunAgent(c) \/ AgentRaises(c) \/ Persist(c, ok)
           \/ Touch(c, ok) \/ ReadLast(c, ok) \/ AddTurn(c, ok) \/ AddEvents(c, ok)
  <2>1. pc[c] \in Exclusive
    BY <1>2 DEF LookBack, Lookup, RunAgent, AgentRaises, Persist, Touch, ReadLast, AddTurn, AddEvents,
                Exclusive, WithAgent
  <2>2. agent' = agent
    BY <1>2 DEF LookBack, Lookup, RunAgent, AgentRaises, Persist, Touch, ReadLast, AddTurn, AddEvents
  <2>3. running' = running \/ Finish(c)
    BY <1>2 DEF LookBack, Lookup, RunAgent, AgentRaises, Persist, Touch, ReadLast, AddTurn, AddEvents,
                GiveUp, processVars
  <2> QED
    BY <2>1, <2>2, <2>3
<1> QED
  BY <1>1, <1>2 DEF CallStep, StoreStep

\* What a step of a call does to the registry.
LEMMA RegistryOfCall ==
    ASSUME NEW c \in Call, NEW ok \in BOOLEAN, CallStep(c, ok)
    PROVE  \/ registry' = registry
           \/ registry' = [registry EXCEPT ![process[c]][SessionOf[c]] = c]
BY DEF CallStep, StoreStep, Arrive, EnterCreation, Acquire, LookBack, Lookup, RunAgent, AgentRaises,
       Restore, Persist, Touch, ReadLast, AddTurn, AddEvents, Build, processVars

\* The agents of the calls a crash spares are spared too.
LEMMA CrashSpares ==
    ASSUME TypeOK, AgentInv, RegistryInv, NEW p \in Process, Crash(p),
           NEW d \in Call, pc'[d] \in WithAgent
    PROVE  /\ pc'[d] = pc[d] /\ process[d] # p
           /\ Registered(d)' = Registered(d)
           /\ running'[agent[d]] = running[agent[d]]
           /\ context'[agent[d]] = context[agent[d]]
<1>0. /\ pc \in [Call -> Step] /\ process \in [Call -> Process] /\ SessionOf[d] \in Session
      /\ registry \in [Process -> [Session -> Agent \union {None}]]
  BY SessionTurnsAssumption DEF TypeOK
<1>1. pc'[d] = pc[d] /\ process[d] # p
  BY <1>0 DEF Crash, InProcess, WithAgent
<1>2. Registered(d)' = Registered(d)
  BY <1>0, <1>1 DEF Crash, Registered
<1>3. agent[d] = Registered(d) /\ agent[d] \in Call
  BY <1>1 DEF AgentInv, Agent
<1>4. process[agent[d]] = process[d]
  BY <1>0, <1>3, SessionTurnsAssumption DEF RegistryInv, Registered
<1>5. agent[d] \notin InProcess(p)
  BY <1>1, <1>4 DEF InProcess
<1> QED
  BY <1>1, <1>2, <1>3, <1>5 DEF Crash, Agent

\* Every step keeps the registry to the calls that built its agents.
LEMMA RegistryStep ==
    ASSUME TypeOK, RegistryInv, [Next]_vars
    PROVE  RegistryInv'
<1> USE SessionTurnsAssumption
<1>0. /\ registry \in [Process -> [Session -> Agent \union {None}]]
      /\ process \in [Call -> Process]
  BY DEF TypeOK
<1>1. CASE UNCHANGED vars
  BY <1>1 DEF RegistryInv, vars, processVars, callVars
<1>2. ASSUME NEW c \in Call, NEW ok \in BOOLEAN, CallStep(c, ok) PROVE RegistryInv'
  <2>1. process' = process
    BY <1>2, OneCallMoves
  <2>2. CASE registry' = registry
    BY <2>1, <2>2 DEF RegistryInv
  <2>3. CASE registry' = [registry EXCEPT ![process[c]][SessionOf[c]] = c]
    <3>1. ASSUME NEW p \in Process, NEW s \in Session
          PROVE  \/ registry'[p][s] = registry[p][s]
                 \/ p = process[c] /\ s = SessionOf[c] /\ registry'[p][s] = c
      BY <1>0, <2>3
    <3> QED
      BY <2>1, <3>1 DEF RegistryInv
  <2> QED
    BY <1>2, <2>2, <2>3, RegistryOfCall
<1>3. ASSUME NEW p \in Process, Crash(p) PROVE RegistryInv'
  <2>1. process' = process /\ registry' = [registry EXCEPT ![p] = [s \in Session |-> None]]
    BY <1>3 DEF Crash
  <2>2. ASSUME NEW q \in Process, NEW s \in Session
        PROVE  registry'[q][s] \in {registry[q][s], None}
    BY <1>0, <2>1
  <2> QED
    BY <2>1, <2>2 DEF RegistryInv
<1> QED
  BY <1>1, <1>2, <1>3, AnyStep

\* Every step keeps the lock with the call that works.
LEMMA LockStep ==
    ASSUME TypeOK, AgentInv, RegistryInv, LockInv, [Next]_vars
    PROVE  LockInv'
<1> USE SessionTurnsAssumption
<1>0. /\ pc \in [Call -> Step] /\ running \in [Agent -> Call \union {None}]
  BY DEF TypeOK
<1>1. CASE UNCHANGED vars
  BY <1>1 DEF LockInv, vars, processVars, callVars
<1>2. ASSUME NEW c \in Call, NEW ok \in BOOLEAN, CallStep(c, ok) PROVE LockInv'
  <2>1. \A d \in Call : d # c => pc'[d] = pc[d] /\ agent'[d] = agent[d]
    BY <1>2, OneCallMoves
  <2>2. CASE Acquire(c)
    <3>1. /\ pc[c] = "lock" /\ running[agent[c]] = None
          /\ running' = [running EXCEPT ![agent[c]] = c] /\ agent' = agent
      BY <2>2 DEF Acquire
    <3>2. agent[c] \in Agent
      BY <3>1 DEF AgentInv, WithAgent
    <3>3. ASSUME NEW d \in Call, d # c, pc'[d] \in Exclusive
          PROVE  running'[agent'[d]] = d
      <4>1. running[agent[d]] = d /\ agent'[d] = agent[d]
        BY <2>1, <3>3 DEF LockInv
      <4>2. agent[d] # agent[c]
        BY <3>1, <4>1
      <4> QED
        BY <3>1, <4>1, <4>2
    <3>4. running'[agent'[c]] = c
      BY <1>0, <3>1, <3>2
    <3> QED
      BY <3>3, <3>4 DEF LockInv
  <2>3. CASE /\ pc[c] \in Exclusive
             /\ agent' = agent
             /\ running' = running \/ Finish(c)
    <3>1. running[agent[c]] = c
      BY <2>3 DEF LockInv
    <3>2. CASE running' = running
      BY <2>1, <2>3, <3>1, <3>2 DEF LockInv
    <3>3. CASE Finish(c)
      <4>1. pc'[c] = "ended" /\ running' = [running EXCEPT ![agent[c]] = None]
        BY <1>0, <3>3 DEF Finish, Goto
      <4>2. ASSUME NEW d \in Call, pc'[d] \in Exclusive
            PROVE  running'[agent'[d]] = d
        <5>1. d # c
          BY <4>1, <4>2 DEF Exclusive, WithAgent
        <5>2. running[agent[d]] = d /\ agent'[d] = agent[d]
          BY <2>1, <4>2, <5>1 DEF LockInv
        <5> QED
          BY <3>1, <4>1, <5>1, <5>2
      <4> QED
        BY <4>2 DEF LockInv
    <3> QED
      BY <2>3, <3>2, <3>3
  <2>4. CASE pc'[c] \notin Exclusive /\ running' = running
    BY <2>1, <2>4 DEF LockInv
  <2> QED
    BY <1>2, <2>2, <2>3, <2>4, ExclusiveStep
<1>3. ASSUME NEW p \in Process, Crash(p) PROVE LockInv'
  <2>1. agent' = agent
    BY <1>3 DEF Crash
  <2>2. ASSUME NEW d \in Call, pc'[d] \in Exclusive PROVE running'[agent'[d]] = d
    <3>1. pc'[d] = pc[d] /\ running'[agent[d]] = running[agent[d]]
      BY <1>3, <2>2, CrashSpares DEF Exclusive
    <3> QED
      BY <2>1, <2>2, <3>1 DEF LockInv
  <2> QED
    BY <2>2 DEF LockInv
<1> QED
  BY <1>1, <1>2, <1>3, AnyStep

\* Two calls of a session in a process never work at the same time.
LEMMA Alone ==
    ASSUME AgentInv, LockInv, NEW c \in Call, NEW d \in Call,
           pc[c] \in Exclusive, pc[d] \in Exclusive,
           process[c] = process[d], SessionOf[c] = SessionOf[d]
    PROVE  c = d
<1>1. agent[c] = agent[d]
  BY DEF AgentInv, Exclusive, Registered
<1> QED
  BY <1>1 DEF LockInv

\* Every call works under its lock.
ExclusiveInv == IInv /\ RegistryInv /\ LockInv

\* The locks are kept throughout.
LEMMA ExclusiveInvariance == Spec => []ExclusiveInv
<1>1. Init => RegistryInv /\ LockInv
  BY SessionTurnsAssumption DEF Init, RegistryInv, LockInv, Exclusive, WithAgent
<1>2. ExclusiveInv /\ [Next]_vars => ExclusiveInv'
  BY NextInv, RegistryStep, LockStep DEF ExclusiveInv, IInv
<1> QED
  BY <1>1, <1>2, InitInv, PTL DEF Spec, ExclusiveInv

-----------------------------------------------------------------------------
(* Traces                                                                  *)

\* A trace queue receives the events of its own call only, and so are the
\* recorded ones.
TraceInv ==
    /\ \A c \in Call : trace[c] \subseteq {c}
    /\ \A pair \in recorded : pair[1] = pair[2]

\* What a step of a call does to the traces.
LEMMA TraceOfCall ==
    ASSUME NEW c \in Call, NEW ok \in BOOLEAN, CallStep(c, ok)
    PROVE  \/ UNCHANGED <<trace, recorded>>
           \/ Publish(c) /\ pc[c] \in Exclusive /\ UNCHANGED recorded
           \/ recorded' = recorded \union ({c} \X trace[c]) /\ UNCHANGED trace
<1>1. CASE Arrive(c) \/ EnterCreation(c) \/ Restore(c, ok) \/ Acquire(c) \/ LookBack(c, ok) \/ Persist(c, ok)
           \/ Touch(c, ok) \/ ReadLast(c, ok) \/ AddTurn(c, ok)
  BY <1>1 DEF Arrive, EnterCreation, Restore, Acquire, LookBack, Persist, Touch, ReadLast, AddTurn, storeVars
<1>2. CASE Lookup(c) \/ RunAgent(c) \/ AgentRaises(c)
  BY <1>2 DEF Lookup, RunAgent, AgentRaises, storeVars, Exclusive, WithAgent
<1>3. CASE AddEvents(c, ok)
  BY <1>3 DEF AddEvents
<1> QED
  BY <1>1, <1>2, <1>3 DEF CallStep, StoreStep

\* No step brings an event to another call's trace.
LEMMA TraceStep ==
    ASSUME ExclusiveInv, TraceInv, [Next]_vars
    PROVE  TraceInv'
<1>0. trace \in [Call -> SUBSET Call]
  BY DEF ExclusiveInv, IInv, TypeOK
<1>1. CASE UNCHANGED <<trace, recorded>>
  BY <1>1 DEF TraceInv
<1>2. ASSUME NEW c \in Call, Publish(c), pc[c] \in Exclusive, UNCHANGED recorded PROVE TraceInv'
  <2>1. ASSUME NEW d \in Call, Hears(d, c) PROVE d = c
    <3>1. pc[d] \in Exclusive /\ process[d] = process[c] /\ SessionOf[d] = SessionOf[c]
      BY <2>1 DEF Hears, Subscribed, Exclusive, WithAgent
    <3> QED
      BY <1>2, <3>1, Alone DEF ExclusiveInv, IInv
  <2>2. \A d \in Call : trace'[d] \subseteq {d}
    BY <1>2, <2>1 DEF Publish, TraceInv
  <2> QED
    BY <1>2, <2>2 DEF TraceInv
<1>3. ASSUME NEW c \in Call, recorded' = recorded \union ({c} \X trace[c]), UNCHANGED trace
      PROVE  TraceInv'
  <2>1. \A pair \in {c} \X trace[c] : pair[1] = pair[2]
    BY DEF TraceInv
  <2> QED
    BY <1>3, <2>1 DEF TraceInv
<1>4. ASSUME NEW p \in Process, Crash(p) PROVE UNCHANGED <<trace, recorded>>
  BY <1>4 DEF Crash, storeVars
<1>5. UNCHANGED vars => UNCHANGED <<trace, recorded>>
  BY DEF vars, callVars, storeVars
<1> QED
  BY <1>1, <1>2, <1>3, <1>4, <1>5, AnyStep, TraceOfCall

\* The trace recorded for an intent is its own, as long as one process serves its
\* session, however many calls wait for it: a queue is subscribed only under the
\* execution lock.  (handle_intent)
THEOREM TracesAreOwn == Spec => []TraceIsOwn
<1>1. Init => TraceInv
  BY DEF Init, TraceInv
<1>2. TraceInv => TraceIsOwn
  BY DEF TraceInv, TraceIsOwn
<1> QED
  BY <1>1, <1>2, TraceStep, ExclusiveInvariance, PTL DEF Spec

-----------------------------------------------------------------------------
(* The history of a session that one process serves                        *)

\* A call that recorded its answer is past the recording of turns.
Settled == {"events", "ended", "crashed"}

\* A call has no answer before it was looked up or the agent ran.
Unanswered == {"arriving", "create", "restore", "lock", "history", "lookup", "agent"}

\* From persist on a call only records.
Recording == {"touch", "lastBuyer", "addBuyer", "lastAgent", "addAgent", "events"}

\* Turns are in the conversation of their call's session; the agent's turn is
\* the last one its call appends.
TurnInv ==
    \A s \in Session : \A i \in DOMAIN turns[s] :
        /\ turns[s][i].call \in Call
        /\ SessionOf[turns[s][i].call] = s
        /\ turns[s][i].role = "agent" => pc[turns[s][i].call] \in Settled

AnswerInv == \A c \in Call : pc[c] \in Unanswered => answer[c] = "none"

\* A call about to append its answer finds its question last.
PairInv ==
    \A c \in Call : SessionOf[c] \in SingleServer /\ pc[c] \in {"lastAgent", "addAgent"} =>
        LET q == turns[SessionOf[c]] IN
        q # <<>> /\ q[Len(q)] = [call |-> c, role |-> "buyer"]

\* A cached reply is asked for and recorded in a conversation without turns.
CachedInv ==
    \A c \in Call : SessionOf[c] \in SingleServer =>
        LET q == turns[SessionOf[c]] IN
        /\ pc[c] = "lookup" => q = <<>>
        /\ answer[c] = "cache" =>
              /\ pc[c] \in {"persist", "touch", "lastBuyer", "addBuyer"} => q = <<>>
              /\ pc[c] \in {"lastAgent", "addAgent"} => Len(q) = 1

\* Where a step can take a call, and what it does to its answer.
LEMMA Progress ==
    ASSUME TypeOK, NEW c \in Call, NEW ok \in BOOLEAN, CallStep(c, ok)
    PROVE  /\ pc[c] \in Settled => pc'[c] \in Settled
           /\ answer' # answer => pc[c] \in {"lookup", "agent"} /\ pc'[c] = "persist"
           /\ pc'[c] \in Unanswered => pc[c] \in Unanswered
           /\ pc'[c] = "persist" => pc[c] \in {"lookup", "agent"}
           /\ pc'[c] \in Recording => pc[c] \in Recording \union {"persist"}
           /\ pc'[c] = "touch" => pc[c] = "persist"
           /\ pc'[c] = "lastBuyer" => pc[c] = "touch"
           /\ pc'[c] = "addBuyer" => pc[c] = "lastBuyer"
           /\ pc'[c] = "lastAgent" => pc[c] = "addBuyer"
           /\ pc'[c] = "addAgent" => pc[c] = "lastAgent"
           /\ pc'[c] = "lookup" => pc[c] = "history"
<1>0. /\ pc \in [Call -> Step] /\ answer \in [Call -> {"none", "agent", "cache"}]
  BY DEF TypeOK
<1> USE DEF Settled, Unanswered, Recording
<1>1. CASE Arrive(c)
  BY <1>0, <1>1 DEF Arrive, Reuse, Goto
<1>2. CASE EnterCreation(c)
  BY <1>0, <1>2 DEF EnterCreation, Reuse, Goto
<1>3. CASE Restore(c, ok)
  BY <1>0, <1>3 DEF Restore, Build, Goto
<1>4. CASE Acquire(c)
  BY <1>0, <1>4 DEF Acquire, Goto
<1>5. CASE LookBack(c, ok)
  BY <1>0, <1>5 DEF LookBack, Goto
<1>6. CASE Lookup(c)
  BY <1>0, <1>6 DEF Lookup, Goto
<1>7. CASE RunAgent(c) \/ AgentRaises(c)
  BY <1>0, <1>7 DEF RunAgent, AgentRaises, Goto
<1>8. CASE Persist(c, ok)
  BY <1>0, <1>8 DEF Persist, Goto
<1>9. CASE Touch(c, ok)
  BY <1>0, <1>9 DEF Touch, GiveUp, Finish, Goto
<1>10. CASE ReadLast(c, ok)
  BY <1>0, <1>10 DEF ReadLast, GiveUp, Finish, Goto
<1>11. CASE AddTurn(c, ok)
  BY <1>0, <1>11 DEF AddTurn, AfterTurn, GiveUp, Finish, Goto
<1>12. CASE AddEvents(c, ok)
  BY <1>0, <1>12 DEF AddEvents, Finish, Goto
<1> QED
  BY <1>1, <1>2, <1>3, <1>4, <1>5, <1>6, <1>7, <1>8, <1>9, <1>10, <1>11, <1>12 DEF CallStep, StoreStep

\* A crash ends calls, and takes away neither turns nor answers.
LEMMA CrashStep ==
    ASSUME TypeOK, NEW p \in Process, Crash(p)
    PROVE  /\ UNCHANGED <<process, agent, answer, trace, snapshot, owner, turns, recorded, forgetful>>
           /\ \A d \in Call : pc'[d] = pc[d] \/ pc'[d] = "crashed"
<1>0. pc \in [Call -> Step]
  BY DEF TypeOK
<1> QED
  BY <1>0 DEF Crash, storeVars

\* A step of a call leaves the turns alone or appends one of the call's.
LEMMA TurnsOfCall ==
    ASSUME TypeOK, NEW c \in Call, NEW ok \in BOOLEAN, CallStep(c, ok)
    PROVE  \/ turns' = turns /\ pc'[c] # "lastAgent"
           \/ \E role \in {"buyer", "agent"} :
                 /\ turns' = [turns EXCEPT ![SessionOf[c]] = Append(@, [call |-> c, role |-> role])]
                 /\ role = "buyer" => pc[c] = "addBuyer" /\ pc'[c] \in {"lastAgent", "events"}
                 /\ role = "agent" => pc[c] = "addAgent" /\ pc'[c] = "events"
                 /\ answer' = answer
<1>0. pc \in [Call -> Step]
  BY DEF TypeOK
<1>1. CASE AddTurn(c, ok)
  <2>1. pc[c] \in {"addBuyer", "addAgent"} /\ answer' = answer
    BY <1>1 DEF AddTurn
  <2>2. CASE ok /\ place[c] = Len(turns[SessionOf[c]]) + 1
    <3> DEFINE role == IF pc[c] = "addBuyer" THEN "buyer" ELSE "agent"
    <3>1. turns' = [turns EXCEPT ![SessionOf[c]] = Append(@, [call |-> c, role |-> role])]
      BY <1>1, <2>2 DEF AddTurn
    <3>2. pc'[c] = AfterTurn(c)
      BY <1>0, <1>1, <2>2 DEF AddTurn, Goto
    <3>3. CASE pc[c] = "addBuyer"
      <4>1. role = "buyer" /\ pc'[c] \in {"lastAgent", "events"}
        BY <3>2, <3>3 DEF AfterTurn
      <4> HIDE DEF role
      <4> QED
        BY <2>1, <3>1, <3>3, <4>1
    <3>4. CASE pc[c] = "addAgent"
      <4>1. role = "agent" /\ pc'[c] = "events"
        BY <3>2, <3>4 DEF AfterTurn
      <4> HIDE DEF role
      <4> QED
        BY <2>1, <3>1, <3>4, <4>1
    <3> QED
      BY <2>1, <3>3, <3>4
  <2>3. CASE ~ (ok /\ place[c] = Len(turns[SessionOf[c]]) + 1)
    BY <1>0, <1>1, <2>3 DEF AddTurn, GiveUp, Finish, Goto
  <2> QED
    BY <2>2, <2>3
<1>2. CASE \/ Arrive(c) \/ EnterCreation(c) \/ Restore(c, ok) \/ Acquire(c) \/ LookBack(c, ok)
           \/ Lookup(c) \/ RunAgent(c) \/ AgentRaises(c) \/ Persist(c, ok) \/ Touch(c, ok)
           \/ ReadLast(c, ok) \/ AddEvents(c, ok)
  <2>1. turns' = turns
    BY <1>2 DEF Arrive, EnterCreation, Restore, Acquire, LookBack, Lookup, RunAgent, AgentRaises, Persist,
                Touch, ReadLast, AddEvents, storeVars
  <2>2. \E x \in Step \ {"lastAgent"} : Goto(c, x)
    BY <1>2 DEF Arrive, EnterCreation, Restore, Acquire, LookBack, Lookup, RunAgent, AgentRaises, Persist,
                Touch, ReadLast, AddEvents, Reuse, Build, GiveUp, Finish, Step
  <2> QED
    BY <1>0, <2>1, <2>2 DEF Goto
<1> QED
  BY <1>1, <1>2 DEF CallStep, StoreStep

\* Nobody else appends to the conversation of a call at work.
LEMMA TurnsOfOthers ==
    ASSUME ExclusiveInv, NEW c \in Call, NEW ok \in BOOLEAN, CallStep(c, ok),
           NEW d \in Call, d # c, SessionOf[d] \in SingleServer, pc[d] \in Exclusive
    PROVE  turns'[SessionOf[d]] = turns[SessionOf[d]]
<1> USE SessionTurnsAssumption
<1>0. TypeOK /\ turns \in [Session -> Seq(Turn)]
  BY DEF ExclusiveInv, IInv, TypeOK
<1>1. CASE turns' = turns
  BY <1>1
<1>2. ASSUME NEW role \in {"buyer", "agent"}, pc[c] \in {"addBuyer", "addAgent"},
             turns' = [turns EXCEPT ![SessionOf[c]] = Append(@, [call |-> c, role |-> role])]
      PROVE  turns'[SessionOf[d]] = turns[SessionOf[d]]
  <2>1. pc[c] \in Exclusive
    BY <1>2 DEF Exclusive, WithAgent
  <2>2. SessionOf[c] # SessionOf[d]
    BY <2>1, Alone DEF ExclusiveInv, IInv, SingleServer, ServedByOne
  <2> QED
    BY <1>0, <1>2, <2>2
<1> QED
  BY <1>0, <1>1, <1>2, TurnsOfCall

\* What a session's server is does not change.
LEMMA ServersStay == ASSUME process' = process PROVE SingleServer' = SingleServer
BY DEF SingleServer, ServedByOne

\* The turn a call appends is the last one of its session, and changes no other
\* session.
LEMMA TurnsAppended ==
    ASSUME TypeOK, NEW c \in Call, NEW t \in Turn,
           turns' = [turns EXCEPT ![SessionOf[c]] = Append(@, t)]
    PROVE  /\ \A s \in Session : s # SessionOf[c] => turns'[s] = turns[s]
           /\ \E q \in Seq(Turn) : turns[SessionOf[c]] = q /\ turns'[SessionOf[c]] = Append(q, t)
BY SessionTurnsAssumption DEF TypeOK

\* No step moves a turn, or lets its call append after its agent's turn.
LEMMA TurnStep ==
    ASSUME TypeOK, TurnInv, AnswerInv, [Next]_vars
    PROVE  TurnInv' /\ AnswerInv'
<1> USE SessionTurnsAssumption
<1>0. pc \in [Call -> Step] /\ turns \in [Session -> Seq(Turn)]
  BY DEF TypeOK
<1>1. CASE UNCHANGED vars
  BY <1>1 DEF TurnInv, AnswerInv, vars, callVars, storeVars
<1>2. ASSUME NEW c \in Call, NEW ok \in BOOLEAN, CallStep(c, ok) PROVE TurnInv' /\ AnswerInv'
  <2>1. \A d \in Call : d # c => pc'[d] = pc[d] /\ answer'[d] = answer[d]
    BY <1>2, OneCallMoves DEF ExclusiveInv, IInv
  <2>2. /\ pc[c] \in Settled => pc'[c] \in Settled
        /\ answer' # answer => pc'[c] = "persist"
        /\ pc'[c] \in Unanswered => pc[c] \in Unanswered
    BY <1>2, Progress DEF ExclusiveInv, IInv
  <2>3. \A d \in Call : pc[d] \in Settled => pc'[d] \in Settled
    BY <2>1, <2>2
  <2>4. AnswerInv'
    BY <2>1, <2>2 DEF AnswerInv, Unanswered
  <2>5. CASE turns' = turns
    BY <2>3, <2>4, <2>5 DEF TurnInv
  <2>6. ASSUME NEW role \in {"buyer", "agent"},
               turns' = [turns EXCEPT ![SessionOf[c]] = Append(@, [call |-> c, role |-> role])],
               role = "agent" => pc'[c] = "events"
        PROVE  TurnInv'
    <3>1. ASSUME NEW s \in Session, NEW i \in DOMAIN turns'[s]
          PROVE  \/ i \in DOMAIN turns[s] /\ turns'[s][i] = turns[s][i]
                 \/ s = SessionOf[c] /\ turns'[s][i] = [call |-> c, role |-> role]
      <4> DEFINE t == [call |-> c, role |-> role]
      <4>0. t \in Turn /\ turns' = [turns EXCEPT ![SessionOf[c]] = Append(@, t)]
        BY <2>6 DEF Turn
      <4> HIDE DEF t
      <4>1. PICK q \in Seq(Turn) : turns[SessionOf[c]] = q /\ turns'[SessionOf[c]] = Append(q, t)
        BY <4>0, TurnsAppended
      <4>2. /\ DOMAIN q = 1..Len(q) /\ Len(q) \in Nat
            /\ DOMAIN Append(q, t) = 1..(Len(q) + 1)
            /\ \A j \in 1..Len(q) : Append(q, t)[j] = q[j]
            /\ Append(q, t)[Len(q) + 1] = t
        BY <4>0, Appended
      <4>4. s # SessionOf[c] => turns'[s] = turns[s]
        BY <4>0, TurnsAppended
      <4>5. \A j \in 1..(Len(q) + 1) : j \in 1..Len(q) \/ j = Len(q) + 1
        BY <4>2
      <4>3. \/ i \in DOMAIN turns[s] /\ turns'[s][i] = turns[s][i]
            \/ s = SessionOf[c] /\ turns'[s][i] = t
        BY <3>1, <4>1, <4>2, <4>4, <4>5
      <4> QED
        BY <4>3 DEF t
    <3>2. ASSUME NEW s \in Session, NEW i \in DOMAIN turns'[s]
          PROVE  /\ turns'[s][i].call \in Call
                 /\ SessionOf[turns'[s][i].call] = s
                 /\ turns'[s][i].role = "agent" => pc'[turns'[s][i].call] \in Settled
      <4>1. CASE i \in DOMAIN turns[s] /\ turns'[s][i] = turns[s][i]
        BY <2>3, <4>1 DEF TurnInv
      <4>2. CASE s = SessionOf[c] /\ turns'[s][i] = [call |-> c, role |-> role]
        BY <2>6, <4>2 DEF Settled
      <4> QED
        BY <3>1, <4>1, <4>2
    <3> QED
      BY <3>2 DEF TurnInv
  <2> QED
    BY <1>2, <2>4, <2>5, <2>6, TurnsOfCall DEF ExclusiveInv, IInv
<1>3. ASSUME NEW p \in Process, Crash(p) PROVE TurnInv' /\ AnswerInv'
  <2>1. /\ turns' = turns /\ answer' = answer
        /\ \A d \in Call : pc'[d] = pc[d] \/ pc'[d] = "crashed"
    BY <1>3, CrashStep
  <2> QED
    BY <2>1 DEF TurnInv, AnswerInv, Settled, Unanswered
<1> QED
  BY <1>1, <1>2, <1>3, AnyStep

\* No step comes between the question of a call and its answer.
LEMMA PairStep ==
    ASSUME ExclusiveInv, PairInv, [Next]_vars
    PROVE  PairInv'
<1> USE SessionTurnsAssumption
<1>0. TypeOK
  BY DEF ExclusiveInv, IInv
<1>1. CASE UNCHANGED vars
  BY <1>1, ServersStay DEF PairInv, vars, callVars, storeVars
<1>2. ASSUME NEW c \in Call, NEW ok \in BOOLEAN, CallStep(c, ok) PROVE PairInv'
  <2>1. process' = process /\ SingleServer' = SingleServer
    BY <1>0, <1>2, OneCallMoves, ServersStay
  <2>2. ASSUME NEW d \in Call, SessionOf[d] \in SingleServer, pc'[d] \in {"lastAgent", "addAgent"}
        PROVE  LET q == turns'[SessionOf[d]] IN
               q # <<>> /\ q[Len(q)] = [call |-> d, role |-> "buyer"]
    <3>1. CASE d # c
      <4>1. pc[d] = pc'[d]
        BY <1>0, <1>2, <3>1, OneCallMoves
      <4>2. turns'[SessionOf[d]] = turns[SessionOf[d]]
        BY <1>2, <2>2, <3>1, <4>1, TurnsOfOthers DEF Exclusive, WithAgent
      <4> QED
        BY <2>2, <4>1, <4>2 DEF PairInv
    <3>2. CASE d = c /\ turns' = turns /\ pc'[c] # "lastAgent"
      <4>1. pc[d] = "lastAgent"
        BY <1>0, <1>2, <2>2, <3>2, Progress
      <4> QED
        BY <2>2, <3>2, <4>1 DEF PairInv
    <3>3. CASE d = c /\ ~ (turns' = turns /\ pc'[c] # "lastAgent")
      <4>1. PICK role \in {"buyer", "agent"} :
                /\ turns' = [turns EXCEPT ![SessionOf[c]] = Append(@, [call |-> c, role |-> role])]
                /\ role = "agent" => pc'[c] = "events"
        BY <1>0, <1>2, <3>3, TurnsOfCall
      <4>2. role = "buyer"
        BY <2>2, <3>3, <4>1
      <4> DEFINE t == [call |-> c, role |-> role]
      <4>0. t \in Turn /\ turns' = [turns EXCEPT ![SessionOf[c]] = Append(@, t)]
        BY <4>1 DEF Turn
      <4> HIDE DEF t
      <4>3. PICK q \in Seq(Turn) : turns[SessionOf[c]] = q /\ turns'[SessionOf[c]] = Append(q, t)
        BY <1>0, <4>0, TurnsAppended
      <4>5. /\ Len(q) \in Nat /\ Len(Append(q, t)) = Len(q) + 1
            /\ Append(q, t)[Len(q) + 1] = t /\ Append(q, t) # <<>>
        BY <4>0
      <4>4. turns'[SessionOf[c]] # <<>>
        BY <4>3, <4>5
      <4> QED
        BY <3>3, <4>2, <4>3, <4>4, <4>5 DEF t
    <3> QED
      BY <3>1, <3>2, <3>3
  <2> QED
    BY <2>1, <2>2 DEF PairInv
<1>3. ASSUME NEW p \in Process, Crash(p) PROVE PairInv'
  <2>1. /\ turns' = turns /\ process' = process
        /\ \A d \in Call : pc'[d] = pc[d] \/ pc'[d] = "crashed"
    BY <1>0, <1>3, CrashStep
  <2> QED
    BY <2>1, ServersStay DEF PairInv
<1> QED
  BY <1>1, <1>2, <1>3, AnyStep

\* No step brings a turn between the look at a history and the recording of the
\* cached reply.
LEMMA CachedStep ==
    ASSUME ExclusiveInv, AnswerInv, CachedInv, [Next]_vars
    PROVE  CachedInv'
<1> USE SessionTurnsAssumption
<1>0. TypeOK
  BY DEF ExclusiveInv, IInv
<1>1. CASE UNCHANGED vars
  BY <1>1, ServersStay DEF CachedInv, vars, callVars, storeVars
<1>2. ASSUME NEW c \in Call, NEW ok \in BOOLEAN, CallStep(c, ok) PROVE CachedInv'
  <2>1. process' = process /\ SingleServer' = SingleServer
    BY <1>0, <1>2, OneCallMoves, ServersStay
  <2>2. ASSUME NEW d \in Call, SessionOf[d] \in SingleServer, d # c
        PROVE  LET q == turns'[SessionOf[d]] IN
               /\ pc'[d] = "lookup" => q = <<>>
               /\ answer'[d] = "cache" =>
                     /\ pc'[d] \in {"persist", "touch", "lastBuyer", "addBuyer"} => q = <<>>
                     /\ pc'[d] \in {"lastAgent", "addAgent"} => Len(q) = 1
    <3>1. pc'[d] = pc[d] /\ answer'[d] = answer[d]
      BY <1>0, <1>2, <2>2, OneCallMoves
    <3>2. CASE pc[d] \notin Exclusive
      BY <3>1, <3>2 DEF Exclusive, WithAgent
    <3>3. CASE pc[d] \in Exclusive
      <4>1. turns'[SessionOf[d]] = turns[SessionOf[d]]
        BY <1>2, <2>2, <3>3, TurnsOfOthers
      <4> QED
        BY <2>2, <3>1, <4>1 DEF CachedInv
    <3> QED
      BY <3>2, <3>3
  <2>3. ASSUME SessionOf[c] \in SingleServer, pc'[c] = "lookup"
        PROVE  turns'[SessionOf[c]] = <<>>
    <3>1. pc[c] = "history"
      BY <1>0, <1>2, <2>3, Progress
    <3>2. LookBack(c, ok)
      BY <1>2, <3>1 DEF CallStep, StoreStep, Arrive, EnterCreation, Restore, Acquire, Lookup, RunAgent,
                        AgentRaises, Persist, Touch, ReadLast, AddTurn, AddEvents
    <3>3. turns' = turns /\ ~ HasHistory(c)
      BY <1>0, <2>3, <3>2 DEF LookBack, Goto, TypeOK, storeVars
    <3> QED
      BY <3>3 DEF HasHistory
  <2>4. ASSUME SessionOf[c] \in SingleServer, answer'[c] = "cache", pc'[c] = "persist"
        PROVE  turns'[SessionOf[c]] = <<>>
    <3>1. pc[c] \in {"lookup", "agent"}
      BY <1>0, <1>2, <2>4, Progress
    <3>2. answer[c] = "none"
      BY <3>1 DEF AnswerInv, Unanswered
    <3>3. Lookup(c) \/ RunAgent(c) \/ AgentRaises(c)
      BY <1>2, <3>1 DEF CallStep, StoreStep, Arrive, EnterCreation, Restore, Acquire, LookBack,
                        Persist, Touch, ReadLast, AddTurn, AddEvents
    <3>4. Lookup(c)
      BY <1>0, <2>4, <3>2, <3>3 DEF RunAgent, AgentRaises, TypeOK
    <3>5. pc[c] = "lookup" /\ turns' = turns
      BY <3>4 DEF Lookup, storeVars
    <3> QED
      BY <2>4, <3>5 DEF CachedInv
  <2>5. ASSUME SessionOf[c] \in SingleServer, answer'[c] = "cache",
               pc'[c] \in {"touch", "lastBuyer", "addBuyer", "lastAgent", "addAgent"}
        PROVE  LET q == turns'[SessionOf[c]] IN
               /\ pc'[c] \in {"touch", "lastBuyer", "addBuyer"} => q = <<>>
               /\ pc'[c] \in {"lastAgent", "addAgent"} => Len(q) = 1
    <3>1. /\ answer[c] = "cache"
          /\ pc'[c] \in {"touch", "lastBuyer", "addBuyer", "lastAgent"} =>
                 pc[c] \in {"persist", "touch", "lastBuyer", "addBuyer"}
          /\ pc'[c] = "addAgent" => pc[c] = "lastAgent"
      BY <1>0, <1>2, <2>5, Progress
    <3>2. CASE turns' = turns /\ pc'[c] # "lastAgent"
      BY <2>5, <3>1, <3>2 DEF CachedInv
    <3>3. CASE ~ (turns' = turns /\ pc'[c] # "lastAgent")
      <4>1. PICK role \in {"buyer", "agent"} :
                /\ turns' = [turns EXCEPT ![SessionOf[c]] = Append(@, [call |-> c, role |-> role])]
                /\ role = "buyer" => pc[c] = "addBuyer" /\ pc'[c] \in {"lastAgent", "events"}
                /\ role = "agent" => pc'[c] = "events"
        BY <1>0, <1>2, <3>3, TurnsOfCall
      <4>2. pc[c] = "addBuyer" /\ pc'[c] = "lastAgent"
        BY <2>5, <4>1
      <4>3. turns[SessionOf[c]] = <<>>
        BY <2>5, <3>1, <4>2 DEF CachedInv
      <4> DEFINE t == [call |-> c, role |-> role]
      <4>0. t \in Turn /\ turns' = [turns EXCEPT ![SessionOf[c]] = Append(@, t)]
        BY <4>1 DEF Turn
      <4> HIDE DEF t
      <4>4. PICK q \in Seq(Turn) : turns[SessionOf[c]] = q /\ turns'[SessionOf[c]] = Append(q, t)
        BY <1>0, <4>0, TurnsAppended
      <4>5. Len(turns'[SessionOf[c]]) = 1
        BY <4>0, <4>3, <4>4
      <4> QED
        BY <4>2, <4>5
    <3> QED
      BY <3>2, <3>3
  <2> QED
    BY <2>1, <2>2, <2>3, <2>4, <2>5 DEF CachedInv
<1>3. ASSUME NEW p \in Process, Crash(p) PROVE CachedInv'
  <2>1. /\ turns' = turns /\ process' = process /\ answer' = answer
        /\ \A d \in Call : pc'[d] = pc[d] \/ pc'[d] = "crashed"
    BY <1>0, <1>3, CrashStep
  <2> QED
    BY <2>1, ServersStay DEF CachedInv
<1> QED
  BY <1>1, <1>2, <1>3, AnyStep

\* A settled call keeps its answer.
LEMMA AnswersStand ==
    ASSUME TypeOK, [Next]_vars, NEW d \in Call, pc[d] \in Settled
    PROVE  answer'[d] = answer[d]
<1>1. ASSUME NEW c \in Call, NEW ok \in BOOLEAN, CallStep(c, ok) PROVE answer'[d] = answer[d]
  <2>1. d # c => answer'[d] = answer[d]
    BY <1>1, OneCallMoves
  <2>2. answer' # answer => pc[c] \in {"lookup", "agent"}
    BY <1>1, Progress
  <2> QED
    BY <2>1, <2>2 DEF Settled
<1>2. ASSUME NEW p \in Process, Crash(p) PROVE answer' = answer
  BY <1>2, CrashStep
<1>3. UNCHANGED vars => answer' = answer
  BY DEF vars, callVars
<1> QED
  BY <1>1, <1>2, <1>3, AnyStep

\* What holds of the history of a session with one server.
HistoryInv ==
    /\ TurnInv
    /\ AnswerInv
    /\ PairInv
    /\ CachedInv
    /\ TurnsInPairs
    /\ CachedReplyOpensSession

\* A step that appends nothing keeps the pairs.
LEMMA HistoryKept ==
    ASSUME ExclusiveInv, HistoryInv, [Next]_vars, turns' = turns, process' = process
    PROVE  TurnsInPairs' /\ CachedReplyOpensSession'
<1>1. SingleServer' = SingleServer
  BY ServersStay
<1>2. ASSUME NEW s \in Session, NEW i \in DOMAIN turns[s], turns[s][i].role = "agent"
      PROVE  answer'[turns[s][i].call] = answer[turns[s][i].call]
  <2>1. turns[s][i].call \in Call /\ pc[turns[s][i].call] \in Settled
    BY <1>2 DEF HistoryInv, TurnInv
  <2> QED
    BY <2>1, AnswersStand DEF ExclusiveInv, IInv
<1>3. SingleServer \subseteq Session
  BY DEF SingleServer
<1>4. TurnsInPairs'
  BY <1>1 DEF HistoryInv, TurnsInPairs
<1>5. CachedReplyOpensSession'
  BY <1>1, <1>2, <1>3 DEF HistoryInv, CachedReplyOpensSession
<1> QED
  BY <1>4, <1>5

\* An answer is appended right after its question, and a cached one to nothing
\* else.
LEMMA HistoryAppended ==
    ASSUME ExclusiveInv, HistoryInv, [Next]_vars, process' = process, answer' = answer,
           NEW c \in Call, NEW t \in Turn, t.call = c, t.role = "agent" => pc[c] = "addAgent",
           turns' = [turns EXCEPT ![SessionOf[c]] = Append(@, t)]
    PROVE  TurnsInPairs' /\ CachedReplyOpensSession'
<1> USE SessionTurnsAssumption
<1>0. TypeOK
  BY DEF ExclusiveInv, IInv
<1>1. SingleServer' = SingleServer /\ SingleServer \subseteq Session
  BY ServersStay DEF SingleServer
<1>2. \A s \in Session : s # SessionOf[c] => turns'[s] = turns[s]
  BY <1>0, TurnsAppended
<1>3. PICK q \in Seq(Turn) : turns[SessionOf[c]] = q /\ turns'[SessionOf[c]] = Append(q, t)
  BY <1>0, TurnsAppended
<1>4. PICK r \in Seq(Turn) : turns'[SessionOf[c]] = r /\ r = Append(q, t)
  BY <1>3
<1>5. /\ DOMAIN q = 1..Len(q) /\ Len(q) \in Nat
      /\ DOMAIN r = 1..(Len(q) + 1)
      /\ \A j \in 1..Len(q) : r[j] = q[j]
      /\ r[Len(q) + 1] = t
  BY <1>4, Appended
<1>6. ASSUME NEW i \in DOMAIN r PROVE i \in 1..Len(q) \/ i = Len(q) + 1
  BY <1>5, <1>6
<1>7. ASSUME SessionOf[c] \in SingleServer, NEW i \in DOMAIN r, r[i].role = "agent"
      PROVE  i > 1 /\ r[i - 1] = [call |-> r[i].call, role |-> "buyer"]
  <2>1. CASE i \in 1..Len(q)
    <3>1. r[i] = q[i] /\ i \in DOMAIN q
      BY <1>5, <2>1
    <3>2. i > 1 /\ q[i - 1] = [call |-> q[i].call, role |-> "buyer"]
      BY <1>3, <1>7, <3>1 DEF HistoryInv, TurnsInPairs
    <3>3. r[i - 1] = q[i - 1]
      BY <1>5, <2>1, <3>2
    <3> QED
      BY <3>1, <3>2, <3>3
  <2>2. CASE i = Len(q) + 1
    <3>1. r[i] = t /\ pc[c] = "addAgent"
      BY <1>5, <1>7, <2>2
    <3>2. q # <<>> /\ q[Len(q)] = [call |-> c, role |-> "buyer"]
      BY <1>3, <1>7, <3>1 DEF HistoryInv, PairInv
    <3>3. Len(q) > 0
      BY <3>2
    <3>4. r[i - 1] = q[Len(q)]
      BY <1>5, <2>2, <3>3
    <3> QED
      BY <1>5, <2>2, <3>1, <3>2, <3>3, <3>4
  <2> QED
    BY <1>6, <2>1, <2>2
<1>8. ASSUME SessionOf[c] \in SingleServer, NEW i \in DOMAIN r, r[i].role = "agent",
             answer[r[i].call] = "cache"
      PROVE  i = 2
  <2>1. CASE i \in 1..Len(q)
    <3>1. r[i] = q[i] /\ i \in DOMAIN q
      BY <1>5, <2>1
    <3> QED
      BY <1>3, <1>8, <3>1 DEF HistoryInv, CachedReplyOpensSession
  <2>2. CASE i = Len(q) + 1
    <3>1. r[i] = t /\ pc[c] = "addAgent" /\ answer[c] = "cache"
      BY <1>5, <1>8, <2>2
    <3>2. Len(q) = 1
      BY <1>3, <1>8, <3>1 DEF HistoryInv, CachedInv
    <3> QED
      BY <2>2, <3>2
  <2> QED
    BY <1>6, <2>1, <2>2
<1>9. TurnsInPairs'
  <2>1. ASSUME NEW s \in SingleServer, NEW i \in DOMAIN turns'[s], turns'[s][i].role = "agent"
        PROVE  i > 1 /\ turns'[s][i - 1] = [call |-> turns'[s][i].call, role |-> "buyer"]
    <3>1. CASE s # SessionOf[c]
      BY <1>1, <1>2, <2>1, <3>1 DEF HistoryInv, TurnsInPairs
    <3>2. CASE s = SessionOf[c]
      BY <1>4, <1>7, <2>1, <3>2
    <3> QED
      BY <3>1, <3>2
  <2> QED
    BY <1>1, <2>1 DEF TurnsInPairs
<1>10. CachedReplyOpensSession'
  <2>1. ASSUME NEW s \in SingleServer, NEW i \in DOMAIN turns'[s], turns'[s][i].role = "agent",
               answer[turns'[s][i].call] = "cache"
        PROVE  i = 2
    <3>1. CASE s # SessionOf[c]
      BY <1>1, <1>2, <2>1, <3>1 DEF HistoryInv, CachedReplyOpensSession
    <3>2. CASE s = SessionOf[c]
      BY <1>4, <1>8, <2>1, <3>2
    <3> QED
      BY <3>1, <3>2
  <2> QED
    BY <1>1, <2>1 DEF CachedReplyOpensSession
<1> QED
  BY <1>9, <1>10

\* Every step keeps the history of a session with one server in order.
LEMMA HistoryStep ==
    ASSUME ExclusiveInv, HistoryInv, [Next]_vars
    PROVE  HistoryInv'
<1>0. TypeOK
  BY DEF ExclusiveInv, IInv
<1>1. TurnInv' /\ AnswerInv' /\ PairInv' /\ CachedInv'
  BY <1>0, TurnStep, PairStep, CachedStep DEF HistoryInv
<1>2. TurnsInPairs' /\ CachedReplyOpensSession'
  <2>1. CASE UNCHANGED vars
    BY <2>1, HistoryKept DEF vars, callVars, storeVars
  <2>2. ASSUME NEW c \in Call, NEW ok \in BOOLEAN, CallStep(c, ok)
        PROVE  TurnsInPairs' /\ CachedReplyOpensSession'
    <3>1. process' = process
      BY <1>0, <2>2, OneCallMoves
    <3>2. CASE turns' = turns
      BY <3>1, <3>2, HistoryKept
    <3>3. CASE turns' # turns
      <4>1. PICK role \in {"buyer", "agent"} :
                /\ turns' = [turns EXCEPT ![SessionOf[c]] = Append(@, [call |-> c, role |-> role])]
                /\ role = "agent" => pc[c] = "addAgent"
                /\ answer' = answer
        BY <1>0, <2>2, <3>3, TurnsOfCall
      <4> DEFINE t == [call |-> c, role |-> role]
      <4>2. /\ t \in Turn /\ t.call = c /\ (t.role = "agent" => pc[c] = "addAgent")
            /\ turns' = [turns EXCEPT ![SessionOf[c]] = Append(@, t)]
        BY <4>1 DEF Turn
      <4> HIDE DEF t
      <4> QED
        BY <3>1, <4>1, <4>2, HistoryAppended
    <3> QED
      BY <3>2, <3>3
  <2>3. ASSUME NEW p \in Process, Crash(p) PROVE TurnsInPairs' /\ CachedReplyOpensSession'
    BY <1>0, <2>3, CrashStep, HistoryKept
  <2> QED
    BY <2>1, <2>2, <2>3, AnyStep
<1> QED
  BY <1>1, <1>2 DEF HistoryInv

\* A session with one server keeps its history in order.
LEMMA HistoryInvariance == Spec => []HistoryInv
<1>1. ASSUME Init PROVE HistoryInv
  <2>1. \A s \in Session : DOMAIN turns[s] = {}
    BY <1>1, NothingIsASequence DEF Init
  <2>2. SingleServer \subseteq Session
    BY DEF SingleServer
  <2>3. \A c \in Call : pc[c] = "arriving" /\ answer[c] = "none"
    BY <1>1 DEF Init
  <2> QED
    BY <2>1, <2>2, <2>3 DEF HistoryInv, TurnInv, AnswerInv, PairInv, CachedInv, TurnsInPairs,
                            CachedReplyOpensSession
<1> QED
  BY <1>1, HistoryStep, ExclusiveInvariance, PTL DEF Spec

\* As long as one process serves a session, nothing comes between a question and
\* its answer in the history, whatever fails.  (the execution lock is held until
\* _record_conversation is over)
THEOREM PairsStandTogether == Spec => []TurnsInPairs
<1>1. HistoryInv => TurnsInPairs
  BY DEF HistoryInv
<1> QED
  BY <1>1, HistoryInvariance, PTL

\* As long as one process serves a session, a cached reply is the first answer
\* of its conversation, never a later one.  (_has_history)
THEOREM CachedReplyOpens == Spec => []CachedReplyOpensSession
<1>1. HistoryInv => CachedReplyOpensSession
  BY DEF HistoryInv
<1> QED
  BY <1>1, HistoryInvariance, PTL

-----------------------------------------------------------------------------
(* What the history shows is remembered                                    *)

Members(q) == {q[i] : i \in DOMAIN q}

\* The members of a sequence with one more element.
LEMMA MembersAppended ==
    ASSUME NEW S, NEW q \in Seq(S), NEW x \in S
    PROVE  Members(Append(q, x)) = Members(q) \union {x}
<1> DEFINE r == Append(q, x)
<1>1. /\ DOMAIN q = 1..Len(q) /\ Len(q) \in Nat
      /\ DOMAIN r = 1..(Len(q) + 1)
      /\ \A i \in 1..Len(q) : r[i] = q[i]
      /\ r[Len(q) + 1] = x
  BY Appended
<1> HIDE DEF r
<1>2. \A i \in DOMAIN r : i \in DOMAIN q \/ i = Len(q) + 1
  BY <1>1
<1>3. \A i \in DOMAIN r : r[i] \in Members(q) \union {x}
  BY <1>1, <1>2 DEF Members
<1>4. \A i \in DOMAIN q : q[i] \in Members(r)
  <2>1. ASSUME NEW i \in DOMAIN q PROVE q[i] \in Members(r)
    <3>1. i \in DOMAIN r /\ r[i] = q[i]
      BY <1>1
    <3> QED
      BY <3>1 DEF Members
  <2> QED
    BY <2>1
<1>5. x \in Members(r)
  <2>1. Len(q) + 1 \in DOMAIN r
    BY <1>1
  <2> QED
    BY <1>1, <2>1 DEF Members
<1>6. Members(r) \subseteq Members(q) \union {x}
  BY <1>3 DEF Members
<1>7. Members(q) \subseteq Members(r)
  BY <1>4 DEF Members
<1>8. Members(r) = Members(q) \union {x}
  BY <1>5, <1>6, <1>7
<1> QED
  BY <1>8 DEF r

\* A session's agent remembers what was saved, and a call that ran the agent is
\* in its state, then in the saved one.
MemoryInv ==
    \A c \in Call : SessionOf[c] \in SingleServer \ forgetful =>
        /\ Registered(c) # None =>
              Members(snapshot[SessionOf[c]].context) \subseteq Members(context[Registered(c)])
        /\ answer[c] = "agent" =>
              /\ pc[c] = "persist" => c \in Members(context[agent[c]])
              /\ pc[c] \in Recording => c \in Members(snapshot[SessionOf[c]].context)

\* The part of it that is about the steps of a call.
Keeps(d) ==
    answer'[d] = "agent" =>
        /\ pc'[d] = "persist" => pc[d] = "persist" /\ answer[d] = "agent" /\ agent'[d] = agent[d]
        /\ pc'[d] \in Recording => pc[d] \in Recording /\ answer[d] = "agent"

\* A step that touches neither agents nor snapshots forgets nothing.
LEMMA MemoryKept ==
    ASSUME MemoryInv, UNCHANGED <<registry, context, snapshot, process>>,
           forgetful \subseteq forgetful', \A d \in Call : Keeps(d)
    PROVE  MemoryInv'
<1>1. SingleServer' = SingleServer
  BY ServersStay
<1>2. \A d \in Call : Registered(d)' = Registered(d)
  BY DEF Registered
<1> QED
  BY <1>1, <1>2 DEF MemoryInv, Keeps

\* The steps that do so.
LEMMA QuietSteps ==
    ASSUME TypeOK, AnswerInv, NEW c \in Call, NEW ok \in BOOLEAN,
           \/ Arrive(c) \/ EnterCreation(c) \/ Acquire(c) \/ LookBack(c, ok) \/ Lookup(c)
           \/ Touch(c, ok) \/ ReadLast(c, ok) \/ AddTurn(c, ok) \/ AddEvents(c, ok)
    PROVE  /\ UNCHANGED <<registry, context, snapshot>>
           /\ \A d \in Call : Keeps(d)
<1>0. /\ pc \in [Call -> Step] /\ answer \in [Call -> {"none", "agent", "cache"}]
  BY DEF TypeOK
<1>1. CallStep(c, ok)
  BY DEF CallStep, StoreStep
<1>2. UNCHANGED <<registry, context, snapshot>>
  BY DEF Arrive, EnterCreation, Acquire, LookBack, Lookup, Touch, ReadLast, AddTurn, AddEvents,
         processVars, storeVars
<1>3. \A d \in Call : d # c => Keeps(d)
  BY <1>1, OneCallMoves DEF Keeps
<1>4. Keeps(c)
  <2>1. pc[c] # "persist" /\ pc[c] # "agent"
    BY DEF Arrive, EnterCreation, Acquire, LookBack, Lookup, Touch, ReadLast, AddTurn, AddEvents
  <2>2. ASSUME pc'[c] = "persist" PROVE answer'[c] # "agent"
    <3>1. pc[c] = "lookup"
      BY <1>1, <2>1, <2>2, Progress
    <3>2. Lookup(c)
      BY <3>1 DEF Arrive, EnterCreation, Acquire, LookBack, Touch, ReadLast, AddTurn, AddEvents
    <3>3. answer' = [answer EXCEPT ![c] = "cache"]
      BY <1>0, <2>2, <3>2 DEF Lookup, Goto
    <3> QED
      BY <1>0, <3>3
  <2>3. ASSUME pc'[c] \in Recording, answer'[c] = "agent" PROVE pc[c] \in Recording /\ answer[c] = "agent"
    <3>1. pc[c] \in Recording
      BY <1>1, <2>1, <2>3, Progress
    <3>2. answer' = answer
      BY <1>1, <3>1, Progress DEF Recording
    <3> QED
      BY <2>3, <3>1, <3>2
  <2> QED
    BY <2>2, <2>3 DEF Keeps
<1> QED
  BY <1>2, <1>3, <1>4

\* The calls that a process serves for a session share its entry.
LEMMA SameEntry ==
    ASSUME NEW c \in Call, NEW d \in Call, SessionOf[d] = SessionOf[c], SessionOf[c] \in SingleServer
    PROVE  process[d] = process[c] /\ Registered(d) = Registered(c)
BY DEF SingleServer, ServedByOne, Registered

\* An agent under construction is nobody's yet.
LEMMA BuiltFresh ==
    ASSUME ExclusiveInv, NEW c \in Call, pc[c] = "restore", NEW d \in Call
    PROVE  Registered(d) # c
<1> USE SessionTurnsAssumption
<1>0. process \in [Call -> Process] /\ SessionOf[d] \in Session /\ c # None
  BY DEF ExclusiveInv, IInv, TypeOK
<1>1. Registered(c) = None
  BY DEF ExclusiveInv, IInv, CreationInv
<1>2. ASSUME Registered(d) = c PROVE FALSE
  <2>1. process[c] = process[d] /\ SessionOf[c] = SessionOf[d]
    BY <1>0, <1>2 DEF ExclusiveInv, RegistryInv, Registered
  <2> QED
    BY <1>0, <1>1, <1>2, <2>1 DEF Registered
<1> QED
  BY <1>2

\* A restored agent remembers what was saved; where the store failed, the
\* session is given up as forgetful.
LEMMA MemoryRestored ==
    ASSUME ExclusiveInv, MemoryInv, NEW c \in Call, NEW ok \in BOOLEAN, Restore(c, ok)
    PROVE  MemoryInv'
<1> USE SessionTurnsAssumption
<1>0. /\ TypeOK /\ pc \in [Call -> Step] /\ agent \in [Call -> Agent \union {None}]
      /\ process \in [Call -> Process] /\ context \in [Agent -> Seq(Call)]
      /\ registry \in [Process -> [Session -> Agent \union {None}]]
      /\ c \in Agent
  BY DEF ExclusiveInv, IInv, TypeOK, Agent
<1>1. /\ UNCHANGED <<process, answer, snapshot>> /\ pc[c] = "restore"
      /\ forgetful' = IF ok THEN forgetful ELSE forgetful \union {SessionOf[c]}
  BY DEF Restore, storeVars
<1>2. SingleServer' = SingleServer
  BY <1>1, ServersStay
<1>3. CASE ok /\ BelongsToAnother(c)
  <2>1. UNCHANGED <<registry, context, agent>> /\ Goto(c, "refused")
    BY <1>3 DEF Restore
  <2>2. \A d \in Call : Keeps(d)
    BY <1>0, <1>1, <2>1 DEF Keeps, Goto, Recording
  <2> QED
    BY <1>1, <2>1, <2>2, MemoryKept
<1>4. CASE ~ (ok /\ BelongsToAnother(c))
  <2>1. PICK q : Build(c, q) /\ (ok => q = Restored(c))
    BY <1>4 DEF Restore
  <2>2. /\ registry' = [registry EXCEPT ![process[c]][SessionOf[c]] = c]
        /\ context' = [context EXCEPT ![c] = q]
        /\ agent' = [agent EXCEPT ![c] = c] /\ pc' = [pc EXCEPT ![c] = "lock"]
    BY <2>1 DEF Build, Goto
  <2>3. ASSUME NEW d \in Call
        PROVE  Registered(d)' = IF process[d] = process[c] /\ SessionOf[d] = SessionOf[c]
                                THEN c ELSE Registered(d)
    BY <1>0, <1>1, <2>2 DEF Registered
  <2>4. ASSUME NEW d \in Call, SessionOf[d] \in SingleServer \ forgetful'
        PROVE  /\ Registered(d)' # None =>
                      Members(snapshot[SessionOf[d]].context) \subseteq Members(context'[Registered(d)'])
               /\ answer[d] = "agent" =>
                      /\ pc'[d] = "persist" => d \in Members(context'[agent'[d]])
                      /\ pc'[d] \in Recording => d \in Members(snapshot[SessionOf[d]].context)
    <3>1. SessionOf[d] \in SingleServer \ forgetful
      BY <1>1, <2>4
    <3>2. CASE SessionOf[d] = SessionOf[c]
      <4>1. ok /\ process[d] = process[c]
        BY <1>1, <2>4, <3>1, <3>2, SameEntry
      <4>2. Registered(d)' = c /\ context'[c] = snapshot[SessionOf[d]].context
        BY <1>0, <2>1, <2>2, <2>3, <3>2, <4>1 DEF Restored
      <4>3. pc'[d] \in Exclusive => d # c /\ pc[d] = pc'[d]
        BY <1>0, <2>2 DEF Exclusive
      <4>4. Registered(d) = None
        BY <1>1, <3>2, <4>1 DEF ExclusiveInv, IInv, CreationInv, Registered
      <4>5. pc'[d] \notin Exclusive
        <5>1. ASSUME pc'[d] \in Exclusive PROVE FALSE
          <6>1. agent[d] = Registered(d) /\ agent[d] \in Agent
            BY <4>3, <5>1 DEF ExclusiveInv, IInv, AgentInv, Exclusive
          <6> QED
            BY <4>4, <6>1 DEF Agent
        <5> QED
          BY <5>1
      <4> QED
        BY <4>2, <4>5 DEF Exclusive, WithAgent, Recording
    <3>3. CASE SessionOf[d] # SessionOf[c]
      <4>1. d # c /\ pc'[d] = pc[d] /\ agent'[d] = agent[d] /\ Registered(d)' = Registered(d)
        BY <1>0, <2>2, <2>3, <3>3
      <4>2. Registered(d) # c /\ Registered(d) \in Agent \union {None}
        BY <1>0, <1>1, BuiltFresh DEF Registered
      <4>3. Registered(d) # None => context'[Registered(d)] = context[Registered(d)]
        BY <1>0, <2>2, <4>2
      <4>4. pc[d] = "persist" => agent[d] = Registered(d) /\ Registered(d) # None
        BY <4>2 DEF ExclusiveInv, IInv, AgentInv, WithAgent, Agent
      <4> QED
        BY <3>1, <4>1, <4>3, <4>4 DEF MemoryInv
    <3> QED
      BY <3>2, <3>3
  <2> QED
    BY <1>1, <1>2, <2>4 DEF MemoryInv
<1> QED
  BY <1>3, <1>4

\* The agent adds to its state and drops nothing.
LEMMA MemoryGrows ==
    ASSUME ExclusiveInv, AnswerInv, MemoryInv, NEW c \in Call, RunAgent(c) \/ AgentRaises(c)
    PROVE  MemoryInv'
<1> USE SessionTurnsAssumption
<1>0. /\ TypeOK /\ pc \in [Call -> Step] /\ context \in [Agent -> Seq(Call)]
      /\ answer \in [Call -> {"none", "agent", "cache"}]
  BY DEF ExclusiveInv, IInv, TypeOK
<1>1. /\ UNCHANGED <<registry, process, agent, snapshot, forgetful>>
      /\ pc[c] = "agent" /\ pc' = [pc EXCEPT ![c] = "persist"]
      /\ context' \in {context, [context EXCEPT ![agent[c]] = Append(@, c)]}
  BY DEF RunAgent, AgentRaises, Goto, storeVars
<1>2. agent[c] \in Agent /\ answer[c] = "none"
  BY <1>1 DEF ExclusiveInv, IInv, AgentInv, AnswerInv, WithAgent, Unanswered
<1>3. context[agent[c]] \in Seq(Call)
  BY <1>0, <1>2
<1>4. Members(Append(context[agent[c]], c)) = Members(context[agent[c]]) \union {c}
  BY <1>3, MembersAppended
<1>5. ASSUME NEW a \in Agent PROVE Members(context[a]) \subseteq Members(context'[a])
  <2>1. context'[a] = context[a] \/ (a = agent[c] /\ context'[a] = Append(context[a], c))
    BY <1>0, <1>1, <1>2
  <2> QED
    BY <1>4, <2>1
<1>6. answer'[c] = "agent" => c \in Members(context'[agent[c]])
  <2>1. CASE AgentRaises(c)
    BY <1>2, <2>1 DEF AgentRaises
  <2>2. CASE RunAgent(c)
    <3>1. context'[agent[c]] = Append(context[agent[c]], c)
      BY <1>0, <1>2, <2>2 DEF RunAgent
    <3> QED
      BY <1>4, <3>1
  <2> QED
    BY <2>1, <2>2
<1>7. SingleServer' = SingleServer
  BY <1>1, ServersStay
<1>8. \A d \in Call : Registered(d)' = Registered(d) /\ Registered(d) \in Agent \union {None}
  BY <1>0, <1>1 DEF Registered, TypeOK
<1>9. \A d \in Call : d # c => pc'[d] = pc[d] /\ answer'[d] = answer[d]
  BY <1>0, <1>1 DEF RunAgent, AgentRaises
<1>10. ASSUME NEW d \in Call, SessionOf[d] \in SingleServer \ forgetful
       PROVE  /\ Registered(d) # None =>
                     Members(snapshot[SessionOf[d]].context) \subseteq Members(context'[Registered(d)])
              /\ answer'[d] = "agent" =>
                     /\ pc'[d] = "persist" => d \in Members(context'[agent[d]])
                     /\ pc'[d] \in Recording => d \in Members(snapshot[SessionOf[d]].context)
  <2>1. Registered(d) # None =>
            Members(snapshot[SessionOf[d]].context) \subseteq Members(context'[Registered(d)])
    BY <1>5, <1>8, <1>10 DEF MemoryInv
  <2>2. CASE d = c
    BY <1>0, <1>1, <1>6, <2>1, <2>2 DEF Recording
  <2>3. CASE d # c
    <3>1. pc[d] = "persist" => agent[d] \in Agent
      BY DEF ExclusiveInv, IInv, AgentInv, WithAgent
    <3> QED
      BY <1>5, <1>9, <1>10, <2>1, <2>3, <3>1 DEF MemoryInv
  <2> QED
    BY <2>2, <2>3
<1> QED
  BY <1>1, <1>7, <1>8, <1>10 DEF MemoryInv

\* What is saved is what the session's agent remembers.
LEMMA SavedIsRegistered ==
    ASSUME ExclusiveInv, NEW c \in Call, Persist(c, TRUE)
    PROVE  /\ agent[c] = Registered(c) /\ agent[c] \in Agent
           /\ snapshot'[SessionOf[c]].context = context[agent[c]]
           /\ \A s \in Session : s # SessionOf[c] => snapshot'[s] = snapshot[s]
<1> USE SessionTurnsAssumption
<1>1. /\ pc[c] = "persist" /\ SessionOf[c] \in Session
      /\ snapshot' = [snapshot EXCEPT ![SessionOf[c]] = Saved(c)]
  BY DEF Persist
<1>2. agent[c] = Registered(c) /\ agent[c] \in Agent
  BY <1>1 DEF ExclusiveInv, IInv, AgentInv, WithAgent
<1>3. snapshot \in [Session -> {NoSnapshot} \union [buyer : Buyer, context : Seq(Call)]]
  BY DEF ExclusiveInv, IInv, TypeOK
<1>4. Saved(c).context = context[agent[c]]
  BY DEF Saved
<1> HIDE DEF Saved, NoSnapshot
<1>5. snapshot'[SessionOf[c]] = Saved(c)
  BY <1>1, <1>3
<1>6. \A s \in Session : s # SessionOf[c] => snapshot'[s] = snapshot[s]
  BY <1>1, <1>3
<1> QED
  BY <1>2, <1>4, <1>5, <1>6

\* A call saves what its agent remembers, its own turn included; where the store
\* failed, the session is given up as forgetful.
LEMMA MemorySaved ==
    ASSUME ExclusiveInv, MemoryInv, NEW c \in Call, NEW ok \in BOOLEAN, Persist(c, ok)
    PROVE  MemoryInv'
<1> USE SessionTurnsAssumption
<1>0. TypeOK /\ pc \in [Call -> Step]
  BY DEF ExclusiveInv, IInv, TypeOK
<1>1. /\ UNCHANGED <<registry, context, process, agent, answer>>
      /\ pc[c] = "persist" /\ pc' = [pc EXCEPT ![c] = "touch"]
      /\ forgetful' = IF ok THEN forgetful ELSE forgetful \union {SessionOf[c]}
      /\ ~ ok => snapshot' = snapshot
  BY DEF Persist, processVars, Goto
<1>2. SingleServer' = SingleServer /\ \A d \in Call : Registered(d)' = Registered(d)
  BY <1>1, ServersStay DEF Registered
<1>3. \A d \in Call : d # c => pc'[d] = pc[d]
  BY <1>0, <1>1
<1>4. ASSUME NEW d \in Call, SessionOf[d] \in SingleServer \ forgetful'
      PROVE  /\ Registered(d) # None =>
                    Members(snapshot'[SessionOf[d]].context) \subseteq Members(context[Registered(d)])
             /\ answer[d] = "agent" =>
                    /\ pc'[d] = "persist" => d \in Members(context[agent[d]])
                    /\ pc'[d] \in Recording => d \in Members(snapshot'[SessionOf[d]].context)
  <2>1. SessionOf[d] \in SingleServer \ forgetful
    BY <1>1, <1>4
  <2>2. CASE SessionOf[d] # SessionOf[c]
    <3>1. snapshot'[SessionOf[d]] = snapshot[SessionOf[d]]
      <4>1. CASE ok
        BY <2>2, <4>1, SavedIsRegistered
      <4>2. CASE ~ ok
        BY <1>1, <4>2
      <4> QED
        BY <4>1, <4>2
    <3> QED
      BY <1>3, <2>1, <2>2, <3>1 DEF MemoryInv
  <2>3. CASE SessionOf[d] = SessionOf[c]
    <3>1. ok
      BY <1>1, <1>4, <2>3
    <3>2. /\ agent[c] = Registered(c)
          /\ snapshot'[SessionOf[d]].context = context[agent[c]]
      BY <2>3, <3>1, SavedIsRegistered
    <3>3. process[d] = process[c] /\ Registered(d) = Registered(c)
      BY <2>1, <2>3, SameEntry
    <3>4. CASE d = c
      <4>1. answer[c] = "agent" => c \in Members(context[agent[c]])
        BY <1>1, <2>1, <3>4 DEF MemoryInv
      <4>2. pc'[d] = "touch"
        BY <1>0, <1>1, <3>4
      <4> QED
        BY <3>2, <3>3, <3>4, <4>1, <4>2
    <3>5. CASE d # c
      <4>1. pc[d] \notin Exclusive
        BY <1>1, <2>3, <3>3, <3>5, Alone DEF ExclusiveInv, IInv, Exclusive, WithAgent
      <4>2. pc'[d] = pc[d] /\ pc[d] \notin Recording /\ pc[d] # "persist"
        BY <1>3, <3>5, <4>1 DEF Exclusive, WithAgent, Recording
      <4> QED
        BY <3>2, <3>3, <4>2
    <3> QED
      BY <3>4, <3>5
  <2> QED
    BY <2>2, <2>3
<1> QED
  BY <1>1, <1>2, <1>4 DEF MemoryInv

\* A crash takes agents away and leaves the saved states.
LEMMA MemoryAfterCrash ==
    ASSUME ExclusiveInv, MemoryInv, NEW p \in Process, Crash(p)
    PROVE  MemoryInv'
<1> USE SessionTurnsAssumption
<1>0. /\ TypeOK /\ pc \in [Call -> Step] /\ process \in [Call -> Process]
      /\ registry \in [Process -> [Session -> Agent \union {None}]]
  BY DEF ExclusiveInv, IInv, TypeOK
<1>1. /\ UNCHANGED <<process, agent, answer, snapshot, forgetful>>
      /\ \A d \in Call : pc'[d] = pc[d] \/ pc'[d] = "crashed"
  BY <1>0, CrashStep
<1>2. SingleServer' = SingleServer
  BY <1>1, ServersStay
<1>3. ASSUME NEW d \in Call, Registered(d)' # None
      PROVE  /\ Registered(d)' = Registered(d) /\ Registered(d) # None
             /\ context'[Registered(d)] = context[Registered(d)]
  <2>1. process[d] # p /\ Registered(d)' = Registered(d)
    BY <1>0, <1>3 DEF Crash, Registered
  <2>2. Registered(d) # None /\ Registered(d) \in Call
    BY <1>0, <1>3, <2>1 DEF Registered, Agent
  <2>3. process[Registered(d)] = process[d]
    BY <1>0, <2>2 DEF ExclusiveInv, RegistryInv, Registered
  <2>4. Registered(d) \notin InProcess(p)
    BY <2>1, <2>3 DEF InProcess
  <2> QED
    BY <2>1, <2>2, <2>4 DEF Crash, Agent
<1>4. ASSUME NEW d \in Call, pc'[d] = "persist"
      PROVE  context'[agent[d]] = context[agent[d]]
  BY <1>0, <1>4, CrashSpares DEF WithAgent, ExclusiveInv, IInv
<1> QED
  BY <1>1, <1>2, <1>3, <1>4 DEF MemoryInv, Recording

\* Every step of a session with one server remembers what its history shows.
LEMMA MemoryStep ==
    ASSUME ExclusiveInv, AnswerInv, MemoryInv, [Next]_vars
    PROVE  MemoryInv'
<1>0. TypeOK
  BY DEF ExclusiveInv, IInv
<1>1. CASE UNCHANGED vars
  BY <1>1, MemoryKept DEF Keeps, vars, processVars, callVars, storeVars
<1>2. ASSUME NEW c \in Call, NEW ok \in BOOLEAN, CallStep(c, ok) PROVE MemoryInv'
  <2>1. CASE Restore(c, ok)
    BY <2>1, MemoryRestored
  <2>2. CASE RunAgent(c) \/ AgentRaises(c)
    BY <2>2, MemoryGrows
  <2>3. CASE Persist(c, ok)
    BY <2>3, MemorySaved
  <2>4. CASE \/ Arrive(c) \/ EnterCreation(c) \/ Acquire(c) \/ LookBack(c, ok) \/ Lookup(c)
             \/ Touch(c, ok) \/ ReadLast(c, ok) \/ AddTurn(c, ok) \/ AddEvents(c, ok)
    <3>1. process' = process /\ forgetful \subseteq forgetful'
      BY <1>0, <1>2, OneCallMoves
    <3>2. UNCHANGED <<registry, context, snapshot>> /\ \A d \in Call : Keeps(d)
      BY <1>0, <2>4, QuietSteps
    <3> QED
      BY <3>1, <3>2, MemoryKept
  <2> QED
    BY <1>2, <2>1, <2>2, <2>3, <2>4 DEF CallStep, StoreStep
<1> QED
  BY <1>1, <1>2, AnyStep, MemoryAfterCrash

\* What is saved of a session still holds what was saved before.
LEMMA SnapshotsGrow ==
    ASSUME ExclusiveInv, MemoryInv, [Next]_vars, NEW s \in SingleServer \ forgetful'
    PROVE  Members(snapshot[s].context) \subseteq Members(snapshot'[s].context)
<1>0. TypeOK /\ s \in Session
  BY DEF ExclusiveInv, IInv, SingleServer
<1>1. CASE snapshot' = snapshot
  BY <1>1
<1>2. ASSUME NEW c \in Call, NEW ok \in BOOLEAN, CallStep(c, ok), snapshot' # snapshot
      PROVE  Members(snapshot[s].context) \subseteq Members(snapshot'[s].context)
  <2>1. Persist(c, ok) /\ ok
    BY <1>2 DEF CallStep, StoreStep, Arrive, EnterCreation, Acquire, LookBack, Lookup, RunAgent, AgentRaises,
                Restore, Persist, Touch, ReadLast, AddTurn, AddEvents, storeVars
  <2>2. /\ agent[c] = Registered(c) /\ agent[c] \in Agent
        /\ snapshot'[SessionOf[c]].context = context[agent[c]]
        /\ s # SessionOf[c] => snapshot'[s] = snapshot[s]
    BY <1>0, <2>1, SavedIsRegistered
  <2>3. s \notin forgetful
    BY <1>0, <1>2, OneCallMoves
  <2>4. CASE s = SessionOf[c]
    <3>1. Registered(c) # None
      BY <2>2, SessionTurnsAssumption DEF Agent
    <3> QED
      BY <2>2, <2>3, <2>4, <3>1 DEF MemoryInv
  <2> QED
    BY <2>2, <2>4
<1>3. ASSUME NEW p \in Process, Crash(p) PROVE snapshot' = snapshot
  BY <1>0, <1>3, CrashStep
<1>4. UNCHANGED vars => snapshot' = snapshot
  BY DEF vars, storeVars
<1> QED
  BY <1>1, <1>2, <1>3, <1>4, AnyStep

\* Every step of a session with one server keeps what its history shows in the
\* saved state.
LEMMA RememberedStep ==
    ASSUME ExclusiveInv, HistoryInv, MemoryInv, RecordedIsRemembered, [Next]_vars
    PROVE  RecordedIsRemembered'
<1> USE SessionTurnsAssumption
<1>0. TypeOK
  BY DEF ExclusiveInv, IInv
<1>1. process' = process /\ forgetful \subseteq forgetful'
  BY <1>0, AnyStep, OneCallMoves, CrashStep DEF vars, callVars
<1>2. SingleServer' = SingleServer /\ SingleServer \subseteq Session
  BY <1>1, ServersStay DEF SingleServer
<1>3. ASSUME NEW s \in SingleServer \ forgetful', NEW i \in DOMAIN turns[s],
             turns[s][i].role = "agent", answer'[turns[s][i].call] = "agent"
      PROVE  turns[s][i].call \in Members(snapshot'[s].context)
  <2>1. turns[s][i].call \in Call /\ pc[turns[s][i].call] \in Settled
    BY <1>2, <1>3 DEF HistoryInv, TurnInv
  <2>2. answer[turns[s][i].call] = "agent"
    BY <1>0, <1>3, <2>1, AnswersStand
  <2>3. turns[s][i].call \in Members(snapshot[s].context)
    BY <1>1, <1>3, <2>2 DEF RecordedIsRemembered, Members
  <2> QED
    BY <1>3, <2>3, SnapshotsGrow
<1>4. ASSUME NEW c \in Call, NEW t \in Turn, NEW ok \in BOOLEAN, CallStep(c, ok),
             t.call = c, t.role = "agent" => pc[c] = "addAgent", answer' = answer,
             turns' = [turns EXCEPT ![SessionOf[c]] = Append(@, t)],
             NEW s \in SingleServer \ forgetful', NEW i \in DOMAIN turns'[s],
             turns'[s][i].role = "agent", answer'[turns'[s][i].call] = "agent"
      PROVE  turns'[s][i].call \in Members(snapshot'[s].context)
  <2>1. CASE s # SessionOf[c]
    <3>1. turns'[s] = turns[s]
      BY <1>0, <1>2, <1>4, <2>1, TurnsAppended
    <3> QED
      BY <1>3, <1>4, <3>1
  <2>2. CASE s = SessionOf[c]
    <3>0. PICK q \in Seq(Turn) : turns[SessionOf[c]] = q /\ turns'[SessionOf[c]] = Append(q, t)
      BY <1>0, <1>4, TurnsAppended
    <3>1. turns[s] = q /\ turns'[s] = Append(q, t)
      BY <2>2, <3>0
    <3>2. /\ DOMAIN q = 1..Len(q) /\ Len(q) \in Nat
          /\ DOMAIN Append(q, t) = 1..(Len(q) + 1)
          /\ \A j \in 1..Len(q) : Append(q, t)[j] = q[j]
          /\ Append(q, t)[Len(q) + 1] = t
      BY Appended
    <3>3. i \in 1..Len(q) \/ i = Len(q) + 1
      BY <1>4, <3>1, <3>2
    <3>4. CASE i \in 1..Len(q)
      <4>1. turns'[s][i] = turns[s][i] /\ i \in DOMAIN turns[s]
        BY <3>1, <3>2, <3>4
      <4> QED
        BY <1>3, <1>4, <4>1
    <3>5. CASE i = Len(q) + 1
      <4>1. turns'[s][i] = t
        BY <3>1, <3>2, <3>5
      <4>2. pc[c] = "addAgent" /\ answer[c] = "agent"
        BY <1>4, <4>1
      <4>3. c \in Members(snapshot[s].context)
        BY <1>1, <1>4, <2>2, <4>2 DEF MemoryInv, Recording
      <4>4. c \in Members(snapshot'[s].context)
        BY <1>4, <4>3, SnapshotsGrow
      <4> QED
        BY <1>4, <4>1, <4>4
    <3> QED
      BY <3>3, <3>4, <3>5
  <2> QED
    BY <2>1, <2>2
<1>5. ASSUME NEW s \in SingleServer \ forgetful', NEW i \in DOMAIN turns'[s],
             turns'[s][i].role = "agent", answer'[turns'[s][i].call] = "agent"
      PROVE  turns'[s][i].call \in Members(snapshot'[s].context)
  <2>1. CASE turns' = turns
    BY <1>3, <1>5, <2>1
  <2>2. CASE turns' # turns
    <3>1. PICK c \in Call, ok \in BOOLEAN : CallStep(c, ok)
      BY <1>0, <2>2, AnyStep, CrashStep DEF vars, storeVars
    <3>2. PICK role \in {"buyer", "agent"} :
              /\ turns' = [turns EXCEPT ![SessionOf[c]] = Append(@, [call |-> c, role |-> role])]
              /\ role = "agent" => pc[c] = "addAgent"
              /\ answer' = answer
      BY <1>0, <2>2, <3>1, TurnsOfCall
    <3> DEFINE t == [call |-> c, role |-> role]
    <3>3. /\ t \in Turn /\ t.call = c /\ (t.role = "agent" => pc[c] = "addAgent")
          /\ turns' = [turns EXCEPT ![SessionOf[c]] = Append(@, t)]
      BY <3>2 DEF Turn
    <3> HIDE DEF t
    <3> QED
      BY <1>4, <1>5, <3>1, <3>2, <3>3
  <2> QED
    BY <2>1, <2>2
<1>6. ASSUME NEW s \in SingleServer \ forgetful', NEW i \in DOMAIN turns'[s],
             turns'[s][i].role = "agent", answer'[turns'[s][i].call] = "agent"
      PROVE  \E j \in DOMAIN snapshot'[s].context : snapshot'[s].context[j] = turns'[s][i].call
  BY <1>5, <1>6 DEF Members
<1> QED
  BY <1>2, <1>6 DEF RecordedIsRemembered

\* What the agent of a session remembers is what its history shows.
RememberInv == HistoryInv /\ MemoryInv /\ RecordedIsRemembered

\* It holds throughout.
LEMMA RememberInvariance == Spec => []RememberInv
<1>1. ASSUME Init PROVE MemoryInv /\ RecordedIsRemembered
  <2>1. \A c \in Call : pc[c] = "arriving" /\ Registered(c) = None
    BY <1>1, SessionTurnsAssumption DEF Init, Registered
  <2>2. \A s \in Session : DOMAIN turns[s] = {}
    BY <1>1, NothingIsASequence DEF Init
  <2> QED
    BY <2>1, <2>2 DEF MemoryInv, RecordedIsRemembered, SingleServer, Recording
<1>2. ExclusiveInv /\ RememberInv /\ [Next]_vars => MemoryInv' /\ RecordedIsRemembered'
  BY MemoryStep, RememberedStep DEF RememberInv, HistoryInv
<1> QED
  BY <1>1, <1>2, HistoryInvariance, ExclusiveInvariance, PTL DEF Spec, RememberInv

\* As long as one process serves a session and its store answers, every turn the
\* history shows as answered by the agent is in the agent's saved state: crashes
\* and restarts, failed recordings and errors of the agent notwithstanding.
\* (persist before _record_conversation, _restore)
THEOREM RecordedTurnsRemembered == Spec => []RecordedIsRemembered
<1>1. RememberInv => RecordedIsRemembered
  BY DEF RememberInv
<1> QED
  BY <1>1, RememberInvariance, PTL

\* Nothing that was saved of a session is lost by a later save.
NothingForgotten ==
    \A s \in SingleServer \ forgetful' :
        Members(snapshot[s].context) \subseteq Members(snapshot'[s].context)

\* As long as one process serves a session and its store answers, no save
\* overwrites the session's state with a shorter memory: a restarted process
\* goes on from what the one before it saved.  (persist, _restore)
THEOREM SavedStateOnlyGrows == Spec => [][NothingForgotten]_vars
<1>1. ExclusiveInv /\ RememberInv /\ [Next]_vars => [NothingForgotten]_vars
  BY SnapshotsGrow DEF RememberInv, NothingForgotten
<1> QED
  BY <1>1, ExclusiveInvariance, RememberInvariance, PTL DEF Spec

=============================================================================
