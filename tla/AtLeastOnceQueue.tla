------------------------- MODULE AtLeastOnceQueue -------------------------
(***************************************************************************)
(* What the worker side of the task queue promises, without streams,       *)
(* consumer groups, status records or worker processes: a message that was *)
(* accepted is handed out one or more times, and it leaves the queue only  *)
(* when it has an outcome, an answer or a dead letter.  Once it has left   *)
(* it is never handed out again.  TaskDelivery implements this module.     *)
(***************************************************************************)
EXTENDS Naturals, FiniteSets

CONSTANT Message      \* the messages that may be submitted

VARIABLES
    accepted,         \* messages the queue has taken responsibility for
    attempts,         \* how often each message has been handed out
    outcome,          \* what became of it: answered, buried, or both
    settled           \* messages the queue has let go of

vars == <<accepted, attempts, outcome, settled>>

Outcome == {"answered", "buried"}

Init ==
    /\ accepted = {}
    /\ attempts = [m \in Message |-> 0]
    /\ outcome = [m \in Message |-> {}]
    /\ settled = {}

Accept(m) ==
    /\ m \notin accepted
    /\ accepted' = accepted \union {m}
    /\ UNCHANGED <<attempts, outcome, settled>>

\* One read hands out a batch; nothing that was let go of is in it.
Deliver(batch) ==
    /\ batch # {}
    /\ batch \subseteq accepted \ settled
    /\ attempts' = [m \in Message |->
                       IF m \in batch THEN attempts[m] + 1 ELSE attempts[m]]
    /\ UNCHANGED <<accepted, outcome, settled>>

\* An outcome is recorded for a message that was handed out at least once.
Conclude(m, o) ==
    /\ attempts[m] > 0
    /\ outcome' = [outcome EXCEPT ![m] = @ \union {o}]
    /\ UNCHANGED <<accepted, attempts, settled>>

\* Letting go of a message needs an outcome.
Settle(m) ==
    /\ m \in accepted \ settled
    /\ attempts[m] > 0
    /\ outcome[m] # {}
    /\ settled' = settled \union {m}
    /\ UNCHANGED <<accepted, attempts, outcome>>

Next ==
    \/ \E m \in Message : Accept(m) \/ Settle(m)
    \/ \E m \in Message, o \in Outcome : Conclude(m, o)
    \/ \E batch \in SUBSET Message : Deliver(batch)

Spec == Init /\ [][Next]_vars

-----------------------------------------------------------------------------
\* The liveness half of the promise: what was accepted is let go of in the end.
EventuallySettled == \A m \in Message : m \in accepted ~> m \in settled

=============================================================================
