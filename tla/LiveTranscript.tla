--------------------------- MODULE LiveTranscript ---------------------------
(***************************************************************************)
(* What a buyer reads in one browser tab.  The answer to an intent reaches *)
(* App on two ways: as events, from the worker's bus through the Redis     *)
(* backplane and the API's bus to the WebSocket, and by polling the task   *)
(* status.  The history of the conversation is loaded besides.             *)
(*                                                                         *)
(* The bus publishes each event to Redis in a task of its own, so events   *)
(* may overtake each other and may be lost; what the API has put into the  *)
(* queue of a socket stays in order.  Workers execute an intent again      *)
(* after an error, and may do so after an answer.                          *)
(***************************************************************************)
EXTENDS Naturals, Sequences, SequencesExt

CONSTANTS
    MaxIntents,      \* bound: intents the buyer sends, one after another
    MaxSessions,     \* bound: conversations the buyer starts
    Attempts,        \* how often each intent may be executed
    MaxReloads       \* bound: reloads of the page

ASSUME LiveTranscriptAssumption ==
    /\ MaxIntents \in Nat /\ MaxReloads \in Nat
    /\ MaxSessions \in Nat \ {0}
    /\ Attempts \in [1..MaxIntents -> Nat]

VARIABLES
    \* the page
    session,         \* sessionId
    turns,           \* the transcript
    stream,          \* the texts of which streamingText has tokens
    waiting,         \* where send() is; it is busy unless "no"
    history,         \* where the load of the history is; historyLoading unless "no"
    fetched,         \* the history the API has read for the page
    wire,            \* the events in the queue of the page's socket and on its way
    \* the service
    task,            \* the task of each intent
    attempt,         \* its executions
    publishing,      \* events on their way to the API process
    stored,          \* the recorded turns of each session
    \* bookkeeping
    sent,            \* intents sent so far; the last one is the one waited for
    asked,           \* those sent since the page was loaded or a conversation started
    sessionOf,       \* the session each was sent in
    outcome,         \* the turn with which send() ended for each
    reloads          \* reloads so far

pageVars == <<session, turns, stream, waiting, history, fetched, wire>>
serviceVars == <<task, attempt, publishing, stored>>
bookVars == <<sent, asked, sessionOf, outcome, reloads>>
vars == <<pageVars, serviceVars, bookVars>>

Intent == 1..MaxIntents
Session == 1..MaxSessions

\* Answers of different executions are different texts.
Turn == [role : {"buyer", "agent", "error"}, intent : Intent, attempt : Nat]

Question(i) == [role |-> "buyer", intent |-> i, attempt |-> 0]
Answer(i, n) == [role |-> "agent", intent |-> i, attempt |-> n]
Failure(i) == [role |-> "error", intent |-> i, attempt |-> 0]

Event == [type : {"started", "token", "final"}, intent : Intent, attempt : Nat]

Published(kind, i) == [type |-> kind, intent |-> i, attempt |-> attempt[i]]

Init ==
    /\ session = 1
    /\ turns = <<>>
    /\ stream = {}
    /\ waiting = "no"
    /\ history = "asked"
    /\ fetched = <<>>
    /\ wire = <<>>
    /\ task = [i \in Intent |-> "none"]
    /\ attempt = [i \in Intent |-> 0]
    /\ publishing = {}
    /\ stored = [s \in Session |-> <<>>]
    /\ sent = 0
    /\ asked = {}
    /\ sessionOf = [i \in Intent |-> 1]
    /\ outcome = [i \in Intent |-> Question(i)]
    /\ reloads = 0

-----------------------------------------------------------------------------
(* The page: sending and waiting                                           *)

MaySend == waiting = "no" /\ history = "no"

\* send() appends the question and submits it.
Send ==
    /\ sent < MaxIntents
    /\ MaySend
    /\ sent' = sent + 1
    /\ asked' = asked \union {sent'}
    /\ sessionOf' = [sessionOf EXCEPT ![sent'] = session]
    /\ task' = [task EXCEPT ![sent'] = "requested"]
    /\ turns' = Append(turns, Question(sent'))
    /\ stream' = {}
    /\ waiting' = "response"
    /\ UNCHANGED <<session, history, fetched, wire, attempt, publishing, stored,
                   outcome, reloads>>

\* The task id arrives.
Submitted ==
    /\ waiting = "response"
    /\ task[sent] # "requested"
    /\ waiting' = "status"
    /\ UNCHANGED <<session, turns, stream, history, fetched, wire, serviceVars, bookVars>>

EndWait == waiting' = "no"

\* The catch of send() appends the error as a turn.
ShowFailure(i) ==
    /\ turns' = Append(turns, Failure(i))
    /\ outcome' = [outcome EXCEPT ![i] = Failure(i)]
    /\ EndWait

\* The submission or a poll fails, waitForTask's deadline passes, or the
\* status says that the task failed.
SendFails ==
    /\ \/ waiting = "response"
       \/ waiting = "status"
    /\ ShowFailure(sent)
    /\ UNCHANGED <<session, stream, history, fetched, wire, serviceVars,
                   sent, asked, sessionOf, reloads>>

\* (mutant of WithFinalTurn: any answer at the end is taken for the same one)
WithFirstTurn(shown, turn) ==
    IF shown # <<>> /\ Last(shown).role = "agent" THEN shown ELSE Append(shown, turn)

\* appendFinalTurn: an answer that stands at the end already is not repeated.
WithFinalTurn(shown, turn) ==
    IF shown # <<>> /\ Last(shown) = turn THEN shown ELSE Append(shown, turn)

\* A poll finds the task done.
PollDone ==
    /\ waiting = "status"
    /\ task[sent] = "done"
    /\ turns' = WithFinalTurn(turns, Answer(sent, attempt[sent]))
    /\ outcome' = [outcome EXCEPT ![sent] = Answer(sent, attempt[sent])]
    /\ stream' = {}
    /\ EndWait
    /\ UNCHANGED <<session, history, fetched, wire, serviceVars,
                   sent, asked, sessionOf, reloads>>

-----------------------------------------------------------------------------
(* The page: events                                                        *)

\* The socket closes, and what it carried is gone.  Until connectEventStream
\* has opened another one, events are lost.
Disconnect ==
    /\ wire # <<>>
    /\ wire' = <<>>
    /\ UNCHANGED <<session, turns, stream, waiting, history, fetched, serviceVars, bookVars>>

\* onEvent.
Receive ==
    /\ wire # <<>>
    /\ wire' = Tail(wire)
    /\ LET e == Head(wire)
           text == Answer(e.intent, e.attempt)
       IN  /\ turns' = IF e.type = "final" THEN WithFinalTurn(turns, text) ELSE turns
           /\ stream' = IF e.type = "token" THEN stream \union {text} ELSE {}
    /\ UNCHANGED <<session, waiting, history, fetched, serviceVars, bookVars>>

-----------------------------------------------------------------------------
(* The page: history and conversations                                     *)

\* The API reads the turns of the session.
ReadHistory ==
    /\ history = "asked"
    /\ history' = "answered"
    /\ fetched' = stored[session]
    /\ UNCHANGED <<session, turns, stream, waiting, wire, serviceVars, bookVars>>

\* The history replaces what the page shows.
ShowHistory ==
    /\ history = "answered"
    /\ history' = "no"
    /\ fetched' = <<>>
    /\ turns' = fetched
    /\ UNCHANGED <<session, stream, waiting, wire, serviceVars, bookVars>>

\* The history cannot be loaded.
HistoryFails ==
    /\ history # "no"
    /\ history' = "no"
    /\ fetched' = <<>>
    /\ UNCHANGED <<session, turns, stream, waiting, wire, serviceVars, bookVars>>

\* A page without turns, which loads the history of its session.
FreshPage ==
    /\ turns' = <<>>
    /\ stream' = {}
    /\ history' = "asked"
    /\ fetched' = <<>>
    /\ wire' = <<>>
    /\ asked' = {}
    /\ outcome' = [i \in Intent |-> Question(i)]

\* (mutant of MayStartNew: also while send() waits)
MayStartNewAnytime == history = "no"

\* (the guards of the function and of its button)
MayStartNew == waiting = "no" /\ history = "no"

\* startNewConversation replaces the session.
StartNewConversation ==
    /\ session < MaxSessions
    /\ MayStartNew
    /\ session' = session + 1
    /\ FreshPage
    /\ UNCHANGED <<waiting, serviceVars, sent, sessionOf, reloads>>

\* The buyer reloads the page; the session is kept, a wait is not.
Reload ==
    /\ reloads < MaxReloads
    /\ reloads' = reloads + 1
    /\ FreshPage
    /\ EndWait
    /\ UNCHANGED <<session, serviceVars, sent, sessionOf>>

-----------------------------------------------------------------------------
(* The service                                                             *)

Move(i, state) == task' = [task EXCEPT ![i] = state]

Publish(e) == publishing' = publishing \union {e}

\* The execution lock of the session is not held for another intent.
LockFree(i) ==
    \A j \in Intent \ {i} : task[j] \in {"streaming", "answered"} => sessionOf[j] # sessionOf[i]

Record(i, recorded) ==
    stored' = [stored EXCEPT ![sessionOf[i]] = @ \o recorded]

\* The endpoint enqueues the intent.  (it may never do so)
Accept(i) ==
    /\ task[i] = "requested"
    /\ Move(i, "queued")
    /\ UNCHANGED <<pageVars, attempt, publishing, stored, bookVars>>

\* process_task saves "running" and publishes task.started.
Start(i) ==
    /\ task[i] = "queued"
    /\ attempt[i] < Attempts[i]
    /\ attempt' = [attempt EXCEPT ![i] = @ + 1]
    /\ Publish(Published("started", i)')
    /\ Move(i, "started")
    /\ UNCHANGED <<pageVars, stored, bookVars>>

\* The agent streams a token.  (one stands for all of an execution)
StreamToken(i) ==
    /\ task[i] = "started"
    /\ LockFree(i)
    /\ Publish(Published("token", i))
    /\ Move(i, "streaming")
    /\ UNCHANGED <<pageVars, attempt, stored, bookVars>>

\* handle_intent publishes the final result ...
AnswerIntent(i) ==
    /\ task[i] \in {"started", "streaming"}
    /\ LockFree(i)
    /\ Publish(Published("final", i))
    /\ Move(i, "answered")
    /\ UNCHANGED <<pageVars, attempt, stored, bookVars>>

\* ... and records the turns; then the status becomes "done".  (one step, since
\* the page does not wait and load at a time; a recording that fails is to it
\* like a history that was read too early)
Finish(i) ==
    /\ task[i] = "answered"
    /\ Record(i, <<Question(i), Answer(i, attempt[i])>>)
    /\ Move(i, "done")
    /\ UNCHANGED <<pageVars, attempt, publishing, bookVars>>

\* The agent raises: the buyer's turn is recorded and the task comes again.
Raise(i) ==
    /\ task[i] \in {"started", "streaming"}
    /\ LockFree(i)
    /\ Record(i, <<Question(i)>>)
    /\ Move(i, "queued")
    /\ UNCHANGED <<pageVars, attempt, publishing, bookVars>>

\* The task is delivered again although it was answered: its status was not
\* saved or its entry not acknowledged.
Redeliver(i) ==
    /\ task[i] = "done"
    /\ attempt[i] < Attempts[i]
    /\ Move(i, "queued")
    /\ UNCHANGED <<pageVars, attempt, publishing, stored, bookVars>>

\* A publish task ends: the event is lost, in Redis or because the page has no
\* socket, or the API puts it into the queue of the socket of its session.
Forward(e) ==
    /\ publishing' = publishing \ {e}
    /\ \/ UNCHANGED wire
       \/ /\ sessionOf[e.intent] = session
          /\ wire' = Append(wire, e)
    /\ UNCHANGED <<session, turns, stream, waiting, history, fetched,
                   task, attempt, stored, bookVars>>

Serve(i) ==
    \/ Accept(i)
    \/ Start(i)
    \/ StreamToken(i)
    \/ AnswerIntent(i)
    \/ Finish(i)
    \/ Raise(i)
    \/ Redeliver(i)

AwaitAnswer == Submitted \/ SendFails \/ PollDone
LoadHistory == ReadHistory \/ ShowHistory \/ HistoryFails

Next ==
    \/ Send
    \/ AwaitAnswer
    \/ Disconnect
    \/ Receive
    \/ LoadHistory
    \/ StartNewConversation
    \/ Reload
    \/ \E i \in Intent : Serve(i)
    \/ \E e \in publishing : Forward(e)

Spec == Init /\ [][Next]_vars

-----------------------------------------------------------------------------
(* Properties                                                              *)

Working == {"queued", "started", "streaming", "answered", "done"}

\* The types: what each variable can hold.
TypeOK ==
    /\ session \in Session
    /\ turns \in Seq(Turn)
    /\ stream \subseteq Turn
    /\ waiting \in {"no", "response", "status"}
    /\ history \in {"no", "asked", "answered"}
    /\ fetched \in Seq(Turn)
    /\ wire \in Seq(Event)
    /\ task \in [Intent -> Working \union {"none", "requested"}]
    /\ attempt \in [Intent -> Nat]
    /\ publishing \subseteq Event
    /\ stored \in [Session -> Seq(Turn)]
    /\ sent \in 0..MaxIntents
    /\ asked \subseteq 1..sent
    /\ sessionOf \in [Intent -> Session]
    /\ outcome \in [Intent -> Turn]
    /\ reloads \in Nat
    /\ waiting # "no" => sent \in asked

\* The page shows nothing of another conversation, streamed or not.
\* (startNewConversation, the cleanups of the effects)
OneConversation ==
    /\ \A n \in DOMAIN turns : sessionOf[turns[n].intent] = session
    /\ \A text \in stream : sessionOf[text.intent] = session

\* What the buyer asked on this page stands there once, whatever history,
\* events and polls do to the transcript, and when the page no longer waits for
\* an intent, the answer its task ended with, or an error, stands below the
\* question.  (the guards of send, appendFinalTurn)
QuestionsKept ==
    \A i \in asked : \E n \in DOMAIN turns :
        /\ turns[n] = Question(i)
        /\ \A m \in DOMAIN turns : turns[m] = Question(i) => m = n
AnswerShown ==
    \A i \in asked : waiting = "no" \/ i # sent =>
        /\ outcome[i] # Question(i)
        /\ \E m, n \in DOMAIN turns : m < n /\ turns[m] = Question(i) /\ turns[n] = outcome[i]
AnswersStandBelowQuestions == QuestionsKept /\ AnswerShown

-----------------------------------------------------------------------------
(* A statement of the documentation                                        *)

\* The answer of an execution stands on the page once.  ("deduplicates the
\* final reply if both WebSocket and polling deliver it")
FinalReplyOnce ==
    \A m, n \in DOMAIN turns : turns[m].role = "agent" /\ turns[m] = turns[n] => m = n

=============================================================================
