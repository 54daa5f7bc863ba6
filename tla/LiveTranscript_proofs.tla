------------------------ MODULE LiveTranscript_proofs ------------------------
(***************************************************************************)
(* Proofs about LiveTranscript, for any number of intents, conversations,  *)
(* executions, reloads and events on their way: what the page shows is of  *)
(* its conversation, keeps the buyer's questions, puts every answer below  *)
(* its question and repeats none at once.                                  *)
(***************************************************************************)
EXTENDS LiveTranscript, TLAPS

-----------------------------------------------------------------------------
(* The inductive invariant                                                 *)

\* The intents sent in a session so far.
OfSession(s) == {i \in 1..sent : sessionOf[i] = s}

\* What a list of turns or events is about.
About(q, I) == \A n \in DOMAIN q : q[n].intent \in I

\* All that is on the page, or about to get there, is of its session; while it
\* loads a history the buyer has not asked anything.
PageInv ==
    /\ About(turns, OfSession(session))
    /\ About(fetched, OfSession(session))
    /\ About(wire, OfSession(session))
    /\ \A text \in stream : text.intent \in OfSession(session)
    /\ asked \subseteq OfSession(session)
    /\ history # "no" => asked = {}

\* The service knows the intents that were sent, and records each in its session.
ServiceInv ==
    /\ \A s \in Session : About(stored[s], OfSession(s))
    /\ \A e \in publishing : e.intent \in 1..sent
    /\ \A i \in Intent : task[i] # "none" => i \in 1..sent

IInv == TypeOK /\ PageInv /\ ServiceInv /\ AnswersStandBelowQuestions

-----------------------------------------------------------------------------
(* Turns and lists of them                                                 *)

\* What the turns of an intent are.
LEMMA TurnsOfIntent ==
    ASSUME NEW i \in Intent, NEW n \in Nat
    PROVE  /\ Question(i) \in Turn /\ Question(i).role = "buyer" /\ Question(i).intent = i
           /\ Answer(i, n) \in Turn /\ Answer(i, n).role = "agent" /\ Answer(i, n).intent = i
           /\ Failure(i) \in Turn /\ Failure(i).role = "error" /\ Failure(i).intent = i
BY DEF Turn, Question, Answer, Failure

\* A question is one of its intent.
LEMMA QuestionsDiffer ==
    ASSUME NEW i, NEW t, t.role # "buyer" \/ t.intent # i
    PROVE  t # Question(i)
BY DEF Question

\* What an event of an intent is.
LEMMA EventsOfIntent ==
    ASSUME NEW i \in Intent, NEW n \in Nat, NEW kind \in {"started", "token", "final"}
    PROVE  /\ [type |-> kind, intent |-> i, attempt |-> n] \in Event
           /\ [type |-> kind, intent |-> i, attempt |-> n].intent = i
BY DEF Event

\* A list with one more element.
LEMMA OneMore ==
    ASSUME NEW S, NEW q \in Seq(S), NEW x \in S
    PROVE  /\ Append(q, x) \in Seq(S) /\ Len(Append(q, x)) = Len(q) + 1
           /\ DOMAIN Append(q, x) = 1..(Len(q) + 1)
           /\ \A n \in DOMAIN q : Append(q, x)[n] = q[n] /\ n \in DOMAIN Append(q, x)
           /\ Append(q, x)[Len(q) + 1] = x
OBVIOUS

\* It is about what it was about.
LEMMA AboutMore ==
    ASSUME NEW S, NEW q \in Seq(S), NEW x \in S, NEW I, About(q, I), x.intent \in I
    PROVE  About(Append(q, x), I)
BY DEF About

\* A list is about what a smaller set holds.
LEMMA AboutWider ==
    ASSUME NEW q, NEW I, NEW J, About(q, I), I \subseteq J
    PROVE  About(q, J)
BY DEF About

\* The rest of a list.
LEMMA AboutRest ==
    ASSUME NEW S, NEW q \in Seq(S), q # <<>>, NEW I, About(q, I)
    PROVE  /\ Tail(q) \in Seq(S) /\ Head(q) \in S
           /\ About(Tail(q), I) /\ Head(q).intent \in I
BY DEF About

\* Two lists, one after the other.
LEMMA AboutBoth ==
    ASSUME NEW S, NEW q \in Seq(S), NEW r \in Seq(S), NEW I, About(q, I), About(r, I)
    PROVE  q \o r \in Seq(S) /\ About(q \o r, I)
BY DEF About

\* The question of an intent stands there once.
Asks(q, i) ==
    \E n \in DOMAIN q : q[n] = Question(i) /\ \A m \in DOMAIN q : q[m] = Question(i) => m = n

\* A turn stands below the question of an intent.
Stands(q, i, x) == \E m, n \in DOMAIN q : m < n /\ q[m] = Question(i) /\ q[n] = x

\* Another turn does not change that.
LEMMA AsksMore ==
    ASSUME NEW q \in Seq(Turn), NEW x \in Turn, NEW i, Asks(q, i), x # Question(i)
    PROVE  Asks(Append(q, x), i)
BY OneMore DEF Asks

\* A new question stands at the end.
LEMMA AsksNow ==
    ASSUME NEW q \in Seq(Turn), NEW i, Question(i) \in Turn,
           \A n \in DOMAIN q : q[n] # Question(i)
    PROVE  Asks(Append(q, Question(i)), i)
BY OneMore DEF Asks

\* What stands below a question stays there.
LEMMA StandsMore ==
    ASSUME NEW q \in Seq(Turn), NEW x \in Turn, NEW i, NEW y, Stands(q, i, y)
    PROVE  Stands(Append(q, x), i, y)
BY OneMore DEF Stands

\* A new turn stands below all questions.
LEMMA StandsNow ==
    ASSUME NEW q \in Seq(Turn), NEW x \in Turn, NEW i, Asks(q, i)
    PROVE  Stands(Append(q, x), i, x)
BY OneMore DEF Stands, Asks

-----------------------------------------------------------------------------
(* Types                                                                   *)

\* The transcript with a final turn is a transcript.
LEMMA FinalTurnType ==
    ASSUME NEW q \in Seq(Turn), NEW x \in Turn
    PROVE  /\ WithFinalTurn(q, x) \in Seq(Turn)
           /\ \/ WithFinalTurn(q, x) = q /\ q # <<>> /\ q[Len(q)] = x
              \/ WithFinalTurn(q, x) = Append(q, x) /\ (q # <<>> => q[Len(q)] # x)
BY OneMore DEF WithFinalTurn, Last

\* The intent the page waits for was sent.
LEMMA Awaited ==
    ASSUME TypeOK, waiting # "no"
    PROVE  sent \in Intent /\ sent \in asked /\ attempt[sent] \in Nat
BY LiveTranscriptAssumption DEF TypeOK, Intent

\* What the page does keeps the types.
LEMMA PageType ==
    ASSUME TypeOK,
           Send \/ AwaitAnswer \/ Disconnect \/ Receive \/ LoadHistory
           \/ StartNewConversation \/ Reload
    PROVE  TypeOK'
<1>1. CASE Send
  <2>1. sent' \in Intent /\ sent' \in 1..MaxIntents /\ sent' = sent + 1 /\ sent \in Nat
    BY <1>1, LiveTranscriptAssumption DEF Send, TypeOK, Intent
  <2>2. Question(sent') \in Turn
    BY <2>1, TurnsOfIntent
  <2>3. turns' \in Seq(Turn)
    BY <1>1, <2>2 DEF Send, TypeOK
  <2> QED
    BY <1>1, <2>1, <2>3 DEF Send, TypeOK
<1>2. CASE Submitted
  BY <1>2 DEF Submitted, TypeOK, serviceVars, bookVars
<1>3. CASE SendFails
  <2>1. sent \in Intent /\ Failure(sent) \in Turn
    BY <1>3, Awaited, TurnsOfIntent DEF SendFails
  <2>2. turns' \in Seq(Turn) /\ outcome' \in [Intent -> Turn]
    BY <1>3, <2>1 DEF SendFails, ShowFailure, TypeOK
  <2> QED
    BY <1>3, <2>2 DEF SendFails, ShowFailure, EndWait, TypeOK, serviceVars
<1>4. CASE PollDone
  <2>1. sent \in Intent /\ Answer(sent, attempt[sent]) \in Turn
    BY <1>4, Awaited, TurnsOfIntent DEF PollDone
  <2>2. turns' \in Seq(Turn) /\ outcome' \in [Intent -> Turn]
    BY <1>4, <2>1, FinalTurnType DEF PollDone, TypeOK
  <2> QED
    BY <1>4, <2>2 DEF PollDone, EndWait, TypeOK, serviceVars
<1>5. CASE Disconnect
  BY <1>5 DEF Disconnect, TypeOK, serviceVars, bookVars
<1>6. CASE Receive
  <2>1. Head(wire) \in Event /\ Tail(wire) \in Seq(Event)
    BY <1>6 DEF Receive, TypeOK
  <2>2. Answer(Head(wire).intent, Head(wire).attempt) \in Turn
    BY <2>1, TurnsOfIntent DEF Event
  <2>3. turns' \in Seq(Turn) /\ stream' \subseteq Turn /\ wire' \in Seq(Event)
    BY <1>6, <2>1, <2>2, FinalTurnType DEF Receive, TypeOK
  <2> QED
    BY <1>6, <2>3 DEF Receive, TypeOK, serviceVars, bookVars
<1>7. CASE LoadHistory
  <2>1. stored[session] \in Seq(Turn) /\ fetched \in Seq(Turn) /\ <<>> \in Seq(Turn)
    BY DEF TypeOK
  <2>2. /\ turns' \in Seq(Turn) /\ fetched' \in Seq(Turn)
        /\ history' \in {"no", "asked", "answered"}
        /\ UNCHANGED <<session, stream, waiting, wire, serviceVars, bookVars>>
    BY <1>7, <2>1 DEF LoadHistory, ReadHistory, ShowHistory, HistoryFails, TypeOK
  <2> QED
    BY <2>2 DEF TypeOK, serviceVars, bookVars
<1>8. CASE StartNewConversation \/ Reload
  <2>1. \A i \in Intent : Question(i) \in Turn
    BY TurnsOfIntent
  <2>2. FreshPage
    BY <1>8 DEF StartNewConversation, Reload
  <2>3. outcome' \in [Intent -> Turn] /\ turns' = <<>> /\ fetched' = <<>> /\ wire' = <<>>
    BY <2>1, <2>2 DEF FreshPage
  <2>4. session' \in Session /\ waiting' = "no" /\ reloads' \in Nat
    <3>1. session \in 1..MaxSessions /\ reloads \in Nat
      BY DEF TypeOK, Session
    <3>2. CASE StartNewConversation
      BY <3>1, <3>2, LiveTranscriptAssumption DEF StartNewConversation, MayStartNew, Session
    <3>3. CASE Reload
      BY <3>1, <3>3 DEF Reload, EndWait, Session
    <3> QED
      BY <1>8, <3>2, <3>3
  <2>5. UNCHANGED <<serviceVars, sent, sessionOf>>
    BY <1>8 DEF StartNewConversation, Reload
  <2> QED
    BY <2>2, <2>3, <2>4, <2>5 DEF FreshPage, TypeOK, serviceVars
<1> QED
  BY <1>1, <1>2, <1>3, <1>4, <1>5, <1>6, <1>7, <1>8 DEF AwaitAnswer

\* What the service does for an intent: to its task, its executions, the events
\* on their way and the turns of its session.
LEMMA ServeStep ==
    ASSUME TypeOK, NEW i \in Intent, Serve(i)
    PROVE  /\ UNCHANGED <<pageVars, bookVars>>
           /\ task[i] # "none" /\ \E state \in Working : task' = [task EXCEPT ![i] = state]
           /\ attempt' \in [Intent -> Nat]
           /\ \A e \in publishing' : e \in publishing \/ (e \in Event /\ e.intent = i)
           /\ \/ UNCHANGED stored
              \/ \E recorded \in Seq(Turn) :
                    /\ stored' = [stored EXCEPT ![sessionOf[i]] = @ \o recorded]
                    /\ About(recorded, {i})
<1> USE DEF Move, Publish, Record, Published
<1>1. attempt[i] \in Nat /\ attempt \in [Intent -> Nat]
  BY DEF TypeOK
<1>2. CASE Accept(i) \/ Redeliver(i)
  BY <1>1, <1>2 DEF Accept, Redeliver, Working
<1>3. CASE Start(i)
  <2>1. attempt' \in [Intent -> Nat] /\ attempt'[i] \in Nat
    BY <1>1, <1>3 DEF Start
  <2>2. /\ [type |-> "started", intent |-> i, attempt |-> attempt'[i]] \in Event
        /\ [type |-> "started", intent |-> i, attempt |-> attempt'[i]].intent = i
    BY <2>1, EventsOfIntent
  <2>3. publishing' = publishing \union {[type |-> "started", intent |-> i, attempt |-> attempt'[i]]}
    BY <1>3 DEF Start
  <2> QED
    BY <1>3, <2>1, <2>2, <2>3 DEF Start, Working
<1>4. CASE StreamToken(i)
  <2>1. /\ [type |-> "token", intent |-> i, attempt |-> attempt[i]] \in Event
        /\ [type |-> "token", intent |-> i, attempt |-> attempt[i]].intent = i
    BY <1>1, EventsOfIntent
  <2> QED
    BY <1>1, <1>4, <2>1 DEF StreamToken, Working
<1>5. CASE AnswerIntent(i)
  <2>1. /\ [type |-> "final", intent |-> i, attempt |-> attempt[i]] \in Event
        /\ [type |-> "final", intent |-> i, attempt |-> attempt[i]].intent = i
    BY <1>1, EventsOfIntent
  <2> QED
    BY <1>1, <1>5, <2>1 DEF AnswerIntent, Working
<1>6. CASE Finish(i)
  <2> DEFINE recorded == <<Question(i), Answer(i, attempt[i])>>
  <2>1. recorded \in Seq(Turn) /\ About(recorded, {i})
    BY <1>1, TurnsOfIntent DEF About
  <2>2. stored' = [stored EXCEPT ![sessionOf[i]] = @ \o recorded]
    BY <1>6 DEF Finish
  <2> HIDE DEF recorded
  <2> QED
    BY <1>1, <1>6, <2>1, <2>2 DEF Finish, Working
<1>7. CASE Raise(i)
  <2> DEFINE recorded == <<Question(i)>>
  <2>1. recorded \in Seq(Turn) /\ About(recorded, {i})
    BY TurnsOfIntent, 0 \in Nat DEF About
  <2>2. stored' = [stored EXCEPT ![sessionOf[i]] = @ \o recorded]
    BY <1>7 DEF Raise
  <2> HIDE DEF recorded
  <2> QED
    BY <1>1, <1>7, <2>1, <2>2 DEF Raise, Working
<1> QED
  BY <1>2, <1>3, <1>4, <1>5, <1>6, <1>7 DEF Serve

\* What the service does keeps the types.
LEMMA ServiceType ==
    ASSUME TypeOK, NEW i \in Intent, Serve(i)
    PROVE  TypeOK'
<1>1. /\ UNCHANGED <<pageVars, bookVars>> /\ attempt' \in [Intent -> Nat]
      /\ \A e \in publishing' : e \in publishing \/ e \in Event
  BY ServeStep
<1>2. task' \in [Intent -> Working \union {"none", "requested"}]
  <2>1. task \in [Intent -> Working \union {"none", "requested"}]
    BY DEF TypeOK
  <2>2. PICK state \in Working : task' = [task EXCEPT ![i] = state]
    BY ServeStep
  <2> QED
    BY <2>1, <2>2
<1>3. stored' \in [Session -> Seq(Turn)]
  <2>1. CASE UNCHANGED stored
    BY <2>1 DEF TypeOK
  <2>2. ASSUME NEW recorded \in Seq(Turn),
               stored' = [stored EXCEPT ![sessionOf[i]] = @ \o recorded]
        PROVE  stored' \in [Session -> Seq(Turn)]
    <3> DEFINE longer == stored[sessionOf[i]] \o recorded
    <3>1. stored \in [Session -> Seq(Turn)] /\ sessionOf[i] \in Session
      BY DEF TypeOK
    <3>2. stored[sessionOf[i]] \in Seq(Turn)
      BY <3>1
    <3>3. longer \in Seq(Turn)
      BY <3>2
    <3>4. stored' = [stored EXCEPT ![sessionOf[i]] = longer]
      BY <2>2
    <3> HIDE DEF longer
    <3> QED
      BY <3>1, <3>3, <3>4
  <2> QED
    BY <2>1, <2>2, ServeStep
<1> QED
  BY <1>1, <1>2, <1>3 DEF TypeOK, pageVars, bookVars

\* An event ends its way, at the page's socket or nowhere.
LEMMA ForwardType ==
    ASSUME TypeOK, NEW e \in publishing, Forward(e)
    PROVE  TypeOK'
<1>1. wire' \in Seq(Event)
  <2>1. e \in Event /\ wire \in Seq(Event)
    BY DEF TypeOK
  <2>2. Append(wire, e) \in Seq(Event)
    BY <2>1, OneMore
  <2>3. wire' = wire \/ wire' = Append(wire, e)
    BY DEF Forward
  <2> QED
    BY <2>1, <2>2, <2>3
<1> QED
  BY <1>1 DEF Forward, TypeOK, bookVars

-----------------------------------------------------------------------------
(* The page and its conversation                                           *)

\* The intents of a session stay.
LEMMA SessionsKept ==
    ASSUME UNCHANGED <<sent, sessionOf>>
    PROVE  \A s : OfSession(s)' = OfSession(s)
BY DEF OfSession

\* The intent the page waits for was sent in its session.
LEMMA AwaitedHere ==
    ASSUME TypeOK, PageInv, waiting # "no"
    PROVE  /\ sent \in Intent /\ sent \in asked /\ sent \in OfSession(session)
           /\ attempt[sent] \in Nat /\ history = "no"
BY Awaited DEF PageInv

\* A question is sent.
LEMMA SendHere ==
    ASSUME TypeOK, PageInv, ServiceInv, Send
    PROVE  PageInv' /\ ServiceInv'
<1>1. /\ sent \in Nat /\ sent' = sent + 1 /\ sent' \in Intent
      /\ session \in Session /\ session' = session
      /\ sessionOf' = [sessionOf EXCEPT ![sent'] = session]
      /\ sessionOf \in [Intent -> Session]
  BY LiveTranscriptAssumption DEF Send, TypeOK, Intent
<1>2. /\ \A s : OfSession(s) \subseteq OfSession(s)'
      /\ sent' \in OfSession(session)'
  BY <1>1 DEF OfSession, Intent
<1>3. /\ Question(sent') \in Turn /\ Question(sent').intent = sent' /\ turns \in Seq(Turn)
      /\ turns' = Append(turns, Question(sent')) /\ stream' = {}
      /\ asked' = asked \union {sent'} /\ history' = "no"
      /\ UNCHANGED <<fetched, wire, stored, publishing>>
  BY <1>1, TurnsOfIntent, 0 \in Nat DEF Send, MaySend, TypeOK
<1>4. PICK I, J : I = OfSession(session) /\ J = OfSession(session)' /\ I \subseteq J
  BY <1>1, <1>2
<1>5. About(turns, I) /\ About(fetched, I) /\ About(wire, I) /\ asked \subseteq I
  BY <1>4 DEF PageInv
<1>6. About(turns', J) /\ About(fetched', J) /\ About(wire', J)
  <2>1. About(turns, J) /\ About(fetched, J) /\ About(wire, J)
    BY <1>4, <1>5, AboutWider
  <2>2. About(Append(turns, Question(sent')), J)
    BY <1>2, <1>3, <1>4, <2>1, AboutMore
  <2> QED
    BY <1>3, <2>1, <2>2
<1>7. PageInv'
  BY <1>1, <1>2, <1>3, <1>4, <1>5, <1>6 DEF PageInv
<1>8. ASSUME NEW s \in Session PROVE About(stored'[s], OfSession(s)')
  BY <1>2, <1>3, AboutWider DEF ServiceInv
<1>9. \A i \in Intent : task'[i] # "none" => i \in 1..sent'
  BY <1>1 DEF Send, ServiceInv, TypeOK
<1> QED
  BY <1>1, <1>3, <1>7, <1>8, <1>9 DEF ServiceInv

\* What else the page does keeps it to its conversation.
LEMMA PageHere ==
    ASSUME TypeOK, PageInv, ServiceInv,
           AwaitAnswer \/ Disconnect \/ Receive \/ LoadHistory \/ StartNewConversation \/ Reload
    PROVE  PageInv' /\ ServiceInv'
<1>1. UNCHANGED <<serviceVars, sent, sessionOf>>
  BY DEF AwaitAnswer, Submitted, SendFails, PollDone, Disconnect, Receive, LoadHistory,
     ReadHistory, ShowHistory, HistoryFails, StartNewConversation, Reload, bookVars
<1>2. \A s : OfSession(s)' = OfSession(s)
  BY <1>1, SessionsKept
<1>3. ServiceInv'
  BY <1>1, <1>2 DEF ServiceInv, serviceVars
<1>4. PICK I : I = OfSession(session)
  OBVIOUS
<1>5. /\ About(turns, I) /\ About(fetched, I) /\ About(wire, I) /\ asked \subseteq I
      /\ \A text \in stream : text.intent \in I
      /\ turns \in Seq(Turn) /\ wire \in Seq(Event)
  BY <1>4 DEF PageInv, TypeOK
<1>6. CASE AwaitAnswer
  <2>1. /\ UNCHANGED <<session, fetched, wire, asked, history>>
        /\ stream' \subseteq stream
    BY <1>6 DEF AwaitAnswer, Submitted, SendFails, PollDone, bookVars
  <2>2. About(turns', I)
    <3>1. CASE Submitted
      BY <1>5, <3>1 DEF Submitted
    <3>2. CASE SendFails
      <4>1. Failure(sent) \in Turn /\ Failure(sent).intent \in I
        BY <1>4, <3>2, AwaitedHere, TurnsOfIntent DEF SendFails
      <4>2. turns' = Append(turns, Failure(sent))
        BY <3>2 DEF SendFails, ShowFailure
      <4> QED
        BY <1>5, <4>1, <4>2, AboutMore
    <3>3. CASE PollDone
      <4>1. /\ Answer(sent, attempt[sent]) \in Turn
            /\ Answer(sent, attempt[sent]).intent \in I
        BY <1>4, <3>3, AwaitedHere, TurnsOfIntent DEF PollDone
      <4>2. turns' = turns \/ turns' = Append(turns, Answer(sent, attempt[sent]))
        BY <3>3, <1>5, <4>1, FinalTurnType DEF PollDone
      <4> QED
        BY <1>5, <4>1, <4>2, AboutMore
    <3> QED
      BY <1>6, <3>1, <3>2, <3>3 DEF AwaitAnswer
  <2> QED
    BY <1>2, <1>3, <1>4, <1>5, <2>1, <2>2 DEF PageInv
<1>7. CASE Disconnect
  <2>1. About(<<>>, I)
    BY DEF About
  <2> QED
    BY <1>2, <1>3, <1>4, <1>5, <1>7, <2>1 DEF PageInv, Disconnect, bookVars
<1>8. CASE Receive
  <2> DEFINE e == Head(wire)
             text == Answer(e.intent, e.attempt)
  <2>1. wire # <<>> /\ e \in Event /\ e.intent \in I /\ About(wire', I)
    BY <1>5, <1>8, AboutRest DEF Receive
  <2>2. text \in Turn /\ text.intent = e.intent
    BY <2>1, TurnsOfIntent DEF Event
  <2>3. turns' \in {turns, WithFinalTurn(turns, text)} /\ stream' \subseteq stream \union {text}
    BY <1>8 DEF Receive
  <2> HIDE DEF text, e
  <2>4. turns' = turns \/ turns' = Append(turns, text)
    BY <1>5, <2>2, <2>3, FinalTurnType
  <2>5. About(turns', I)
    BY <1>5, <2>1, <2>2, <2>4, AboutMore
  <2>6. UNCHANGED <<session, fetched, asked, history>>
    BY <1>8 DEF Receive, bookVars
  <2>7. \A t \in stream' : t.intent \in I
    BY <1>5, <2>1, <2>2, <2>3
  <2> QED
    BY <1>2, <1>3, <1>4, <1>5, <2>1, <2>5, <2>6, <2>7 DEF PageInv
<1>9. CASE LoadHistory
  <2>1. About(stored[session], I) /\ About(<<>>, I)
    BY <1>4 DEF ServiceInv, TypeOK, About
  <2>2. About(turns', I) /\ About(fetched', I)
    BY <1>5, <1>9, <2>1 DEF LoadHistory, ReadHistory, ShowHistory, HistoryFails
  <2>3. UNCHANGED <<session, stream, wire, asked>> /\ (history' # "no" => history # "no")
    BY <1>9 DEF LoadHistory, ReadHistory, ShowHistory, HistoryFails, bookVars
  <2> QED
    BY <1>2, <1>3, <1>4, <1>5, <2>2, <2>3 DEF PageInv
<1>10. CASE StartNewConversation \/ Reload
  <2>1. FreshPage
    BY <1>10 DEF StartNewConversation, Reload
  <2> QED
    BY <1>3, <2>1 DEF FreshPage, PageInv, About
<1> QED
  BY <1>6, <1>7, <1>8, <1>9, <1>10

\* What the service does for an intent concerns its session.
LEMMA ServiceHere ==
    ASSUME TypeOK, PageInv, ServiceInv, NEW i \in Intent, Serve(i)
    PROVE  PageInv' /\ ServiceInv'
<1>1. /\ UNCHANGED <<pageVars, bookVars>> /\ i \in 1..sent
      /\ \A e \in publishing' : e \in publishing \/ e.intent = i
  BY ServeStep DEF ServiceInv
<1>2. \A s : OfSession(s)' = OfSession(s)
  BY <1>1, SessionsKept DEF bookVars
<1>3. PageInv'
  BY <1>1, <1>2 DEF PageInv, pageVars, bookVars
<1>4. \A j \in Intent : task'[j] # "none" => j \in 1..sent'
  <2>1. PICK state : task' = [task EXCEPT ![i] = state]
    BY ServeStep
  <2> QED
    BY <1>1, <2>1 DEF ServiceInv, TypeOK, bookVars
<1>5. \A s \in Session : About(stored'[s], OfSession(s))
  <2>1. CASE UNCHANGED stored
    BY <2>1 DEF ServiceInv
  <2>2. ASSUME NEW recorded \in Seq(Turn), About(recorded, {i}),
               stored' = [stored EXCEPT ![sessionOf[i]] = @ \o recorded]
        PROVE  \A s \in Session : About(stored'[s], OfSession(s))
    <3>1. PICK t \in Session : t = sessionOf[i]
      BY DEF TypeOK
    <3>2. PICK I : I = OfSession(t) /\ {i} \subseteq I
      BY <1>1, <3>1 DEF OfSession
    <3>3. PICK q \in Seq(Turn) : q = stored[t] /\ About(q, I)
      BY <3>1, <3>2 DEF ServiceInv, TypeOK
    <3>4. About(q \o recorded, I)
      BY <2>2, <3>2, <3>3, AboutWider, AboutBoth
    <3>5. stored'[t] = q \o recorded /\ \A s \in Session \ {t} : stored'[s] = stored[s]
      BY <2>2, <3>1, <3>3 DEF TypeOK
    <3> QED
      BY <3>2, <3>4, <3>5 DEF ServiceInv
  <2> QED
    BY <2>1, <2>2, ServeStep
<1> QED
  BY <1>1, <1>2, <1>3, <1>4, <1>5 DEF ServiceInv, bookVars

\* An event that reaches the page is of its session.
LEMMA ForwardHere ==
    ASSUME TypeOK, PageInv, ServiceInv, NEW e \in publishing, Forward(e)
    PROVE  PageInv' /\ ServiceInv'
<1>1. UNCHANGED <<sent, sessionOf, session, turns, stream, fetched, asked, history, task, stored>>
      /\ publishing' \subseteq publishing
  BY DEF Forward, bookVars
<1>2. \A s : OfSession(s)' = OfSession(s)
  BY <1>1, SessionsKept
<1>3. About(wire', OfSession(session))
  <2>1. CASE UNCHANGED wire
    BY <2>1 DEF PageInv
  <2>2. CASE sessionOf[e.intent] = session /\ wire' = Append(wire, e)
    <3>1. e \in Event /\ wire \in Seq(Event) /\ About(wire, OfSession(session))
      BY DEF TypeOK, PageInv
    <3>2. e.intent \in OfSession(session)
      BY <2>2 DEF ServiceInv, OfSession
    <3> QED
      BY <2>2, <3>1, <3>2, AboutMore
  <2> QED
    BY <2>1, <2>2 DEF Forward
<1> QED
  BY <1>1, <1>2, <1>3 DEF PageInv, ServiceInv

-----------------------------------------------------------------------------
(* Answers stand below their questions                                     *)

\* The same in terms of lists.
LEMMA StandingInLists ==
    /\ QuestionsKept <=> \A i \in asked : Asks(turns, i)
    /\ AnswerShown <=> \A i \in asked : waiting = "no" \/ i # sent =>
            outcome[i] # Question(i) /\ Stands(turns, i, outcome[i])
BY DEF QuestionsKept, AnswerShown, Asks, Stands

\* And after a step.
LEMMA StandingAfter ==
    ASSUME \A i \in asked' : Asks(turns', i),
           \A i \in asked' : waiting' = "no" \/ i # sent' =>
                outcome'[i] # Question(i) /\ Stands(turns', i, outcome'[i])
    PROVE  AnswersStandBelowQuestions'
BY DEF AnswersStandBelowQuestions, QuestionsKept, AnswerShown, Asks, Stands

\* A question is sent.
LEMMA SendStanding ==
    ASSUME IInv, Send
    PROVE  AnswersStandBelowQuestions'
<1>0. TypeOK /\ PageInv /\ QuestionsKept /\ AnswerShown
  BY DEF IInv, AnswersStandBelowQuestions
<1>1. /\ sent \in Nat /\ sent' = sent + 1 /\ sent' \in Intent /\ asked \subseteq 1..sent
      /\ turns \in Seq(Turn) /\ turns' = Append(turns, Question(sent'))
      /\ asked' = asked \union {sent'} /\ waiting = "no" /\ waiting' # "no"
      /\ outcome' = outcome
  BY <1>0, LiveTranscriptAssumption DEF Send, MaySend, TypeOK, Intent
<1>2. Question(sent') \in Turn /\ Question(sent').intent = sent'
  BY <1>1, TurnsOfIntent, 0 \in Nat
<1>3. \A n \in DOMAIN turns : turns[n].intent \in 1..sent
  BY <1>0 DEF PageInv, About, OfSession
<1>4. \A n \in DOMAIN turns : turns[n] # Question(sent')
  BY <1>1, <1>2, <1>3
<1>5. ASSUME NEW i \in asked' PROVE Asks(turns', i)
  <2>1. CASE i = sent'
    BY <1>1, <1>2, <1>4, <2>1, AsksNow
  <2>2. CASE i # sent'
    <3>1. i \in asked /\ Asks(turns, i)
      BY <1>0, <1>1, <2>2, StandingInLists
    <3>2. Question(sent') # Question(i)
      BY <1>2, <2>2, QuestionsDiffer
    <3> QED
      BY <1>1, <1>2, <3>1, <3>2, AsksMore
  <2> QED
    BY <2>1, <2>2
<1>6. ASSUME NEW i \in asked', waiting' = "no" \/ i # sent'
      PROVE  outcome'[i] # Question(i) /\ Stands(turns', i, outcome'[i])
  <2>1. i \in asked
    BY <1>1, <1>6
  <2>2. outcome[i] # Question(i) /\ Stands(turns, i, outcome[i])
    BY <1>0, <1>1, <2>1, StandingInLists
  <2> QED
    BY <1>1, <1>2, <2>2, StandsMore
<1> QED
  BY <1>5, <1>6, StandingAfter

\* A wait ends with a turn that stands at the end of the transcript.
LEMMA EndStanding ==
    ASSUME IInv, waiting # "no", waiting' = "no", UNCHANGED <<asked, sent>>,
           NEW x \in Turn, x.role # "buyer", outcome' = [outcome EXCEPT ![sent] = x],
           turns' = Append(turns, x) \/ (turns' = turns /\ turns # <<>> /\ turns[Len(turns)] = x)
    PROVE  AnswersStandBelowQuestions'
<1>0. /\ TypeOK /\ QuestionsKept /\ AnswerShown
      /\ sent \in Intent /\ turns \in Seq(Turn) /\ outcome \in [Intent -> Turn]
  BY Awaited DEF IInv, AnswersStandBelowQuestions, TypeOK
<1>1. \A i : x # Question(i)
  BY QuestionsDiffer
<1>2. ASSUME NEW i \in asked PROVE Asks(turns, i)
  BY <1>0, StandingInLists
<1>3. ASSUME NEW i \in asked PROVE Asks(turns', i)
  BY <1>0, <1>1, <1>2, AsksMore
<1>4. ASSUME NEW i \in asked PROVE Stands(turns', i, x)
  <2>1. CASE turns' = Append(turns, x)
    BY <1>0, <1>2, <2>1, StandsNow
  <2>2. CASE turns' = turns /\ turns # <<>> /\ turns[Len(turns)] = x
    <3>1. PICK m \in DOMAIN turns : turns[m] = Question(i)
      BY <1>2 DEF Asks
    <3>2. m # Len(turns) /\ m < Len(turns) /\ Len(turns) \in DOMAIN turns
      BY <1>0, <1>1, <2>2, <3>1
    <3> QED
      BY <2>2, <3>1, <3>2 DEF Stands
  <2> QED
    BY <2>1, <2>2
<1>5. ASSUME NEW i \in asked
      PROVE  outcome'[i] # Question(i) /\ Stands(turns', i, outcome'[i])
  <2>1. CASE i = sent
    BY <1>0, <1>1, <1>4, <2>1
  <2>2. CASE i # sent
    <3>1. outcome[i] # Question(i) /\ Stands(turns, i, outcome[i]) /\ outcome'[i] = outcome[i]
      BY <1>0, <2>2, StandingInLists DEF TypeOK
    <3> QED
      BY <1>0, <3>1, StandsMore
  <2> QED
    BY <2>1, <2>2
<1> QED
  BY <1>3, <1>5, StandingAfter

\* The transcript may get another answer, or none, while nothing else changes.
LEMMA GrowStanding ==
    ASSUME IInv, UNCHANGED <<asked, sent, outcome>>,
           waiting' = "no" => waiting = "no",
           turns' = turns \/ \E x \in Turn : x.role # "buyer" /\ turns' = Append(turns, x)
    PROVE  AnswersStandBelowQuestions'
<1>0. TypeOK /\ QuestionsKept /\ AnswerShown /\ turns \in Seq(Turn)
  BY DEF IInv, AnswersStandBelowQuestions, TypeOK
<1>1. ASSUME NEW i \in asked PROVE Asks(turns', i)
  <2>1. Asks(turns, i)
    BY <1>0, StandingInLists
  <2>2. ASSUME NEW x \in Turn, x.role # "buyer" PROVE Asks(Append(turns, x), i)
    BY <1>0, <2>1, <2>2, QuestionsDiffer, AsksMore
  <2> QED
    BY <2>1, <2>2
<1>2. ASSUME NEW i \in asked, waiting' = "no" \/ i # sent
      PROVE  outcome[i] # Question(i) /\ Stands(turns', i, outcome[i])
  BY <1>0, <1>2, StandingInLists, StandsMore
<1> QED
  BY <1>1, <1>2, StandingAfter

\* Nothing has been asked on the page.
LEMMA NothingAsked ==
    ASSUME asked' = {} PROVE AnswersStandBelowQuestions'
BY StandingAfter

\* The page keeps the answers below their questions.
LEMMA PageStanding ==
    ASSUME IInv, AwaitAnswer \/ Disconnect \/ Receive \/ LoadHistory
                 \/ StartNewConversation \/ Reload
    PROVE  AnswersStandBelowQuestions'
<1>0. TypeOK /\ PageInv /\ turns \in Seq(Turn)
  BY DEF IInv, TypeOK
<1>1. CASE Submitted \/ Disconnect
  BY <1>1, GrowStanding DEF Submitted, Disconnect, bookVars
<1>2. CASE SendFails
  <2>1. Failure(sent) \in Turn /\ Failure(sent).role # "buyer"
    BY <1>0, <1>2, Awaited, TurnsOfIntent DEF SendFails
  <2> QED
    BY <1>2, <2>1, EndStanding DEF SendFails, ShowFailure, EndWait
<1>3. CASE PollDone
  <2>1. Answer(sent, attempt[sent]) \in Turn /\ Answer(sent, attempt[sent]).role # "buyer"
    BY <1>0, <1>3, Awaited, TurnsOfIntent DEF PollDone
  <2> QED
    BY <1>0, <1>3, <2>1, FinalTurnType, EndStanding DEF PollDone, EndWait
<1>4. CASE Receive
  <2> DEFINE text == Answer(Head(wire).intent, Head(wire).attempt)
  <2>1. Head(wire) \in Event
    BY <1>0, <1>4 DEF Receive, TypeOK
  <2>2. text \in Turn /\ text.role # "buyer"
    BY <2>1, TurnsOfIntent DEF Event
  <2>3. /\ turns' \in {turns, WithFinalTurn(turns, text)}
        /\ UNCHANGED <<asked, sent, outcome, waiting>>
    BY <1>4 DEF Receive, bookVars
  <2> HIDE DEF text
  <2> QED
    BY <1>0, <2>2, <2>3, FinalTurnType, GrowStanding
<1>5. CASE LoadHistory
  <2>1. asked' = {}
    BY <1>0, <1>5 DEF LoadHistory, ReadHistory, ShowHistory, HistoryFails, PageInv, bookVars
  <2> QED
    BY <2>1, NothingAsked
<1>6. CASE StartNewConversation \/ Reload
  BY <1>6, NothingAsked DEF StartNewConversation, Reload, FreshPage
<1> QED
  BY <1>1, <1>2, <1>3, <1>4, <1>5, <1>6 DEF AwaitAnswer

-----------------------------------------------------------------------------
\* The invariant holds at first.
LEMMA InitIInv == Init => IInv
<1> SUFFICES ASSUME Init PROVE IInv
  OBVIOUS
<1>1. \A i \in Intent : Question(i) \in Turn
  BY TurnsOfIntent, 0 \in Nat
<1>2. TypeOK
  BY <1>1, LiveTranscriptAssumption DEF Init, TypeOK, Session
<1>3. PageInv /\ ServiceInv
  BY DEF Init, PageInv, ServiceInv, About
<1>4. AnswersStandBelowQuestions
  BY DEF Init, AnswersStandBelowQuestions, QuestionsKept, AnswerShown
<1> QED
  BY <1>2, <1>3, <1>4 DEF IInv

\* Every step keeps it.
LEMMA StepIInv == IInv /\ [Next]_vars => IInv'
<1> SUFFICES ASSUME IInv, [Next]_vars PROVE IInv'
  OBVIOUS
<1>0. TypeOK /\ PageInv /\ ServiceInv
  BY DEF IInv
<1>1. CASE Send
  BY <1>0, <1>1, PageType, SendHere, SendStanding DEF IInv
<1>2. CASE AwaitAnswer \/ Disconnect \/ Receive \/ LoadHistory \/ StartNewConversation \/ Reload
  BY <1>0, <1>2, PageType, PageHere, PageStanding DEF IInv
<1>3. ASSUME NEW i \in Intent, Serve(i) PROVE IInv'
  <2>1. UNCHANGED <<asked, sent, outcome, waiting, turns>>
    BY <1>0, <1>3, ServeStep DEF pageVars, bookVars
  <2>2. AnswersStandBelowQuestions'
    BY <2>1, GrowStanding
  <2> QED
    BY <1>0, <1>3, <2>2, ServiceType, ServiceHere DEF IInv
<1>4. ASSUME NEW e \in publishing, Forward(e) PROVE IInv'
  <2>1. UNCHANGED <<asked, sent, outcome, waiting, turns, fetched, stored>>
    BY <1>4 DEF Forward, bookVars
  <2>2. AnswersStandBelowQuestions'
    BY <2>1, GrowStanding
  <2> QED
    BY <1>0, <1>4, <2>2, ForwardType, ForwardHere DEF IInv
<1>5. CASE UNCHANGED vars
  <2>1. UNCHANGED <<asked, sent, outcome, waiting, turns>>
    BY <1>5 DEF vars, pageVars, bookVars
  <2>2. AnswersStandBelowQuestions'
    BY <2>1, GrowStanding
  <2>3. \A s : OfSession(s)' = OfSession(s)
    BY <1>5, SessionsKept DEF vars, bookVars
  <2>4. TypeOK'
    BY <1>0, <1>5 DEF TypeOK, vars, pageVars, serviceVars, bookVars
  <2>5. PageInv' /\ ServiceInv'
    BY <1>0, <1>5, <2>3 DEF PageInv, ServiceInv, vars, pageVars, serviceVars, bookVars
  <2> QED
    BY <2>2, <2>4, <2>5 DEF IInv
<1> QED
  BY <1>1, <1>2, <1>3, <1>4, <1>5 DEF Next

\* So it is an invariant.
LEMMA Invariance == Spec => []IInv
BY InitIInv, StepIInv, PTL DEF Spec

\* The variables keep their types, and a page that waits for an intent has sent it.
THEOREM TypesKept == Spec => []TypeOK
<1>1. IInv => TypeOK
  BY DEF IInv
<1> QED
  BY <1>1, Invariance, PTL

\* However events are delayed, lost or overtake each other, and whenever the
\* buyer reloads or starts a conversation, the page shows nothing of another one.
THEOREM ConversationsKeptApart == Spec => []OneConversation
<1>1. IInv => OneConversation
  BY DEF IInv, PageInv, About, OfSession, OneConversation
<1> QED
  BY <1>1, Invariance, PTL

\* What the buyer asked stands on the page once and its answer, or an error,
\* below it, in whatever order history, events and polls come.
THEOREM AnswersFollow == Spec => []AnswersStandBelowQuestions
<1>1. IInv => AnswersStandBelowQuestions
  BY DEF IInv
<1> QED
  BY <1>1, Invariance, PTL

=============================================================================
