------------------------- MODULE ReplyCache_proofs -------------------------
(***************************************************************************)
(* Proofs about ReplyCache, for any calls, sessions, buyers, queries,      *)
(* preferences, similarities, limits and number of failures: whose reply   *)
(* may be reused and from what preferences it was made, what a bucket      *)
(* holds, and which dislikes the agents know of.                           *)
(***************************************************************************)
EXTENDS ReplyCache, Lists_proofs, SequenceTheorems, TLAPS

\* An entry belongs to the bucket of a key: a first reply of the key's buyer,
\* version and preferences to the query it is filed under.
Fits(e, k) ==
    LET r == e.reply IN
    /\ Owner(r.by) = k.buyer /\ r.version = k.version /\ r.scope = k.scope
    /\ e.query = QueryOf(r.by) /\ e.query \in Cacheable
    /\ r.first /\ r.text = "text"
    /\ r.fit \/ r.disturbed

BucketsFit == \A k \in DOMAIN bucket : \A i \in DOMAIN bucket[k] : Fits(bucket[k][i], k)

\* What a call that reuses a reply has found.
ReuseFits(c) ==
    LET r == local[c].answer IN
    /\ Owner(r.by) = Owner(c) /\ r.version = version /\ r.scope = local[c].scope
    /\ QueryOf(r.by) \in Cacheable
    /\ Similarity[<<QueryOf(c), QueryOf(r.by)>>] >= Threshold
    /\ r.first /\ ~ local[c].history /\ r.text = "text"
    /\ r.fit \/ r.disturbed

\* What a call knows at each place.
CallFits(c) ==
    /\ pc[c] = "waiting" => local[c] = Blank
    /\ pc[c] = "lookup" => /\ local[c].scope \in Seq(Preference)
                           /\ Reusable(c, local[c].history)
    /\ pc[c] \in {"lookup", "inputs"} => local[c].basis = {} /\ ~ local[c].shown
    /\ pc[c] = "agent" /\ local[c].shown => local[c].hint \in Seq(Preference)
    /\ pc[c] = "agent" /\ ~ local[c].disturbed =>
            local[c].basis \subseteq {preferences[Owner(c)]}
    /\ pc[c] \in {"load", "store"} => /\ local[c].scope \in Seq(Preference)
                                      /\ local[c].answer \in Reply
                                      /\ local[c].answer.by = c
                                      /\ Fits(NewEntry(c), KeyOf(c))
    /\ pc[c] = "store" =>
            \A i \in DOMAIN local[c].loaded : Fits(local[c].loaded[i], KeyOf(c))
    /\ pc[c] = "finish" /\ local[c].answer # None =>
            local[c].answer.by = c \/ ReuseFits(c)

IInv == TypeOK /\ BucketsFit /\ \A c \in Call : CallFits(c)

-----------------------------------------------------------------------------
(* Calls that are left alone                                                *)

\* What is true of an entry stays true: the calls' questions do not change.
LEMMA FitsStays ==
    ASSUME UNCHANGED ask, NEW e, NEW k
    PROVE  Fits(e, k)' <=> Fits(e, k)
BY DEF Fits, Owner, QueryOf, SessionOf

\* A call stays right when nothing it knows of changes.
LEMMA CallStays ==
    ASSUME NEW c \in Call, CallFits(c), UNCHANGED <<ask, version>>,
           pc'[c] = pc[c], local'[c] = local[c],
           pc[c] = "agent" /\ ~ local[c].disturbed =>
                preferences'[Owner(c)] = preferences[Owner(c)]
    PROVE  CallFits(c)'
<1>1. Owner(c)' = Owner(c) /\ QueryOf(c)' = QueryOf(c) /\ KeyOf(c)' = KeyOf(c)
  BY DEF Owner, QueryOf, SessionOf, KeyOf
<1>2. Reusable(c, local[c].history)' <=> Reusable(c, local[c].history)
  BY <1>1 DEF Reusable
<1>3. NewEntry(c)' = NewEntry(c) /\ (ReuseFits(c)' <=> ReuseFits(c))
  BY <1>1 DEF NewEntry, ReuseFits, Owner, QueryOf, SessionOf
<1>4. Fits(NewEntry(c), KeyOf(c))' <=> Fits(NewEntry(c), KeyOf(c))
  BY <1>1, <1>3 DEF Fits, Owner, QueryOf, SessionOf
<1>5. \A i \in DOMAIN local[c].loaded :
        Fits(local[c].loaded[i], KeyOf(c))' <=> Fits(local[c].loaded[i], KeyOf(c))
  BY <1>1 DEF Fits, Owner, QueryOf, SessionOf
<1> QED
  BY <1>1, <1>2, <1>3, <1>4, <1>5 DEF CallFits

\* So do the buckets.
LEMMA BucketsStay == BucketsFit /\ UNCHANGED <<ask, bucket>> => BucketsFit'
BY DEF BucketsFit, Fits, Owner, QueryOf, SessionOf

\* A step of one call: what it leaves to check.
LEMMA OneCallStep ==
    ASSUME IInv, NEW c \in Call, UNCHANGED <<ask, version, preferences>>,
           pc' \in [Call -> Step], local' \in [Call -> Local],
           \A d \in Call \ {c} : pc'[d] = pc[d] /\ local'[d] = local[d],
           turned' \subseteq Session,
           snapshot' \in [Session -> AgentState], context' \in [Session -> AgentState],
           injected' \in [Session -> Seq(Preference)],
           UNCHANGED bucket,
           CallFits(c)'
    PROVE  IInv'
<1>1. TypeOK'
  BY DEF IInv, TypeOK
<1>2. BucketsFit'
  BY BucketsStay DEF IInv
<1>3. ASSUME NEW d \in Call PROVE CallFits(d)'
  <2>1. CASE d = c
    BY <2>1
  <2>2. CASE d # c
    BY <2>2, CallStays DEF IInv
  <2> QED
    BY <2>1, <2>2
<1> QED
  BY <1>1, <1>2, <1>3 DEF IInv

-----------------------------------------------------------------------------
(* Types                                                                    *)

\* What a call asks, and for whom.
LEMMA AskType ==
    ASSUME TypeOK, NEW c \in Call
    PROVE  SessionOf(c) \in Session /\ QueryOf(c) \in Query /\ Owner(c) \in Buyer
<1>1. ask[c] \in [session : Session, query : Query]
  BY ReplyCacheAssumption DEF TypeOK
<1> QED
  BY <1>1, ReplyCacheAssumption DEF SessionOf, QueryOf, Owner

\* The local variables of a call that has none.
LEMMA BlankType == Blank \in Local
BY DEF Blank, Local

\* The selected preferences are a list of them.
LEMMA SelectionsType ==
    ASSUME NEW list \in Seq(Preference), NEW selected \in Selections(list)
    PROVE  selected \in Seq(Preference)
<1>1. PICK best \in SUBSET OfKind(list, "like") :
        selected = Subsequence(list, OfKind(list, "dislike")) \o Subsequence(list, best)
  BY DEF Selections
<1>2. OfKind(list, "dislike") \in SUBSET DOMAIN list /\ best \in SUBSET DOMAIN list
  BY DEF OfKind
<1>3. /\ Subsequence(list, OfKind(list, "dislike")) \in Seq(Preference)
      /\ Subsequence(list, best) \in Seq(Preference)
  BY <1>2, SubsequenceType
<1> QED
  BY <1>1, <1>3, ConcatProperties

\* The initial states satisfy the inductive invariant.
LEMMA InitIInv == Init => IInv
<1> SUFFICES ASSUME Init PROVE IInv
  OBVIOUS
<1>1. TypeOK
  <2>1. preferences \in [Buyer -> Seq(Preference)] /\ ask \in Workload
    BY ReplyCacheAssumption DEF Init
  <2>2. DOMAIN bucket = {}
    BY DEF Init
  <2>3. snapshot \in [Session -> AgentState] /\ context \in [Session -> AgentState]
    BY DEF Init, AgentState
  <2>4. injected \in [Session -> Seq(Preference)]
    BY DEF Init
  <2> QED
    BY <2>1, <2>2, <2>3, <2>4, BlankType DEF Init, TypeOK, Step
<1>2. BucketsFit
  BY DEF Init, BucketsFit
<1>3. ASSUME NEW c \in Call PROVE CallFits(c)
  BY DEF Init, CallFits
<1> QED
  BY <1>1, <1>2, <1>3 DEF IInv

-----------------------------------------------------------------------------
(* Looking a reply up                                                       *)

\* A call begins.
LEMMA BeginStep ==
    ASSUME IInv, NEW c \in Call, NEW legible \in BOOLEAN, NEW ok \in BOOLEAN,
           Begin(c, legible, ok)
    PROVE  IInv'
<1> DEFINE s == SessionOf(c)
           old == ~ legible \/ s \in turned \/ context[s].started
           scope == IF ok THEN preferences[Owner(c)] ELSE Unread
<1>0. TypeOK /\ CallFits(c) /\ s \in Session /\ Owner(c) \in Buyer
  BY AskType DEF IInv
<1>1. old \in BOOLEAN /\ scope \in Seq(Preference) \union {Unread}
      /\ (ok => scope \in Seq(Preference))
  BY <1>0 DEF TypeOK
<1>2. /\ local' = [local EXCEPT ![c].history = old, ![c].scope = scope]
      /\ pc' = [pc EXCEPT ![c] = IF ok /\ Reusable(c, old) THEN "lookup" ELSE "inputs"]
      /\ pc[c] = "waiting"
      /\ UNCHANGED <<preferences, bucket, turned, snapshot, version, context, injected, ask>>
  BY DEF Begin, Goto, storeVars, processVars
<1> HIDE DEF old, scope
<1>3. /\ local'[c] = [local[c] EXCEPT !.history = old, !.scope = scope]
      /\ \A d \in Call \ {c} : local'[d] = local[d] /\ pc'[d] = pc[d]
      /\ DOMAIN local' = Call
  BY <1>0, <1>2 DEF TypeOK
<1>4. local'[c] \in Local
  BY <1>0, <1>1, <1>3 DEF TypeOK, Local
<1>5. local' \in [Call -> Local] /\ pc' \in [Call -> Step]
  BY <1>0, <1>2, <1>4 DEF TypeOK, Step
<1>6. CallFits(c)'
  <2>1. /\ local'[c].basis = {} /\ ~ local'[c].shown /\ local'[c].history = old /\ local'[c].scope = scope
    BY <1>0, <1>2, <1>3 DEF CallFits, Blank, TypeOK, Local
  <2>2. Reusable(c, local[c].history)' <=> Reusable(c, old)
    BY <1>2, <2>1 DEF Reusable, QueryOf, SessionOf
  <2>3. pc'[c] = IF ok /\ Reusable(c, old) THEN "lookup" ELSE "inputs"
    BY <1>0, <1>2 DEF TypeOK
  <2> QED
    BY <1>1, <2>1, <2>2, <2>3 DEF CallFits
<1> QED
  BY <1>0, <1>2, <1>3, <1>5, <1>6, OneCallStep DEF IInv, TypeOK

\* The entries at a key belong there.
LEMMA EntriesFit ==
    ASSUME TypeOK, BucketsFit, NEW k
    PROVE  /\ EntriesAt(k) \in Seq(Entry)
           /\ \A i \in DOMAIN EntriesAt(k) : Fits(EntriesAt(k)[i], k)
<1>1. CASE k \in DOMAIN bucket
  BY <1>1 DEF EntriesAt, TypeOK, BucketsFit
<1>2. CASE k \notin DOMAIN bucket
  BY <1>2 DEF EntriesAt
<1> QED
  BY <1>1, <1>2

\* A call looks for a reply; what it finds may be reused.
LEMMA LookupStep ==
    ASSUME IInv, NEW c \in Call, NEW ok \in BOOLEAN, Lookup(c, ok)
    PROVE  IInv'
<1> DEFINE entries == IF ok THEN EntriesAt(KeyOf(c)) ELSE <<>>
           q == QueryOf(c)
<1>0. /\ TypeOK /\ BucketsFit /\ CallFits(c) /\ q \in Query /\ pc[c] = "lookup"
      /\ UNCHANGED <<preferences, bucket, turned, snapshot, version, context, injected, ask>>
  BY AskType DEF IInv, Lookup, storeVars, processVars
<1>1. entries \in Seq(Entry) /\ \A i \in DOMAIN entries : Fits(entries[i], KeyOf(c))
  BY <1>0, EntriesFit
<1>2. CASE Similar(entries, q) # {}
  <2>1. PICK i \in BestHits(entries, q) :
               local' = [local EXCEPT ![c].answer = entries[i].reply]
    BY <1>2 DEF Lookup
  <2>2. PICK e \in Entry : /\ e = entries[i] /\ Fits(e, KeyOf(c))
                           /\ Similarity[<<q, e.query>>] >= Threshold
    <3> HIDE DEF entries, q
    <3>1. i \in DOMAIN entries /\ Similarity[<<q, entries[i].query>>] >= Threshold
      BY <2>1 DEF BestHits, Similar, Likeness
    <3>2. entries[i] \in Entry /\ Fits(entries[i], KeyOf(c))
      BY <1>1, <3>1
    <3> QED
      BY <3>1, <3>2
  <2>3. /\ local' = [local EXCEPT ![c].answer = e.reply]
        /\ pc' = [pc EXCEPT ![c] = "finish"]
    BY <1>2, <2>1, <2>2 DEF Lookup, Goto
  <2> HIDE DEF entries
  <2>4. /\ local'[c] = [local[c] EXCEPT !.answer = e.reply]
        /\ \A d \in Call \ {c} : local'[d] = local[d] /\ pc'[d] = pc[d]
        /\ DOMAIN local' = Call /\ pc'[c] = "finish"
    BY <1>0, <2>3 DEF TypeOK
  <2>5. local'[c] \in Local
    BY <1>0, <2>2, <2>4 DEF TypeOK, Local, Entry
  <2>6. local' \in [Call -> Local] /\ pc' \in [Call -> Step]
    BY <1>0, <2>3, <2>5 DEF TypeOK, Step
  <2>7. ReuseFits(c)'
    <3>1. /\ local'[c].answer = e.reply /\ local'[c].scope = local[c].scope
          /\ local'[c].history = local[c].history
      BY <1>0, <2>4 DEF TypeOK, Local
    <3>2. ~ local[c].history
      BY <1>0 DEF CallFits, Reusable
    <3>3. /\ Owner(e.reply.by) = Owner(c) /\ e.reply.version = version
          /\ e.reply.scope = local[c].scope
          /\ e.query = QueryOf(e.reply.by) /\ e.query \in Cacheable
          /\ e.reply.first /\ e.reply.text = "text"
          /\ e.reply.fit \/ e.reply.disturbed
      BY <2>2 DEF Fits, KeyOf
    <3>4. /\ Owner(e.reply.by)' = Owner(e.reply.by) /\ QueryOf(e.reply.by)' = QueryOf(e.reply.by)
          /\ Owner(c)' = Owner(c) /\ QueryOf(c)' = QueryOf(c)
      BY <1>0 DEF Owner, QueryOf, SessionOf
    <3> QED
      BY <1>0, <2>2, <3>1, <3>2, <3>3, <3>4 DEF ReuseFits
  <2>8. CallFits(c)'
    BY <2>4, <2>7 DEF CallFits
  <2> QED
    BY <1>0, <2>4, <2>6, <2>8, OneCallStep DEF TypeOK
<1>3. CASE Similar(entries, q) = {}
  <2>1. pc' = [pc EXCEPT ![c] = "inputs"] /\ UNCHANGED local
    BY <1>3 DEF Lookup, Goto
  <2>2. /\ pc' \in [Call -> Step] /\ local' \in [Call -> Local] /\ pc'[c] = "inputs"
        /\ \A d \in Call \ {c} : local'[d] = local[d] /\ pc'[d] = pc[d]
    BY <1>0, <2>1 DEF TypeOK, Step
  <2>3. CallFits(c)'
    BY <1>0, <2>1, <2>2 DEF CallFits
  <2> QED
    BY <1>0, <2>2, <2>3, OneCallStep DEF TypeOK
<1> QED
  BY <1>2, <1>3

-----------------------------------------------------------------------------
(* The agent's run                                                          *)

\* The preferences are selected.
LEMMA BuildInputsStep == ASSUME IInv, NEW c \in Call, BuildInputs(c) PROVE IInv'
<1> DEFINE s == SessionOf(c)
           list == preferences[Owner(c)]
<1>0. /\ TypeOK /\ s \in Session /\ Owner(c) \in Buyer /\ list \in Seq(Preference)
      /\ pc[c] = "inputs" /\ pc' = [pc EXCEPT ![c] = "agent"]
      /\ UNCHANGED <<preferences, bucket, turned, snapshot, version, context, ask>>
  BY AskType DEF IInv, BuildInputs, storeVars, Goto, TypeOK
<1>1. PICK selected \in Selections(list) :
        /\ local' = [local EXCEPT ![c].hint = selected,
                                  ![c].shown = selected \notin {<<>>, injected[s]},
                                  ![c].basis = {list}]
        /\ injected' = [injected EXCEPT ![s] = selected]
  BY DEF BuildInputs
<1>2. selected \in Seq(Preference)
  BY <1>0, <1>1, SelectionsType
<1> DEFINE shown == selected \notin {<<>>, injected[s]}
<1>3. shown \in BOOLEAN
  OBVIOUS
<1> HIDE DEF shown
<1>4. /\ local'[c] = [local[c] EXCEPT !.hint = selected, !.shown = shown, !.basis = {list}]
      /\ \A d \in Call \ {c} : local'[d] = local[d] /\ pc'[d] = pc[d]
      /\ DOMAIN local' = Call /\ pc'[c] = "agent"
  BY <1>0, <1>1 DEF TypeOK, shown
<1>5. local'[c] \in Local
  <2>1. local[c] \in Local /\ {list} \in SUBSET Seq(Preference)
    BY <1>0 DEF TypeOK
  <2> HIDE DEF list
  <2> QED
    BY <1>2, <1>3, <1>4, <2>1 DEF Local
<1>6. /\ local' \in [Call -> Local] /\ pc' \in [Call -> Step]
      /\ injected' \in [Session -> Seq(Preference)]
  <2>1. local' \in [Call -> Local]
    BY <1>0, <1>1, <1>4, <1>5 DEF TypeOK
  <2>2. injected' \in [Session -> Seq(Preference)]
    BY <1>0, <1>1, <1>2 DEF TypeOK
  <2> QED
    BY <1>0, <2>1, <2>2 DEF TypeOK, Step
<1>7. CallFits(c)'
  <2>1. /\ local'[c].basis = {list} /\ local'[c].hint \in Seq(Preference)
        /\ Owner(c)' = Owner(c)
    BY <1>0, <1>2, <1>4 DEF TypeOK, Local, Owner, SessionOf
  <2> QED
    BY <1>0, <1>4, <2>1 DEF CallFits
<1> QED
  BY <1>0, <1>4, <1>6, <1>7, OneCallStep DEF TypeOK

\* The preferences could not be read.
LEMMA BuildInputsBlindStep == ASSUME IInv, NEW c \in Call, BuildInputsBlind(c) PROVE IInv'
<1>0. /\ TypeOK /\ CallFits(c) /\ pc[c] = "inputs" /\ pc' = [pc EXCEPT ![c] = "agent"]
      /\ UNCHANGED <<preferences, bucket, turned, snapshot, version, context, injected, ask, local>>
  BY DEF IInv, BuildInputsBlind, storeVars, processVars, Goto
<1>1. /\ \A d \in Call \ {c} : local'[d] = local[d] /\ pc'[d] = pc[d]
      /\ pc' \in [Call -> Step] /\ pc'[c] = "agent"
  BY <1>0 DEF TypeOK, Step
<1>2. CallFits(c)'
  BY <1>0, <1>1 DEF CallFits
<1> QED
  BY <1>0, <1>1, <1>2, OneCallStep DEF TypeOK

\* A tool changes the buyer's preferences: whoever makes a reply of theirs is
\* marked, and nobody else minds.
LEMMA ChangeStep ==
    ASSUME IInv, NEW c \in Call, NEW list \in Seq(Preference), Change(c, list)
    PROVE  IInv'
<1> DEFINE b == Owner(c)
<1>0. /\ TypeOK /\ b \in Buyer
      /\ preferences' = [preferences EXCEPT ![b] = list]
      /\ UNCHANGED <<bucket, turned, snapshot, version, context, injected, ask, pc>>
  BY AskType DEF IInv, Change, processVars
<1>1. local' = [d \in Call |-> IF d \in InTheMaking(b) THEN [local[d] EXCEPT !.disturbed = TRUE]
                                                       ELSE local[d]]
  BY DEF Change
<1>2. local' \in [Call -> Local]
  <2>1. ASSUME NEW d \in Call PROVE [local[d] EXCEPT !.disturbed = TRUE] \in Local
    BY <1>0 DEF TypeOK, Local
  <2> QED
    BY <1>0, <1>1, <2>1 DEF TypeOK
<1>3. preferences' \in [Buyer -> Seq(Preference)]
  BY <1>0 DEF TypeOK
<1>4. TypeOK'
  BY <1>0, <1>2, <1>3 DEF TypeOK
<1>5. BucketsFit'
  BY <1>0, BucketsStay DEF IInv
<1>6. ASSUME NEW d \in Call PROVE CallFits(d)'
  <2>1. CASE d \in InTheMaking(b)
    <3>1. pc'[d] = "agent" /\ local'[d] = [local[d] EXCEPT !.disturbed = TRUE]
      BY <1>0, <1>1, <2>1 DEF InTheMaking
    <3>2. /\ local'[d].disturbed
          /\ local'[d].hint = local[d].hint /\ local'[d].shown = local[d].shown
      BY <1>0, <3>1 DEF TypeOK, Local
    <3> QED
      BY <1>0, <3>1, <3>2 DEF CallFits, IInv
  <2>2. CASE d \notin InTheMaking(b)
    <3>1. local'[d] = local[d]
      BY <1>1, <2>2
    <3>2. pc[d] = "agent" => preferences'[Owner(d)] = preferences[Owner(d)]
      BY <1>0, <2>2 DEF InTheMaking, TypeOK
    <3> QED
      BY <1>0, <3>1, <3>2, CallStays DEF IInv
  <2> QED
    BY <2>1, <2>2
<1> QED
  BY <1>4, <1>5, <1>6 DEF IInv

\* The agent's tools.
LEMMA ToolStep == ASSUME IInv, NEW c \in Call, Tool(c) PROVE IInv'
<1>0. /\ TypeOK /\ CallFits(c) /\ Owner(c) \in Buyer
      /\ preferences[Owner(c)] \in Seq(Preference)
  BY AskType DEF IInv, TypeOK
<1>1. ASSUME NEW p \in Preference, RememberPreference(c, p) PROVE IInv'
  <2> DEFINE list == preferences[Owner(c)]
             changed == IF Listed(list, p) THEN list ELSE Append(list, p)
  <2>1. changed \in Seq(Preference) /\ Change(c, changed)
    BY <1>0, <1>1 DEF RememberPreference
  <2> HIDE DEF changed
  <2> QED
    BY <2>1, ChangeStep
<1>2. ASSUME NEW p \in Preference, ForgetPreference(c, p.statement) PROVE IInv'
  <2> DEFINE list == preferences[Owner(c)]
             kept == {i \in DOMAIN list : list[i].statement # p.statement}
  <2>1. Subsequence(list, kept) \in Seq(Preference)
    BY <1>0, SubsequenceType
  <2>2. Change(c, Subsequence(list, kept))
    BY <1>2 DEF ForgetPreference
  <2> QED
    BY <2>1, <2>2, ChangeStep
<1>3. CASE DispatchSearch(c)
  <2> DEFINE list == preferences[Owner(c)]
  <2>1. /\ local' = [local EXCEPT ![c].basis = @ \union {list}]
        /\ pc[c] = "agent"
        /\ UNCHANGED <<preferences, bucket, turned, snapshot, version, context, injected, ask, pc>>
    BY <1>3 DEF DispatchSearch, storeVars, processVars
  <2>2. /\ local'[c] = [local[c] EXCEPT !.basis = @ \union {list}]
        /\ \A d \in Call \ {c} : local'[d] = local[d]
        /\ DOMAIN local' = Call
    BY <1>0, <2>1 DEF TypeOK
  <2>3. /\ local'[c] \in Local /\ local'[c].basis = local[c].basis \union {list}
        /\ local'[c].disturbed = local[c].disturbed
        /\ local'[c].hint = local[c].hint /\ local'[c].shown = local[c].shown
    <3> DEFINE basis == local[c].basis \union {list}
    <3>1. local[c] \in Local
      BY <1>0 DEF TypeOK
    <3>2. basis \in SUBSET Seq(Preference)
      BY <1>0, <3>1 DEF Local
    <3>3. local'[c] = [local[c] EXCEPT !.basis = basis]
      BY <2>2, <3>1 DEF Local
    <3> HIDE DEF basis
    <3>4. /\ local'[c] \in Local /\ local'[c].basis = basis
          /\ local'[c].disturbed = local[c].disturbed
          /\ local'[c].hint = local[c].hint /\ local'[c].shown = local[c].shown
      BY <3>1, <3>2, <3>3 DEF Local
    <3> QED
      BY <3>4 DEF basis
  <2>4. local' \in [Call -> Local] /\ pc' \in [Call -> Step]
    BY <1>0, <2>1, <2>3 DEF TypeOK
  <2>5. CallFits(c)'
    BY <1>0, <2>1, <2>3 DEF CallFits, Owner, SessionOf
  <2> QED
    BY <1>0, <2>1, <2>2, <2>4, <2>5, OneCallStep DEF TypeOK
<1> QED
  BY <1>1, <1>2, <1>3 DEF Tool

\* The agent's state keeps its type as it takes the inputs in.
LEMMA TakeInType ==
    ASSUME TypeOK, NEW c \in Call, TakeIn(c), local[c].hint \in Seq(Preference) \/ ~ local[c].shown
    PROVE  context' \in [Session -> AgentState]
<1> DEFINE s == SessionOf(c)
           hint == IF local[c].shown THEN local[c].hint ELSE context[s].hint
<1>1. s \in Session /\ context[s] \in AgentState
  BY AskType DEF TypeOK
<1>2. hint \in Seq(Preference)
  BY <1>1 DEF AgentState
<1>3. context' = [context EXCEPT ![s] = [started |-> TRUE, hint |-> hint]]
  BY <1>1 DEF TakeIn, TypeOK
<1> HIDE DEF hint
<1> QED
  BY <1>1, <1>2, <1>3 DEF TypeOK, AgentState

\* The agent raises.
LEMMA AgentRaisesStep == ASSUME IInv, NEW c \in Call, AgentRaises(c) PROVE IInv'
<1>0. /\ TypeOK /\ CallFits(c)
      /\ pc[c] = "agent" /\ pc' = [pc EXCEPT ![c] = "raising"]
      /\ UNCHANGED <<preferences, bucket, turned, snapshot, version, injected, ask, local>>
      /\ TakeIn(c) \/ UNCHANGED context
  BY DEF IInv, AgentRaises, storeVars, Goto
<1>1. context' \in [Session -> AgentState]
  <2>1. CASE TakeIn(c)
    BY <1>0, <2>1, TakeInType DEF CallFits
  <2>2. CASE UNCHANGED context
    BY <1>0, <2>2 DEF TypeOK
  <2> QED
    BY <1>0, <2>1, <2>2
<1>2. /\ \A d \in Call \ {c} : local'[d] = local[d] /\ pc'[d] = pc[d]
      /\ pc' \in [Call -> Step] /\ pc'[c] = "raising"
  BY <1>0 DEF TypeOK, Step
<1>3. CallFits(c)'
  BY <1>2 DEF CallFits
<1> QED
  BY <1>0, <1>1, <1>2, <1>3, OneCallStep DEF TypeOK

\* The agent replies: with a reply that fits the preferences fingerprinted now.
LEMMA AgentRepliesStep ==
    ASSUME IInv, NEW c \in Call, NEW text \in {"text", "error"}, NEW ok \in BOOLEAN,
           AgentReplies(c, text, ok)
    PROVE  IInv'
<1> DEFINE b == Owner(c)
           scope == IF ok THEN preferences[b] ELSE Unread
           reply == ReplyOf(c, text, scope)
<1>0. /\ TypeOK /\ CallFits(c) /\ b \in Buyer /\ preferences[b] \in Seq(Preference)
      /\ local[c] \in Local /\ QueryOf(c) \in Query
      /\ pc[c] = "agent" /\ TakeIn(c)
      /\ local' = [local EXCEPT ![c].answer = reply, ![c].scope = scope]
      /\ pc' = [pc EXCEPT ![c] = IF ok /\ Worthy(c, text) THEN "load" ELSE "finish"]
      /\ UNCHANGED <<preferences, bucket, turned, snapshot, version, injected, ask>>
  BY AskType DEF IInv, AgentReplies, storeVars, Goto, TypeOK
<1>1. scope \in Seq(Preference) \union {Unread} /\ (ok => scope = preferences[b])
  BY <1>0
<1> HIDE DEF scope
<1>2. /\ reply \in Reply /\ reply.by = c /\ reply.text = text /\ reply.version = version
      /\ reply.first = ~ local[c].history /\ reply.scope = scope
      /\ reply.fit = (local[c].basis \subseteq {scope})
      /\ reply.disturbed = local[c].disturbed
  <2> DEFINE fit == local[c].basis \subseteq {scope}
             first == ~ local[c].history
             disturbed == local[c].disturbed
  <2>1. fit \in BOOLEAN /\ first \in BOOLEAN /\ disturbed \in BOOLEAN /\ version \in Nat
    BY <1>0 DEF Local, TypeOK
  <2>2. reply = [by |-> c, text |-> text, version |-> version, first |-> first,
                 scope |-> scope, fit |-> fit, disturbed |-> disturbed]
    BY DEF ReplyOf
  <2> HIDE DEF reply, fit, first, disturbed
  <2>3. /\ reply \in Reply /\ reply.by = c /\ reply.text = text /\ reply.version = version
        /\ reply.first = first /\ reply.scope = scope
        /\ reply.fit = fit /\ reply.disturbed = disturbed
    BY <1>1, <2>1, <2>2 DEF Reply
  <2> QED
    BY <2>3 DEF fit, first, disturbed
<1>3. context' \in [Session -> AgentState]
  BY <1>0, TakeInType DEF CallFits
<1> HIDE DEF reply
<1>4. /\ local'[c] = [local[c] EXCEPT !.answer = reply, !.scope = scope]
      /\ \A d \in Call \ {c} : local'[d] = local[d] /\ pc'[d] = pc[d]
      /\ DOMAIN local' = Call
      /\ pc'[c] = IF ok /\ Worthy(c, text) THEN "load" ELSE "finish"
  BY <1>0 DEF TypeOK
<1>5. local'[c] \in Local /\ local'[c].answer = reply /\ local'[c].scope = scope
  BY <1>0, <1>1, <1>2, <1>4 DEF Local
<1>6. local' \in [Call -> Local] /\ pc' \in [Call -> Step]
  BY <1>0, <1>5 DEF TypeOK, Step
<1>7. CallFits(c)'
  <2>1. CASE ok /\ Worthy(c, text)
    <3>1. pc'[c] = "load" /\ scope = preferences[b] /\ scope \in Seq(Preference)
      BY <1>0, <1>1, <1>4, <2>1
    <3>2. text = "text" /\ ~ local[c].history /\ QueryOf(c) \in Cacheable
      BY <2>1 DEF Worthy, Reusable
    <3>3. reply.fit \/ reply.disturbed
      BY <1>0, <1>2, <3>1 DEF CallFits
    <3>4. /\ NewEntry(c)' = [query |-> QueryOf(c), reply |-> reply]
          /\ KeyOf(c)' = [version |-> version, buyer |-> b, scope |-> scope]
      BY <1>0, <1>5 DEF NewEntry, KeyOf, QueryOf, Owner, SessionOf
    <3>5. Fits(NewEntry(c), KeyOf(c))'
      <4>1. Owner(c)' = b /\ QueryOf(c)' = QueryOf(c)
        BY <1>0 DEF Owner, QueryOf, SessionOf
      <4>2. reply.first
        BY <1>2, <3>2
      <4> DEFINE e == [query |-> QueryOf(c), reply |-> reply]
                 k == [version |-> version, buyer |-> b, scope |-> scope]
      <4>3. /\ e.reply = reply /\ e.query = QueryOf(c)
            /\ k.buyer = b /\ k.version = version /\ k.scope = scope
        OBVIOUS
      <4>4. NewEntry(c)' = e /\ KeyOf(c)' = k
        BY <3>4
      <4> HIDE DEF e, k
      <4> QED
        BY <1>2, <3>2, <3>3, <4>1, <4>2, <4>3, <4>4 DEF Fits
    <3> QED
      BY <1>2, <1>5, <3>1, <3>5 DEF CallFits
  <2>2. CASE ~ (ok /\ Worthy(c, text))
    BY <1>2, <1>4, <1>5, <2>2 DEF CallFits
  <2> QED
    BY <2>1, <2>2
<1> QED
  BY <1>0, <1>3, <1>4, <1>6, <1>7, OneCallStep DEF TypeOK

-----------------------------------------------------------------------------
(* Remembering a reply                                                      *)

\* The query cannot be embedded.
LEMMA EmbedFailsStep == ASSUME IInv, NEW c \in Call, EmbedFails(c) PROVE IInv'
<1>0. /\ TypeOK /\ CallFits(c) /\ pc[c] = "load" /\ pc' = [pc EXCEPT ![c] = "finish"]
      /\ UNCHANGED <<preferences, bucket, turned, snapshot, version, context, injected, ask, local>>
  BY DEF IInv, EmbedFails, storeVars, processVars, Goto
<1>1. /\ \A d \in Call \ {c} : local'[d] = local[d] /\ pc'[d] = pc[d]
      /\ pc' \in [Call -> Step] /\ pc'[c] = "finish"
  BY <1>0 DEF TypeOK, Step
<1>2. CallFits(c)'
  BY <1>0, <1>1 DEF CallFits
<1> QED
  BY <1>0, <1>1, <1>2, OneCallStep DEF TypeOK

\* The bucket is read: what is kept of it belongs there.
LEMMA LoadStep == ASSUME IInv, NEW c \in Call, NEW ok \in BOOLEAN, Load(c, ok) PROVE IInv'
<1> DEFINE k == KeyOf(c)
           q == QueryOf(c)
           loaded == IF ok THEN Others(EntriesAt(k), q) ELSE <<>>
           spoiled == ~ ok
<1>0. /\ TypeOK /\ BucketsFit /\ CallFits(c) /\ local[c] \in Local
      /\ pc[c] = "load" /\ pc' = [pc EXCEPT ![c] = "store"]
      /\ local' = [local EXCEPT ![c].loaded = loaded, ![c].spoiled = spoiled]
      /\ UNCHANGED <<preferences, bucket, turned, snapshot, version, context, injected, ask>>
  BY DEF IInv, Load, storeVars, processVars, Goto, TypeOK
<1>1. loaded \in Seq(Entry) /\ \A i \in DOMAIN loaded : Fits(loaded[i], k)
  <2>1. CASE ok
    <3> DEFINE entries == EntriesAt(k)
               others == {i \in DOMAIN entries : entries[i].query # q}
    <3>1. entries \in Seq(Entry) /\ \A i \in DOMAIN entries : Fits(entries[i], k)
      BY <1>0, EntriesFit
    <3>2. loaded = Subsequence(entries, others)
      BY <2>1 DEF Others
    <3>3. /\ Subsequence(entries, others) \in Seq(Entry)
          /\ \A j \in DOMAIN Subsequence(entries, others) :
                \E i \in others : Subsequence(entries, others)[j] = entries[i]
      <4>1. others \in SUBSET DOMAIN entries
        OBVIOUS
      <4> HIDE DEF entries, others
      <4> QED
        BY <3>1, <4>1, SubsequenceType
    <3> HIDE DEF entries, loaded, k
    <3> QED
      BY <3>1, <3>2, <3>3
  <2>2. CASE ~ ok
    BY <2>2
  <2> QED
    BY <2>1, <2>2
<1>2. spoiled \in BOOLEAN
  OBVIOUS
<1>3. PICK l \in Seq(Entry) : l = loaded /\ \A i \in DOMAIN l : Fits(l[i], k)
  BY <1>1
<1> HIDE DEF loaded, spoiled
<1>4. /\ local'[c] = [local[c] EXCEPT !.loaded = l, !.spoiled = spoiled]
      /\ \A d \in Call \ {c} : local'[d] = local[d] /\ pc'[d] = pc[d]
      /\ DOMAIN local' = Call /\ pc'[c] = "store"
  BY <1>0, <1>3 DEF TypeOK
<1>5. /\ local'[c] \in Local /\ local'[c].loaded = l
      /\ local'[c].scope = local[c].scope /\ local'[c].answer = local[c].answer
  BY <1>0, <1>2, <1>3, <1>4 DEF Local
<1>6. local' \in [Call -> Local] /\ pc' \in [Call -> Step]
  BY <1>0, <1>5 DEF TypeOK, Step
<1>7. CallFits(c)'
  <2>1. KeyOf(c)' = k /\ NewEntry(c)' = NewEntry(c)
    BY <1>0, <1>5 DEF KeyOf, NewEntry, Owner, QueryOf, SessionOf
  <2>2. Fits(NewEntry(c), KeyOf(c))'
    BY <1>0, <2>1 DEF CallFits, Fits, Owner, QueryOf, SessionOf
  <2>3. \A i \in DOMAIN l : Fits(l[i], k)'
    BY <1>0, <1>3, <2>1 DEF Fits, Owner, QueryOf, SessionOf
  <2>4. \A i \in DOMAIN local'[c].loaded : Fits(local[c].loaded[i], KeyOf(c))'
    BY <1>5, <2>1, <2>3 DEF Fits, Owner, QueryOf, SessionOf
  <2> QED
    BY <1>0, <1>4, <1>5, <2>2, <2>4 DEF CallFits
<1> QED
  BY <1>0, <1>4, <1>6, <1>7, OneCallStep DEF TypeOK

\* What a write spoils is no more than the entries that were read.
LEMMA SpoilType ==
    ASSUME TypeOK, NEW k, Spoil(k)
    PROVE  /\ local' \in [Call -> Local]
           /\ \A d \in Call :
                \/ local'[d] = local[d]
                \/ pc[d] = "store" /\ local'[d] = [local[d] EXCEPT !.spoiled = TRUE]
<1>1. ASSUME NEW d \in Call PROVE [local[d] EXCEPT !.spoiled = TRUE] \in Local
  BY DEF TypeOK, Local
<1> QED
  BY <1>1 DEF Spoil, TypeOK

\* A call whose read is spoiled knows what it knew.
LEMMA SpoiledStays ==
    ASSUME TypeOK, NEW c \in Call, CallFits(c), UNCHANGED <<ask, version>>,
           pc'[c] = pc[c], pc[c] = "store",
           local'[c] = [local[c] EXCEPT !.spoiled = TRUE]
    PROVE  CallFits(c)'
<1>1. /\ local'[c].scope = local[c].scope /\ local'[c].answer = local[c].answer
      /\ local'[c].loaded = local[c].loaded
  BY DEF TypeOK, Local
<1>2. KeyOf(c)' = KeyOf(c) /\ NewEntry(c)' = NewEntry(c)
  BY <1>1 DEF KeyOf, NewEntry, Owner, QueryOf, SessionOf
<1>3. Fits(NewEntry(c), KeyOf(c))' <=> Fits(NewEntry(c), KeyOf(c))
  BY <1>2 DEF Fits, Owner, QueryOf, SessionOf
<1>4. \A i \in DOMAIN local[c].loaded :
        Fits(local[c].loaded[i], KeyOf(c)) => Fits(local[c].loaded[i], KeyOf(c))'
  BY <1>1, <1>2 DEF Fits, Owner, QueryOf, SessionOf
<1> QED
  BY <1>1, <1>3, <1>4 DEF CallFits

\* The latest entries of a list are some of them.
LEMMA LatestType ==
    ASSUME NEW entries \in Seq(Entry), Len(entries) > 0
    PROVE  /\ Latest(entries) \in Seq(Entry) /\ Len(Latest(entries)) \in 1..BucketLimit
           /\ \A j \in DOMAIN Latest(entries) :
                \E i \in DOMAIN entries : Latest(entries)[j] = entries[i]
<1> DEFINE n == Len(entries)
           m == IF n > BucketLimit THEN n - BucketLimit + 1 ELSE 1
<1>1. n \in Nat \ {0} /\ BucketLimit \in Nat \ {0} /\ m \in 1..n
  BY ReplyCacheAssumption
<1>2. \A i \in m..n : i \in DOMAIN entries /\ entries[i] \in Entry
  BY <1>1
<1>3. Latest(entries) = SubSeq(entries, m, n)
  BY DEF Latest
<1> HIDE DEF m, n
<1>4. /\ SubSeq(entries, m, n) \in Seq(Entry)
      /\ Len(SubSeq(entries, m, n)) = n - m + 1
      /\ \A j \in 1..(n - m + 1) : SubSeq(entries, m, n)[j] = entries[m + j - 1]
  BY <1>1, <1>2, SubSeqProperties
<1>5. n - m + 1 \in 1..BucketLimit
  BY <1>1 DEF m
<1>6. ASSUME NEW j \in 1..(n - m + 1) PROVE m + j - 1 \in DOMAIN entries
  BY <1>1, <1>2
<1> QED
  BY <1>3, <1>4, <1>5, <1>6

\* The bucket is written: it holds what was read of it and the new entry.
LEMMA StoreStep == ASSUME IInv, NEW c \in Call, NEW ok \in BOOLEAN, Store(c, ok) PROVE IInv'
<1> DEFINE k == KeyOf(c)
           loaded == local[c].loaded
           entries == Append(loaded, NewEntry(c))
<1>0. /\ TypeOK /\ BucketsFit /\ CallFits(c) /\ local[c] \in Local
      /\ pc[c] = "store" /\ pc' = [pc EXCEPT ![c] = "finish"]
      /\ Owner(c) \in Buyer /\ QueryOf(c) \in Query
      /\ UNCHANGED <<preferences, turned, snapshot, version, context, injected, ask>>
  BY AskType DEF IInv, Store, processVars, Goto, TypeOK
<1>1. /\ pc' \in [Call -> Step] /\ pc'[c] = "finish"
      /\ \A d \in Call \ {c} : pc'[d] = pc[d]
  BY <1>0 DEF TypeOK, Step
<1>2. CASE UNCHANGED <<bucket, local>>
  <2>1. CallFits(c)'
    BY <1>0, <1>1, <1>2 DEF CallFits
  <2> QED
    BY <1>0, <1>1, <1>2, <2>1, OneCallStep DEF TypeOK
<1>3. CASE bucket' = Put(bucket, k, Latest(entries)) /\ Spoil(k)
  <2>1. entries \in Seq(Entry) /\ Len(entries) > 0
    <3>1. loaded \in Seq(Entry) /\ NewEntry(c) \in Entry
      BY <1>0 DEF CallFits, Local, Entry, NewEntry
    <3> HIDE DEF loaded
    <3> QED
      BY <3>1
  <2>2. \A i \in DOMAIN entries : Fits(entries[i], k)
    <3>1. loaded \in Seq(Entry)
      BY <1>0 DEF Local
    <3>2. Fits(NewEntry(c), k) /\ \A i \in DOMAIN loaded : Fits(loaded[i], k)
      BY <1>0 DEF CallFits
    <3> HIDE DEF loaded, k
    <3>3. DOMAIN entries = 1..(Len(loaded) + 1)
      BY <3>1
    <3>4. ASSUME NEW i \in 1..(Len(loaded) + 1)
          PROVE  \/ i \in DOMAIN loaded /\ entries[i] = loaded[i]
                 \/ entries[i] = NewEntry(c)
      BY <3>1
    <3> QED
      BY <3>2, <3>3, <3>4
  <2> HIDE DEF entries
  <2>3. PICK l \in Seq(Entry) : /\ l = Latest(entries) /\ Len(l) \in 1..BucketLimit
                                /\ \A i \in DOMAIN l : Fits(l[i], k)
    BY <2>1, <2>2, LatestType
  <2>4. PICK key \in Key : key = k
    BY <1>0 DEF CallFits, KeyOf, Key, TypeOK
  <2>5. bucket' = [x \in DOMAIN bucket \union {key} |-> IF x = key THEN l ELSE bucket[x]]
    BY <1>3, <2>3, <2>4 DEF Put
  <2>6. /\ local' \in [Call -> Local]
        /\ \A d \in Call :
             \/ local'[d] = local[d]
             \/ pc[d] = "store" /\ local'[d] = [local[d] EXCEPT !.spoiled = TRUE]
    BY <1>0, <1>3, SpoilType
  <2>7. TypeOK'
    <3>1. /\ DOMAIN bucket' \subseteq Key
          /\ \A x \in DOMAIN bucket' : bucket'[x] \in Seq(Entry) /\ Len(bucket'[x]) \in 1..BucketLimit
      BY <1>0, <2>3, <2>4, <2>5 DEF TypeOK
    <3> QED
      BY <1>0, <1>1, <2>6, <3>1 DEF TypeOK
  <2>8. BucketsFit'
    <3> SUFFICES ASSUME NEW x \in DOMAIN bucket', NEW i \in DOMAIN bucket'[x]
                 PROVE  Fits(bucket'[x][i], x)
      BY <1>0 DEF BucketsFit, Fits, Owner, QueryOf, SessionOf
    <3>1. CASE x = key
      <4>1. bucket'[x] = l
        BY <2>5, <3>1
      <4>2. Fits(l[i], x)
        BY <2>3, <2>4, <3>1, <4>1
      <4> QED
        BY <4>1, <4>2
    <3>2. CASE x # key
      <4>1. x \in DOMAIN bucket /\ bucket'[x] = bucket[x]
        BY <2>5, <3>2
      <4>2. Fits(bucket[x][i], x)
        BY <1>0, <4>1 DEF BucketsFit
      <4> QED
        BY <4>1, <4>2
    <3> QED
      BY <3>1, <3>2
  <2>9. ASSUME NEW d \in Call PROVE CallFits(d)'
    <3>1. CASE d = c
      <4>1. local'[c].answer.by = c
        <5>1. local'[c].answer = local[c].answer
          BY <1>0, <2>6 DEF Local
        <5> QED
          BY <1>0, <5>1 DEF CallFits
      <4> QED
        BY <1>1, <3>1, <4>1 DEF CallFits
    <3>2. CASE d # c /\ local'[d] = local[d]
      BY <1>0, <1>1, <3>2, CallStays DEF IInv
    <3>3. CASE /\ d # c /\ pc[d] = "store"
               /\ local'[d] = [local[d] EXCEPT !.spoiled = TRUE]
      BY <1>0, <1>1, <3>3, SpoiledStays DEF IInv
    <3> QED
      BY <2>6, <3>1, <3>2, <3>3
  <2> QED
    BY <2>7, <2>8, <2>9 DEF IInv
<1> QED
  BY <1>2, <1>3 DEF Store

-----------------------------------------------------------------------------
(* The end of a call, the expiry of a bucket, a restart                     *)

\* A call ends.
LEMMA FinishStep ==
    ASSUME IInv, NEW c \in Call, NEW saved \in BOOLEAN, NEW recorded \in BOOLEAN,
           Finish(c, saved, recorded)
    PROVE  IInv'
<1> DEFINE s == SessionOf(c)
<1>0. /\ TypeOK /\ s \in Session
      /\ local' = [local EXCEPT ![c] = Blank]
      /\ pc' = [pc EXCEPT ![c] = IF pc[c] = "raising" THEN "failed" ELSE "done"]
      /\ UNCHANGED <<preferences, bucket, version, context, injected, ask>>
  BY AskType DEF IInv, Finish, processVars, Goto
<1>1. /\ pc' \in [Call -> Step] /\ pc'[c] \in {"failed", "done"}
      /\ \A d \in Call \ {c} : pc'[d] = pc[d] /\ local'[d] = local[d]
      /\ local' \in [Call -> Local]
  BY <1>0, BlankType DEF TypeOK, Step
<1>2. snapshot' \in [Session -> AgentState]
  BY <1>0 DEF Finish, TypeOK
<1>3. turned' \subseteq Session
  BY <1>0 DEF Finish, TypeOK
<1>4. CallFits(c)'
  BY <1>1 DEF CallFits
<1> QED
  BY <1>0, <1>1, <1>2, <1>3, <1>4, OneCallStep DEF TypeOK

\* A bucket expires.
LEMMA ExpireStep == ASSUME IInv, NEW k \in DOMAIN bucket, Expire(k) PROVE IInv'
<1>0. /\ TypeOK /\ BucketsFit
      /\ bucket' = [x \in DOMAIN bucket \ {k} |-> bucket[x]] /\ Spoil(k)
      /\ UNCHANGED <<preferences, turned, snapshot, version, context, injected, ask, pc>>
  BY DEF IInv, Expire, Without, processVars
<1>1. /\ local' \in [Call -> Local]
      /\ \A d \in Call :
           \/ local'[d] = local[d]
           \/ pc[d] = "store" /\ local'[d] = [local[d] EXCEPT !.spoiled = TRUE]
  BY <1>0, SpoilType
<1>2. TypeOK'
  BY <1>0, <1>1 DEF TypeOK
<1>3. BucketsFit'
  BY <1>0 DEF BucketsFit, Fits, Owner, QueryOf, SessionOf
<1>4. ASSUME NEW d \in Call PROVE CallFits(d)'
  <2>1. CASE local'[d] = local[d]
    BY <1>0, <2>1, CallStays DEF IInv
  <2>2. CASE pc[d] = "store" /\ local'[d] = [local[d] EXCEPT !.spoiled = TRUE]
    BY <1>0, <2>2, SpoiledStays DEF IInv
  <2> QED
    BY <1>1, <2>1, <2>2
<1> QED
  BY <1>2, <1>3, <1>4 DEF IInv

\* The process dies and starts again.
LEMMA RestartStep ==
    ASSUME IInv, NEW next \in {version, version + 1}, Restart(next)
    PROVE  IInv'
<1>0. /\ TypeOK
      /\ version' = next /\ context' = snapshot
      /\ injected' = [s \in Session |-> <<>>]
      /\ pc' = [c \in Call |-> IF Open(c) THEN "dead" ELSE pc[c]]
      /\ local' = [c \in Call |-> Blank]
      /\ UNCHANGED <<preferences, bucket, turned, snapshot, ask>>
  BY DEF IInv, Restart, storeVars
<1>1. TypeOK'
  <2>1. pc' \in [Call -> Step] /\ local' \in [Call -> Local]
    BY <1>0, BlankType DEF TypeOK, Step
  <2>2. version' \in Nat /\ context' \in [Session -> AgentState]
    BY <1>0 DEF TypeOK
  <2>3. injected' \in [Session -> Seq(Preference)]
    BY <1>0
  <2> QED
    BY <1>0, <2>1, <2>2, <2>3 DEF TypeOK
<1>2. BucketsFit'
  BY <1>0, BucketsStay DEF IInv
<1>3. ASSUME NEW c \in Call PROVE CallFits(c)'
  <2>1. pc'[c] \in {"waiting", "done", "failed", "dead"} /\ local'[c] = Blank
    BY <1>0 DEF Open
  <2> QED
    BY <2>1 DEF CallFits
<1> QED
  BY <1>1, <1>2, <1>3 DEF IInv

-----------------------------------------------------------------------------
\* Every step keeps the inductive invariant.
LEMMA StepIInv == IInv /\ [Next]_vars => IInv'
<1> SUFFICES ASSUME IInv, [Next]_vars PROVE IInv'
  OBVIOUS
<1>0. Outcomes \subseteq BOOLEAN
  BY DEF Outcomes
<1>1. ASSUME NEW c \in Call, Handle(c) PROVE IInv'
  BY <1>0, <1>1, BeginStep, LookupStep, AgentRepliesStep, LoadStep, StoreStep, FinishStep,
     BuildInputsStep, BuildInputsBlindStep, AgentRaisesStep, EmbedFailsStep DEF Handle
<1>2. ASSUME NEW c \in Call, Tool(c) PROVE IInv'
  BY <1>2, ToolStep
<1>3. ASSUME NEW k \in DOMAIN bucket, Expire(k) PROVE IInv'
  BY <1>3, ExpireStep
<1>4. ASSUME NEW next \in {version, version + 1}, Restart(next) PROVE IInv'
  BY <1>4, RestartStep
<1>5. CASE UNCHANGED vars
  <2>1. UNCHANGED <<preferences, bucket, turned, snapshot, version, context, injected, ask, pc, local>>
    BY <1>5 DEF vars, storeVars, processVars
  <2>2. TypeOK' /\ BucketsFit'
    BY <2>1, BucketsStay DEF IInv, TypeOK
  <2>3. ASSUME NEW c \in Call PROVE CallFits(c)'
    BY <2>1, CallStays DEF IInv
  <2> QED
    BY <2>2, <2>3 DEF IInv
<1> QED
  BY <1>1, <1>2, <1>3, <1>4, <1>5 DEF Next

\* The inductive invariant is an invariant.
LEMMA InvariantIInv == Spec => []IInv
BY InitIInv, StepIInv, PTL DEF Spec

\* The variables keep their types.
THEOREM TypesKept == Spec => []TypeOK
<1>1. IInv => TypeOK
  BY DEF IInv
<1> QED
  BY <1>1, InvariantIInv, PTL

\* Whoever reuses a reply gets one that was made for the same buyer, by the same
\* prompt and models, for a similar and safe query, as a first turn.
THEOREM ReusedRepliesAreOwn == Spec => []ReuseIsOwn
<1>1. IInv => ReuseIsOwn
  BY DEF IInv, CallFits, ReuseFits, ReuseIsOwn, Reuses
<1> QED
  BY <1>1, InvariantIInv, PTL

\* ... and one made from no other preferences than the present ones, unless they
\* changed while it was made.
THEOREM ReusedRepliesFit == Spec => []ReuseFitsPreferences
<1>1. IInv => ReuseFitsPreferences
  BY DEF IInv, CallFits, ReuseFits, ReuseFitsPreferences, Reuses
<1> QED
  BY <1>1, InvariantIInv, PTL

-----------------------------------------------------------------------------
(* What a bucket holds                                                      *)

\* A call that read a bucket nobody wrote since has its other entries.
LoadedInv ==
    \A c \in Call : pc[c] = "store" /\ ~ local[c].spoiled =>
        local[c].loaded = Others(EntriesAt(KeyOf(c)), QueryOf(c))

BucketInv == LoadedInv /\ BucketIsRecent

\* Cutting a list off before a new entry or after it is the same.
LEMMA LatestAppended ==
    ASSUME NEW s \in Seq(Entry), NEW e \in Entry
    PROVE  Latest(Append(s, e))
             = Append(SubSeq(s, IF Len(s) < BucketLimit THEN 1 ELSE Len(s) - BucketLimit + 2, Len(s)), e)
<1> DEFINE n == Len(s)
           m == IF n < BucketLimit THEN 1 ELSE n - BucketLimit + 2
           t == Append(s, e)
<1>1. /\ n \in Nat /\ BucketLimit \in Nat \ {0} /\ m \in 1..(n + 1)
      /\ m = IF n + 1 > BucketLimit THEN n + 1 - BucketLimit + 1 ELSE 1
  BY ReplyCacheAssumption
<1>2. /\ t \in Seq(Entry) /\ Len(t) = n + 1 /\ t[n + 1] = e
      /\ \A i \in 1..n : t[i] = s[i] /\ s[i] \in Entry
  BY AppendProperties
<1>3. Latest(t) = SubSeq(t, m, n + 1)
  <2>1. Latest(t) = SubSeq(t, IF Len(t) > BucketLimit THEN Len(t) - BucketLimit + 1 ELSE 1, Len(t))
    BY DEF Latest
  <2>2. Len(t) = n + 1
    BY <1>2
  <2> HIDE DEF t, n
  <2> QED
    BY <1>1, <2>1, <2>2
<1> HIDE DEF n, m, t
<1>4. \A i \in 1..(n + 1) : t[i] \in Entry
  BY <1>1, <1>2
<1>5. /\ SubSeq(t, m, n + 1) \in Seq(Entry)
      /\ Len(SubSeq(t, m, n + 1)) = n + 1 - m + 1
      /\ \A i \in 1..(n + 1 - m + 1) : SubSeq(t, m, n + 1)[i] = t[m + i - 1]
  <2>1. \A i \in m..(n + 1) : t[i] \in Entry
    BY <1>1, <1>4
  <2> QED
    BY <1>1, <2>1, SubSeqProperties
<1>6. /\ SubSeq(s, m, n) \in Seq(Entry)
      /\ Len(SubSeq(s, m, n)) = n - m + 1
      /\ \A i \in 1..(n - m + 1) : SubSeq(s, m, n)[i] = s[m + i - 1]
  <2>1. \A i \in m..n : s[i] \in Entry
    BY <1>1, <1>2
  <2>2. SubSeq(s, m, n) \in Seq(Entry) /\ Len(SubSeq(s, m, n)) = IF m <= n THEN n - m + 1 ELSE 0
    BY <1>1, <2>1, SubSeqProperties
  <2>3. \A i \in 1..(n - m + 1) : SubSeq(s, m, n)[i] = s[m + i - 1]
    BY <1>1, <2>1, SubSeqProperties
  <2> QED
    BY <1>1, <2>2, <2>3
<1> DEFINE u == SubSeq(s, m, n)
           v == SubSeq(t, m, n + 1)
<1>7. /\ Append(u, e) \in Seq(Entry) /\ Len(Append(u, e)) = n - m + 1 + 1
      /\ \A i \in 1..(n - m + 1) : Append(u, e)[i] = u[i]
      /\ Append(u, e)[n - m + 1 + 1] = e
  BY <1>6, AppendProperties
<1>8. ASSUME NEW i \in 1..(n - m + 1 + 1) PROVE v[i] = Append(u, e)[i]
  <2>1. CASE i \in 1..(n - m + 1)
    <3>1. v[i] = t[m + i - 1] /\ Append(u, e)[i] = s[m + i - 1] /\ m + i - 1 \in 1..n
      BY <1>1, <1>5, <1>6, <1>7, <2>1
    <3> QED
      BY <1>2, <3>1
  <2>2. CASE i = n - m + 1 + 1
    <3>1. v[i] = t[m + i - 1] /\ m + i - 1 = n + 1
      BY <1>1, <1>5, <2>2
    <3> QED
      BY <1>2, <1>7, <2>2, <3>1
  <2> QED
    BY <1>1, <2>1, <2>2
<1>9. v \in Seq(Entry) /\ Len(v) = n - m + 1 + 1
  BY <1>1, <1>5
<1> HIDE DEF u, v
<1>10. v = Append(u, e)
  BY <1>7, <1>8, <1>9, SeqEqual
<1> QED
  BY <1>3, <1>10 DEF u, v, m, n, t

\* A step that writes no bucket and lets no call read one.
LEMMA BucketKept ==
    ASSUME BucketInv, UNCHANGED <<bucket, recent, lossy, ask, version>>,
           \A d \in Call : pc'[d] = "store" => pc[d] = "store" /\ local'[d] = local[d]
    PROVE  BucketInv'
<1>1. \A d \in Call : pc'[d] = "store" => KeyOf(d)' = KeyOf(d) /\ QueryOf(d)' = QueryOf(d)
  BY DEF KeyOf, Owner, QueryOf, SessionOf
<1>2. LoadedInv'
  BY <1>1 DEF BucketInv, LoadedInv, EntriesAt
<1>3. BucketIsRecent'
  BY DEF BucketInv, BucketIsRecent
<1> QED
  BY <1>2, <1>3 DEF BucketInv

\* The other steps of a call are such steps.
LEMMA BucketOfCall ==
    ASSUME TypeOK, BucketInv, NEW c \in Call, NEW ok \in BOOLEAN,
           \/ \E legible \in BOOLEAN : Begin(c, legible, ok)
           \/ Lookup(c, ok) \/ BuildInputs(c) \/ BuildInputsBlind(c) \/ AgentRaises(c)
           \/ \E text \in {"text", "error"} : AgentReplies(c, text, ok)
           \/ EmbedFails(c)
           \/ \E recorded \in BOOLEAN : Finish(c, ok, recorded)
    PROVE  BucketInv'
<1>0. pc \in [Call -> Step] /\ local \in [Call -> Local]
  BY DEF TypeOK
<1>1. UNCHANGED <<bucket, recent, lossy, ask, version>>
  BY DEF Begin, Lookup, BuildInputs, BuildInputsBlind, AgentRaises, AgentReplies, EmbedFails, Finish,
         storeVars, processVars, ghostVars
<1>2. \E x \in Step \ {"store"} : Goto(c, x)
  BY DEF Begin, Lookup, BuildInputs, BuildInputsBlind, AgentRaises, AgentReplies, EmbedFails, Finish, Step
<1>3. local' = local \/ \E l : local' = [local EXCEPT ![c] = l]
  BY DEF Begin, Lookup, BuildInputs, BuildInputsBlind, AgentRaises, AgentReplies, EmbedFails, Finish
<1>4. \A d \in Call : pc'[d] = "store" => pc[d] = "store" /\ local'[d] = local[d]
  BY <1>0, <1>2, <1>3 DEF Goto
<1> QED
  BY <1>1, <1>4, BucketKept

\* So are the steps of the tools.
LEMMA BucketOfTool ==
    ASSUME TypeOK, BucketInv, NEW c \in Call, Tool(c)
    PROVE  BucketInv'
<1>0. pc \in [Call -> Step] /\ local \in [Call -> Local]
  BY DEF TypeOK
<1>1. ASSUME NEW list, Change(c, list) PROVE BucketInv'
  <2>1. UNCHANGED <<bucket, recent, lossy, ask, version, pc>>
    BY <1>1 DEF Change, processVars, ghostVars
  <2>2. \A d \in Call : pc[d] = "store" => local'[d] = local[d]
    BY <1>1 DEF Change, InTheMaking
  <2> QED
    BY <2>1, <2>2, BucketKept
<1>2. CASE DispatchSearch(c)
  <2>1. UNCHANGED <<bucket, recent, lossy, ask, version, pc>> /\ pc[c] = "agent"
    BY <1>2 DEF DispatchSearch, storeVars, processVars, ghostVars
  <2>2. \A d \in Call : d # c => local'[d] = local[d]
    BY <1>0, <1>2 DEF DispatchSearch
  <2> QED
    BY <2>1, <2>2, BucketKept
<1> QED
  BY <1>1, <1>2 DEF Tool, RememberPreference, ForgetPreference

\* A call that reads the bucket has its other entries.
LEMMA BucketLoaded ==
    ASSUME TypeOK, BucketInv, NEW c \in Call, NEW ok \in BOOLEAN, Load(c, ok)
    PROVE  BucketInv'
<1> DEFINE l == IF ok THEN Others(EntriesAt(KeyOf(c)), QueryOf(c)) ELSE <<>>
<1>0. /\ pc \in [Call -> Step] /\ local \in [Call -> Local]
      /\ UNCHANGED <<bucket, recent, lossy, ask, version>>
      /\ pc' = [pc EXCEPT ![c] = "store"]
      /\ local' = [local EXCEPT ![c].loaded = l, ![c].spoiled = ~ ok]
  BY DEF TypeOK, Load, Goto, storeVars, processVars, ghostVars
<1> HIDE DEF l
<1>1. \A d \in Call : d # c => pc'[d] = pc[d] /\ local'[d] = local[d]
  BY <1>0
<1>2. local'[c] = [local[c] EXCEPT !.loaded = l, !.spoiled = ~ ok]
  BY <1>0
<1>3. local'[c].loaded = l /\ local'[c].spoiled = ~ ok /\ local'[c].scope = local[c].scope
  BY <1>0, <1>2 DEF Local
<1>4. \A d \in Call : KeyOf(d)' = KeyOf(d) /\ QueryOf(d)' = QueryOf(d)
  BY <1>0, <1>1, <1>3 DEF KeyOf, Owner, QueryOf, SessionOf
<1>5. \A k : EntriesAt(k)' = EntriesAt(k)
  BY <1>0 DEF EntriesAt
<1>6. ASSUME NEW d \in Call, pc'[d] = "store", ~ local'[d].spoiled
      PROVE  local'[d].loaded = Others(EntriesAt(KeyOf(d)), QueryOf(d))
  <2>1. CASE d = c
    BY <1>3, <1>6, <2>1 DEF l
  <2>2. CASE d # c
    BY <1>1, <1>6, <2>2 DEF BucketInv, LoadedInv
  <2> QED
    BY <2>1, <2>2
<1>7. LoadedInv'
  <2>1. \A d \in Call : Others(EntriesAt(KeyOf(d)), QueryOf(d))' = Others(EntriesAt(KeyOf(d)), QueryOf(d))
    BY <1>4, <1>0 DEF Others, EntriesAt
  <2> QED
    BY <1>6, <2>1 DEF LoadedInv
<1>8. BucketIsRecent'
  BY <1>0 DEF BucketInv, BucketIsRecent
<1> QED
  BY <1>7, <1>8 DEF BucketInv

\* A call writes the bucket: an atomic update would have left the same entries,
\* if none was lost before and nobody wrote since the call read.
LEMMA BucketStored ==
    ASSUME IInv, BucketInv, NEW c \in Call, NEW ok \in BOOLEAN, Store(c, ok)
    PROVE  BucketInv'
<1> DEFINE k == KeyOf(c)
           loaded == local[c].loaded
           e == NewEntry(c)
<1>0. /\ TypeOK /\ BucketsFit /\ CallFits(c) /\ local[c] \in Local
      /\ QueryOf(c) \in Query /\ pc[c] = "store" /\ pc' = [pc EXCEPT ![c] = "finish"]
      /\ UNCHANGED <<ask, version>>
  BY AskType DEF IInv, Store, Goto, processVars, TypeOK
<1>1. \A d \in Call : pc'[d] = "store" => d # c /\ pc[d] = "store"
  BY <1>0 DEF TypeOK
<1>2. CASE UNCHANGED <<bucket, recent, lossy, local>>
  BY <1>0, <1>1, <1>2, BucketKept
<1>3. CASE /\ bucket' = Put(bucket, k, Latest(Append(loaded, e)))
           /\ recent' = Updated(c)
           /\ lossy' = IF local[c].spoiled THEN lossy \union {k} ELSE lossy
           /\ Spoil(k)
  <2>1. ASSUME NEW d \in Call, pc'[d] = "store", ~ local'[d].spoiled
        PROVE  /\ pc[d] = "store" /\ KeyOf(d) # k /\ local'[d] = local[d]
               /\ KeyOf(d)' = KeyOf(d) /\ QueryOf(d)' = QueryOf(d)
    <3>1. pc[d] = "store" /\ KeyOf(d) # k /\ local'[d] = local[d]
      <4>1. pc[d] = "store" /\ local[d] \in Local
        BY <1>0, <1>1, <2>1 DEF TypeOK
      <4>2. local'[d] = IF KeyOf(d) = k THEN [local[d] EXCEPT !.spoiled = TRUE] ELSE local[d]
        BY <1>3, <4>1 DEF Spoil
      <4> HIDE DEF k
      <4> QED
        BY <2>1, <4>1, <4>2 DEF Local
    <3> QED
      BY <1>0, <3>1 DEF KeyOf, Owner, QueryOf, SessionOf
  <2>2. \A x : x # k => EntriesAt(x)' = EntriesAt(x)
    BY <1>3 DEF Put, EntriesAt
  <2>3. LoadedInv'
    <3>1. ASSUME NEW d \in Call, pc'[d] = "store", ~ local'[d].spoiled
          PROVE  local'[d].loaded = Others(EntriesAt(KeyOf(d)), QueryOf(d))'
      <4>1. EntriesAt(KeyOf(d))' = EntriesAt(KeyOf(d))
        BY <2>1, <2>2, <3>1 DEF EntriesAt
      <4>2. Others(EntriesAt(KeyOf(d)), QueryOf(d))' = Others(EntriesAt(KeyOf(d)), QueryOf(d))
        BY <2>1, <3>1, <4>1 DEF Others
      <4> QED
        BY <2>1, <3>1, <4>2 DEF BucketInv, LoadedInv
    <3> QED
      BY <3>1 DEF LoadedInv
  <2>4. ~ local[c].spoiled /\ k \notin lossy => Latest(Append(loaded, e)) = Updated(c)[k]
    <3> SUFFICES ASSUME ~ local[c].spoiled, k \notin lossy
                 PROVE  Latest(Append(loaded, e)) = Updated(c)[k]
      OBVIOUS
    <3> DEFINE old == IF k \in DOMAIN recent THEN recent[k] ELSE <<>>
               others == Subsequence(old, {i \in DOMAIN old : old[i].query # QueryOf(c)})
    <3>1. old = EntriesAt(k)
      BY DEF BucketInv, BucketIsRecent, EntriesAt
    <3>2. others = loaded
      BY <1>0, <3>1 DEF BucketInv, LoadedInv, Others
    <3>3. loaded \in Seq(Entry) /\ e \in Entry
      BY <1>0 DEF CallFits, Local, Entry, NewEntry
    <3> HIDE DEF others, loaded, old, e
    <3>4. Latest(Append(loaded, e))
            = Append(SubSeq(loaded, IF Len(loaded) < BucketLimit THEN 1
                                    ELSE Len(loaded) - BucketLimit + 2, Len(loaded)), e)
      BY <3>3, LatestAppended
    <3>5. Updated(c)[k]
            = Append(SubSeq(others, IF Len(others) < BucketLimit THEN 1
                                    ELSE Len(others) - BucketLimit + 2, Len(others)), e)
      BY DEF Updated, Put, others, old, e
    <3> QED
      BY <3>2, <3>4, <3>5
  <2>5. BucketIsRecent'
    <3>0. k \in DOMAIN bucket' /\ k \in DOMAIN recent' /\ recent'[k] = Updated(c)[k]
          /\ bucket'[k] = Latest(Append(loaded, e))
      BY <1>3 DEF Put, Updated
    <3>00. /\ \A x : x # k => (x \in DOMAIN bucket' <=> x \in DOMAIN bucket)
                           /\ (x \in DOMAIN recent' <=> x \in DOMAIN recent)
           /\ \A x \in DOMAIN bucket' : x # k => bucket'[x] = bucket[x]
           /\ \A x \in DOMAIN recent' : x # k => recent'[x] = recent[x]
      <4> HIDE DEF k, e, loaded
      <4>1. \A x : x # k => (x \in DOMAIN bucket' <=> x \in DOMAIN bucket)
        BY <1>3 DEF Put
      <4>2. \A x \in DOMAIN bucket' : x # k => bucket'[x] = bucket[x]
        BY <1>3 DEF Put
      <4>3. \E l : recent' = Put(recent, k, l)
        BY <1>3 DEF Updated, k
      <4>4. PICK l : recent' = Put(recent, k, l)
        BY <4>3
      <4> QED
        BY <4>1, <4>2, <4>4 DEF Put
    <3>1. ASSUME NEW x \in (DOMAIN bucket' \union DOMAIN recent') \ lossy'
          PROVE  /\ x \in DOMAIN bucket' \intersect DOMAIN recent'
                 /\ bucket'[x] = recent'[x]
      <4>1. CASE x = k
        <5>1. ~ local[c].spoiled /\ k \notin lossy
          BY <1>3, <3>1, <4>1
        <5> QED
          BY <2>4, <3>0, <4>1, <5>1
      <4>2. CASE x # k
        <5>1. x \notin lossy
          BY <1>3, <3>1
        <5>2. x \in (DOMAIN bucket \union DOMAIN recent) \ lossy
          BY <3>1, <3>00, <4>2, <5>1
        <5>3. x \in DOMAIN bucket \intersect DOMAIN recent /\ bucket[x] = recent[x]
          BY <5>2 DEF BucketInv, BucketIsRecent
        <5> QED
          BY <3>00, <4>2, <5>3
      <4> QED
        BY <4>1, <4>2
    <3> QED
      BY <3>1 DEF BucketIsRecent
  <2> QED
    BY <2>3, <2>5 DEF BucketInv
<1> QED
  BY <1>2, <1>3 DEF Store

\* A bucket expires, in the abstract too.
LEMMA BucketExpired ==
    ASSUME TypeOK, BucketInv, NEW k \in DOMAIN bucket, Expire(k)
    PROVE  BucketInv'
<1>0. /\ bucket' = [x \in DOMAIN bucket \ {k} |-> bucket[x]]
      /\ recent' = [x \in DOMAIN recent \ {k} |-> recent[x]]
      /\ lossy' = lossy \ {k} /\ Spoil(k)
      /\ UNCHANGED <<pc, ask, version>>
  BY DEF Expire, Without, processVars
<1>1. ASSUME NEW d \in Call, pc'[d] = "store", ~ local'[d].spoiled
      PROVE  /\ pc[d] = "store" /\ KeyOf(d) # k /\ local'[d] = local[d]
             /\ KeyOf(d)' = KeyOf(d) /\ QueryOf(d)' = QueryOf(d)
  <2>1. pc[d] = "store" /\ local[d] \in Local
    BY <1>0, <1>1 DEF TypeOK
  <2>2. local'[d] = IF KeyOf(d) = k THEN [local[d] EXCEPT !.spoiled = TRUE] ELSE local[d]
    BY <1>0, <2>1 DEF Spoil
  <2>3. KeyOf(d) # k /\ local'[d] = local[d]
    BY <1>1, <2>1, <2>2 DEF Local
  <2> QED
    BY <1>0, <2>1, <2>3 DEF KeyOf, Owner, QueryOf, SessionOf
<1>2. \A x : x # k => EntriesAt(x)' = EntriesAt(x)
  BY <1>0 DEF EntriesAt
<1>3. ASSUME NEW d \in Call, pc'[d] = "store", ~ local'[d].spoiled
      PROVE  local'[d].loaded = Others(EntriesAt(KeyOf(d)), QueryOf(d))'
  <2>1. EntriesAt(KeyOf(d))' = EntriesAt(KeyOf(d))
    BY <1>1, <1>2, <1>3 DEF EntriesAt
  <2>2. Others(EntriesAt(KeyOf(d)), QueryOf(d))' = Others(EntriesAt(KeyOf(d)), QueryOf(d))
    BY <1>1, <1>3, <2>1 DEF Others
  <2> QED
    BY <1>1, <1>3, <2>2 DEF BucketInv, LoadedInv
<1>4. LoadedInv'
  BY <1>3 DEF LoadedInv
<1>5. BucketIsRecent'
  BY <1>0 DEF BucketInv, BucketIsRecent
<1> QED
  BY <1>4, <1>5 DEF BucketInv

\* Every step keeps the buckets as atomic updates would have left them.
LEMMA BucketStep == IInv /\ BucketInv /\ [Next]_vars => BucketInv'
<1> SUFFICES ASSUME IInv, BucketInv, [Next]_vars PROVE BucketInv'
  OBVIOUS
<1>0. TypeOK /\ Outcomes \subseteq BOOLEAN
  BY DEF IInv, Outcomes
<1>1. ASSUME NEW c \in Call, Handle(c) PROVE BucketInv'
  BY <1>0, <1>1, BucketOfCall, BucketLoaded, BucketStored DEF Handle
<1>2. ASSUME NEW c \in Call, Tool(c) PROVE BucketInv'
  BY <1>0, <1>2, BucketOfTool
<1>3. ASSUME NEW k \in DOMAIN bucket, Expire(k) PROVE BucketInv'
  BY <1>0, <1>3, BucketExpired
<1>4. ASSUME NEW next \in {version, version + 1}, Restart(next) PROVE BucketInv'
  <2>1. UNCHANGED <<bucket, recent, lossy>> /\ \A d \in Call : pc'[d] # "store"
    BY <1>4 DEF Restart, storeVars, ghostVars, Open
  <2> QED
    BY <2>1 DEF BucketInv, LoadedInv, BucketIsRecent
<1>5. CASE UNCHANGED vars
  BY <1>5, BucketKept DEF vars, storeVars, processVars, ghostVars
<1> QED
  BY <1>1, <1>2, <1>3, <1>4, <1>5 DEF Next

\* A bucket holds what atomic updates would have left in it, whatever the limit
\* on its entries, unless a loss has been recorded for its key.
THEOREM BucketsAreRecent == Spec => []BucketIsRecent
<1>1. Init => BucketInv
  BY DEF Init, BucketInv, LoadedInv, BucketIsRecent
<1>2. IInv /\ BucketInv /\ [Next]_vars => BucketInv'
  BY BucketStep
<1>3. BucketInv => BucketIsRecent
  BY DEF BucketInv
<1> QED
  BY <1>1, <1>2, <1>3, InvariantIInv, PTL DEF Spec

-----------------------------------------------------------------------------
(* What the agents have been told                                           *)

\* No agent of the session has raised.
Unfailed(s) == \A d \in Call : SessionOf(d) = s => pc[d] # "failed"

\* A hint holds every dislike of a list.
Covers(hint, list) == \A i \in DOMAIN list : list[i].kind = "dislike" => Listed(hint, list[i])

\* The places after the agent's reply.
Replied == {"load", "store", "finish"}

\* A session has one open call.
OneOpen == \A c, d \in Call : Open(c) /\ Open(d) /\ SessionOf(c) = SessionOf(d) => c = d

\* Between its agent's runs, what a session was given last is the hint in the
\* state of its agent.
InjectedAt(s) ==
    /\ Unfailed(s)
    /\ \A d \in Call : SessionOf(d) = s => pc[d] \notin {"agent", "raising"}
    => injected[s] \in {<<>>, context[s].hint}

\* What is known of the hint at the places of a call that read the preferences
\* (its hint is not Unread) or did not.
CallHint(c) ==
    LET s == SessionOf(c)
        l == local[c]
    IN
    /\ pc[c] \in {"lookup", "inputs"} => l.hint = Unread /\ ~ l.shown
    /\ pc[c] \in Replied /\ l.answer # None /\ l.answer.by # c => l.hint = Unread
    /\ pc[c] = "agent" /\ l.hint = Unread =>
          /\ ~ l.shown
          /\ Unfailed(s) => injected[s] \in {<<>>, context[s].hint}
    /\ pc[c] = "agent" /\ l.hint # Unread =>
          /\ injected[s] = l.hint
          /\ Unfailed(s) => l.shown \/ l.hint \in {<<>>, context[s].hint}
          /\ ~ l.disturbed => Covers(l.hint, preferences[Owner(c)])
    /\ pc[c] \in Replied /\ l.hint # Unread =>
          /\ Unfailed(s) => l.hint \in {<<>>, context[s].hint}
          /\ ~ l.disturbed => \A list \in l.basis : Covers(l.hint, list)

HintInv ==
    /\ OneOpen
    /\ \A s \in Session : InjectedAt(s)
    /\ \A c \in Call : CallHint(c)

\* Whatever select returns holds every dislike.
LEMMA SelectionsCover ==
    ASSUME NEW list \in Seq(Preference), NEW selected \in Selections(list)
    PROVE  Covers(selected, list)
<1> DEFINE disliked == OfKind(list, "dislike")
<1>1. PICK best \in SUBSET OfKind(list, "like") :
        selected = Subsequence(list, disliked) \o Subsequence(list, best)
  BY DEF Selections
<1>2. disliked \in SUBSET DOMAIN list /\ best \in SUBSET DOMAIN list
  BY DEF OfKind
<1>3. PICK u \in Seq(Preference) : u = Subsequence(list, disliked)
  BY <1>2, SubsequenceType
<1>4. PICK v \in Seq(Preference) : v = Subsequence(list, best)
  BY <1>2, SubsequenceType
<1>5. ASSUME NEW i \in DOMAIN list, list[i].kind = "dislike" PROVE Listed(selected, list[i])
  <2>1. i \in disliked
    BY <1>5 DEF OfKind
  <2>2. PICK k \in DOMAIN u : u[k] = list[i]
    BY <1>2, <1>3, <2>1, SubsequenceHolds
  <2>3. k \in DOMAIN (u \o v) /\ (u \o v)[k] = u[k]
    BY <1>3, <1>4
  <2> QED
    BY <1>1, <1>3, <1>4, <2>2, <2>3 DEF Listed
<1> QED
  BY <1>5 DEF Covers

\* The questions do not change, so neither do sessions and owners.
LEMMA SessionsStay ==
    ASSUME UNCHANGED ask, NEW c
    PROVE  SessionOf(c)' = SessionOf(c) /\ Owner(c)' = Owner(c)
BY DEF SessionOf, Owner

\* A step of the session's only call: what it leaves to check.
LEMMA HintOfOne ==
    ASSUME HintInv, NEW c \in Call, UNCHANGED <<ask, preferences>>,
           \A d \in Call : d # c /\ SessionOf(d) = SessionOf(c) => ~ Open(d),
           \A d \in Call : d # c => pc'[d] = pc[d] /\ local'[d] = local[d],
           \A s \in Session : s # SessionOf(c) => injected'[s] = injected[s] /\ context'[s] = context[s],
           \A d \in Call : SessionOf(d) \in Session,
           InjectedAt(SessionOf(c))', CallHint(c)'
    PROVE  HintInv'
<1>0. \A d : SessionOf(d)' = SessionOf(d) /\ Owner(d)' = Owner(d)
  BY SessionsStay
<1>1. OneOpen'
  BY <1>0 DEF HintInv, OneOpen, Open
<1>2. ASSUME NEW s \in Session, s # SessionOf(c) PROVE InjectedAt(s)' /\ (Unfailed(s)' <=> Unfailed(s))
  <2>1. InjectedAt(s)
    BY DEF HintInv
  <2>2. \A d \in Call : SessionOf(d) = s => pc'[d] = pc[d]
    BY <1>2
  <2>3. Unfailed(s)' <=> Unfailed(s)
    BY <1>0, <2>2 DEF Unfailed
  <2> QED
    BY <1>0, <1>2, <2>1, <2>2, <2>3 DEF InjectedAt
<1>3. \A s \in Session : InjectedAt(s)'
  BY <1>0, <1>2
<1>4. ASSUME NEW d \in Call, d # c PROVE CallHint(d)'
  <2>0. pc'[d] = pc[d] /\ local'[d] = local[d]
    BY <1>4
  <2>1. CASE SessionOf(d) = SessionOf(c)
    <3>1. pc'[d] \in {"waiting", "done", "failed", "dead"}
      BY <1>4, <2>0, <2>1 DEF Open
    <3> QED
      BY <3>1 DEF CallHint, Replied
  <2>2. CASE SessionOf(d) # SessionOf(c)
    <3> DEFINE s == SessionOf(d)
    <3>1. /\ injected'[s] = injected[s] /\ context'[s] = context[s]
          /\ (Unfailed(s)' <=> Unfailed(s)) /\ SessionOf(d)' = s /\ Owner(d)' = Owner(d)
      BY <1>0, <1>2, <2>2
    <3>2. CallHint(d)
      BY DEF HintInv
    <3>3. Unfailed(SessionOf(d))' <=> Unfailed(SessionOf(d))
      BY <1>0, <3>1 DEF Unfailed
    <3> QED
      BY <2>0, <3>1, <3>2, <3>3 DEF CallHint, Covers, Listed
  <2> QED
    BY <2>1, <2>2
<1> QED
  BY <1>1, <1>3, <1>4 DEF HintInv

\* A step that changes nothing the agents know.
LEMMA HintKept ==
    ASSUME HintInv, UNCHANGED <<ask, preferences, injected, context>>,
           \A d \in Call :
              /\ pc'[d] = pc[d] \/ (pc'[d] \in Replied /\ pc[d] \in Replied)
              /\ local'[d].hint = local[d].hint /\ local'[d].shown = local[d].shown
              /\ local'[d].answer = local[d].answer /\ local'[d].basis = local[d].basis
              /\ local'[d].disturbed = local[d].disturbed
    PROVE  HintInv'
<1>0. \A d : SessionOf(d)' = SessionOf(d) /\ Owner(d)' = Owner(d)
  BY SessionsStay
<1>1. \A d \in Call : Open(d)' <=> Open(d)
  BY DEF Open, Replied
<1>2. OneOpen'
  BY <1>0, <1>1 DEF HintInv, OneOpen
<1>3. \A s : Unfailed(s)' <=> Unfailed(s)
  BY <1>0 DEF Unfailed, Replied
<1>4. ASSUME NEW s \in Session PROVE InjectedAt(s)'
  <2>1. InjectedAt(s)
    BY DEF HintInv
  <2> QED
    BY <1>0, <1>3, <2>1 DEF InjectedAt, Replied
<1>5. ASSUME NEW d \in Call PROVE CallHint(d)'
  <2>1. CallHint(d)
    BY DEF HintInv
  <2>2. Unfailed(SessionOf(d))' <=> Unfailed(SessionOf(d))
    BY <1>0, <1>3 DEF Unfailed
  <2> QED
    BY <1>0, <2>1, <2>2 DEF CallHint, Covers, Listed, Replied
<1> QED
  BY <1>2, <1>4, <1>5 DEF HintInv

\* An open call is the only one of its session.
LEMMA OpenAlone ==
    ASSUME HintInv, NEW c \in Call, Open(c)
    PROVE  \A d \in Call : d # c /\ SessionOf(d) = SessionOf(c) => ~ Open(d)
BY DEF HintInv, OneOpen

\* A call begins, or looks for a reply.
LEMMA HintOfLooking ==
    ASSUME IInv, HintInv, NEW c \in Call, NEW ok \in BOOLEAN,
           (\E legible \in BOOLEAN : Begin(c, legible, ok)) \/ Lookup(c, ok)
    PROVE  HintInv'
<1> DEFINE s == SessionOf(c)
<1>0. /\ TypeOK /\ CallFits(c) /\ CallHint(c) /\ local[c] \in Local
      /\ \A d \in Call : SessionOf(d) \in Session
      /\ pc \in [Call -> Step] /\ local \in [Call -> Local]
      /\ UNCHANGED <<ask, preferences, injected, context>>
      /\ pc[c] \in {"waiting", "lookup"}
  BY AskType DEF IInv, TypeOK, HintInv, Begin, Lookup, storeVars, processVars
<1>1. \A d \in Call : d # c /\ SessionOf(d) = s => ~ Open(d)
  BY OpenAlone DEF Begin, Lookup, Open
<1>2. PICK l : /\ local' = [local EXCEPT ![c] = l]
               /\ l.hint = Unread /\ ~ l.shown
  <2>1. ASSUME NEW legible \in BOOLEAN, Begin(c, legible, ok)
        PROVE  \E l : local' = [local EXCEPT ![c] = l] /\ l.hint = Unread /\ ~ l.shown
    <3> DEFINE old == ~ legible \/ s \in turned \/ context[s].started
               scope == IF ok THEN preferences[Owner(c)] ELSE Unread
    <3>1. local' = [local EXCEPT ![c].history = old, ![c].scope = scope] /\ local[c] = Blank
      BY <1>0, <2>1 DEF Begin, CallFits
    <3> HIDE DEF old, scope
    <3> DEFINE l == [local[c] EXCEPT !.history = old, !.scope = scope]
    <3>2. local' = [local EXCEPT ![c] = l]
      BY <1>0, <3>1
    <3>3. l.hint = Unread /\ ~ l.shown
      BY <1>0, <3>1 DEF Local, Blank
    <3> QED
      BY <3>2, <3>3
  <2>2. CASE Lookup(c, ok)
    <3>1. pc[c] = "lookup" /\ local[c].hint = Unread /\ ~ local[c].shown
      BY <1>0, <2>2 DEF Lookup, CallHint
    <3>2. local' = local \/ \E r : local' = [local EXCEPT ![c].answer = r]
      BY <2>2 DEF Lookup
    <3>3. CASE local' = local
      <4>1. local' = [local EXCEPT ![c] = local[c]]
        BY <1>0, <3>3
      <4> QED
        BY <3>1, <4>1
    <3>4. ASSUME NEW r, local' = [local EXCEPT ![c].answer = r]
          PROVE  \E l : local' = [local EXCEPT ![c] = l] /\ l.hint = Unread /\ ~ l.shown
      <4> DEFINE l == [local[c] EXCEPT !.answer = r]
      <4>1. local' = [local EXCEPT ![c] = l] /\ l.hint = Unread /\ ~ l.shown
        BY <1>0, <3>1, <3>4 DEF Local
      <4> QED
        BY <4>1
    <3> QED
      BY <3>2, <3>3, <3>4
  <2> QED
    BY <2>1, <2>2
<1>3. PICK x \in {"lookup", "inputs", "finish"} : pc' = [pc EXCEPT ![c] = x]
  BY DEF Begin, Lookup, Goto
<1>4. /\ \A d \in Call : d # c => pc'[d] = pc[d] /\ local'[d] = local[d]
      /\ pc'[c] = x /\ local'[c].hint = Unread /\ ~ local'[c].shown
  BY <1>0, <1>2, <1>3
<1>5. \A d : SessionOf(d)' = SessionOf(d) /\ Owner(d)' = Owner(d)
  BY <1>0, SessionsStay
<1>6. InjectedAt(s)'
  <2>1. Unfailed(s)' => Unfailed(s)
    BY <1>0, <1>4, <1>5 DEF Unfailed
  <2>2. \A d \in Call : pc[d] \in {"agent", "raising"} => pc'[d] \in {"agent", "raising"}
    BY <1>0, <1>4
  <2> QED
    BY <1>0, <1>5, <2>1, <2>2 DEF HintInv, InjectedAt
<1>7. CallHint(c)'
  BY <1>4 DEF CallHint
<1> QED
  BY <1>0, <1>1, <1>4, <1>6, <1>7, HintOfOne

\* The agent's inputs are built.
LEMMA HintOfInputs ==
    ASSUME IInv, HintInv, NEW c \in Call, BuildInputs(c) \/ BuildInputsBlind(c)
    PROVE  HintInv'
<1> DEFINE s == SessionOf(c)
           list == preferences[Owner(c)]
<1>0. /\ TypeOK /\ CallFits(c) /\ CallHint(c) /\ local[c] \in Local
      /\ \A d \in Call : SessionOf(d) \in Session
      /\ pc \in [Call -> Step] /\ local \in [Call -> Local] /\ list \in Seq(Preference)
      /\ UNCHANGED <<ask, preferences, context>>
      /\ pc[c] = "inputs" /\ pc' = [pc EXCEPT ![c] = "agent"]
      /\ injected \in [Session -> Seq(Preference)]
  BY AskType DEF IInv, TypeOK, HintInv, BuildInputs, BuildInputsBlind, storeVars, processVars, Goto
<1>1. \A d \in Call : d # c /\ SessionOf(d) = s => ~ Open(d)
  BY <1>0, OpenAlone DEF Open
<1>2. \A d \in Call : d # c => pc'[d] = pc[d]
  BY <1>0
<1>3. \A d : SessionOf(d)' = SessionOf(d) /\ Owner(d)' = Owner(d)
  BY <1>0, SessionsStay
<1>4. Unfailed(s)' => Unfailed(s)
  BY <1>0, <1>2, <1>3 DEF Unfailed
<1>5. Unfailed(s) => injected[s] \in {<<>>, context[s].hint}
  <2>1. \A d \in Call : SessionOf(d) = s => pc[d] \notin {"agent", "raising"}
    BY <1>0, <1>1 DEF Open
  <2> QED
    BY <1>0, <2>1 DEF HintInv, InjectedAt
<1>6. InjectedAt(s)'
  <2>1. pc'[c] = "agent"
    BY <1>0
  <2> QED
    BY <1>3, <2>1 DEF InjectedAt
<1>7. CASE BuildInputs(c)
  <2>1. PICK selected \in Selections(list) :
          /\ local' = [local EXCEPT ![c].hint = selected,
                                    ![c].shown = selected \notin {<<>>, injected[s]},
                                    ![c].basis = {list}]
          /\ injected' = [injected EXCEPT ![s] = selected]
    BY <1>7 DEF BuildInputs
  <2>2. selected \in Seq(Preference) /\ Covers(selected, list) /\ selected # Unread
    BY <1>0, <2>1, SelectionsType, SelectionsCover, ReplyCacheAssumption
  <2> DEFINE shown == selected \notin {<<>>, injected[s]}
             bases == {list}
  <2>3. /\ local' = [local EXCEPT ![c].hint = selected, ![c].shown = shown, ![c].basis = bases]
        /\ shown = (selected \notin {<<>>, injected[s]})
    BY <2>1
  <2> HIDE DEF shown, bases
  <2>4. /\ local'[c].hint = selected /\ local'[c].shown = shown
        /\ local'[c].disturbed = local[c].disturbed
        /\ \A d \in Call : d # c => local'[d] = local[d]
    BY <1>0, <2>3 DEF Local
  <2>5. /\ injected'[s] = selected
        /\ \A t \in Session : t # s => injected'[t] = injected[t] /\ context'[t] = context[t]
    BY <1>0, <2>1
  <2>6. CallHint(c)'
    <3>1. pc'[c] = "agent"
      BY <1>0
    <3>2. Unfailed(s)' => shown \/ selected \in {<<>>, context[s].hint}
      BY <1>4, <1>5, <2>3
    <3>3. Unfailed(SessionOf(c))' => Unfailed(s)'
      BY <1>3 DEF Unfailed
    <3>4. Covers(selected, list)' <=> Covers(selected, list)
      BY <1>0, <1>3 DEF Covers, Listed
    <3>5. /\ injected'[s] = local'[c].hint
          /\ Unfailed(SessionOf(c))' => local'[c].shown \/ local'[c].hint \in {<<>>, context'[s].hint}
          /\ Covers(local[c].hint, preferences[Owner(c)])'
      BY <1>0, <1>3, <2>2, <2>4, <2>5, <3>2, <3>3, <3>4 DEF Covers, Listed
    <3>6. local'[c].hint # Unread
      BY <2>2, <2>4
    <3> QED
      BY <1>3, <3>1, <3>5, <3>6 DEF CallHint, Replied
  <2> QED
    BY <1>0, <1>1, <1>2, <1>6, <2>4, <2>5, <2>6, HintOfOne
<1>8. CASE BuildInputsBlind(c)
  <2>1. UNCHANGED <<local, injected>>
    BY <1>8 DEF BuildInputsBlind, processVars
  <2>2. CallHint(c)'
    <3>1. pc'[c] = "agent" /\ local[c].hint = Unread /\ ~ local[c].shown
      BY <1>0 DEF CallHint
    <3>2. Unfailed(SessionOf(c))' => injected[s] \in {<<>>, context[s].hint}
      BY <1>3, <1>4, <1>5 DEF Unfailed
    <3> QED
      BY <1>0, <1>3, <2>1, <3>1, <3>2 DEF CallHint, Replied
  <2> QED
    BY <1>0, <1>1, <1>2, <1>6, <2>1, <2>2, HintOfOne
<1> QED
  BY <1>7, <1>8

\* A tool of the agent's: a reply in the making whose preferences change is
\* marked.
LEMMA HintOfTool ==
    ASSUME IInv, HintInv, NEW c \in Call, Tool(c)
    PROVE  HintInv'
<1>0. /\ TypeOK /\ local \in [Call -> Local] /\ pc \in [Call -> Step]
      /\ preferences \in [Buyer -> Seq(Preference)]
      /\ \A d \in Call : SessionOf(d) \in Session /\ Owner(d) \in Buyer
  BY AskType DEF IInv, TypeOK
<1>1. ASSUME NEW list, Change(c, list) PROVE HintInv'
  <2> DEFINE b == Owner(c)
  <2>0. /\ UNCHANGED <<ask, pc, injected, context>>
        /\ preferences' = [preferences EXCEPT ![b] = list]
        /\ local' = [d \in Call |-> IF d \in InTheMaking(b) THEN [local[d] EXCEPT !.disturbed = TRUE]
                                                       ELSE local[d]]
    BY <1>1 DEF Change, processVars
  <2>1. \A d : SessionOf(d)' = SessionOf(d) /\ Owner(d)' = Owner(d)
    BY <2>0, SessionsStay
  <2>2. \A d \in Call : Open(d)' <=> Open(d)
    BY <2>0 DEF Open
  <2>3. OneOpen' /\ \A s : Unfailed(s)' <=> Unfailed(s)
    BY <2>0, <2>1, <2>2 DEF HintInv, OneOpen, Unfailed
  <2>4. \A s \in Session : InjectedAt(s)'
    BY <2>0, <2>1, <2>3 DEF HintInv, InjectedAt
  <2>5. ASSUME NEW d \in Call PROVE CallHint(d)'
    <3>1. CallHint(d) /\ (Unfailed(SessionOf(d))' <=> Unfailed(SessionOf(d)))
      BY <2>1, <2>3 DEF HintInv, Unfailed
    <3>2. CASE d \in InTheMaking(b)
      <4>1. pc'[d] = "agent" /\ local'[d] = [local[d] EXCEPT !.disturbed = TRUE] /\ local[d] \in Local
        BY <1>0, <2>0, <3>2 DEF InTheMaking
      <4>2. /\ local'[d].disturbed
            /\ local'[d].hint = local[d].hint /\ local'[d].shown = local[d].shown
        BY <4>1 DEF Local
      <4> QED
        BY <2>0, <2>1, <3>1, <4>1, <4>2 DEF CallHint, Replied
    <3>3. CASE d \notin InTheMaking(b)
      <4>1. local'[d] = local[d]
        BY <2>0, <3>3
      <4>2. pc[d] = "agent" => preferences'[Owner(d)] = preferences[Owner(d)]
        BY <1>0, <2>0, <3>3 DEF InTheMaking
      <4> QED
        BY <2>0, <2>1, <3>1, <4>1, <4>2 DEF CallHint, Covers, Listed
    <3> QED
      BY <3>2, <3>3
  <2> QED
    BY <2>3, <2>4, <2>5 DEF HintInv
<1>2. CASE DispatchSearch(c)
  <2>1. /\ UNCHANGED <<ask, pc, preferences, injected, context>> /\ pc[c] = "agent"
        /\ local' = [local EXCEPT ![c].basis = @ \union {preferences[Owner(c)]}]
    BY <1>2 DEF DispatchSearch, storeVars, processVars
  <2>2. PICK bases : local' = [local EXCEPT ![c].basis = bases]
    BY <2>1
  <2>3. /\ \A d \in Call : d # c => local'[d] = local[d]
        /\ local'[c].hint = local[c].hint /\ local'[c].shown = local[c].shown
        /\ local'[c].disturbed = local[c].disturbed
    BY <1>0, <2>2 DEF Local
  <2>4. \A d : SessionOf(d)' = SessionOf(d) /\ Owner(d)' = Owner(d)
    BY <2>1, SessionsStay
  <2>5. CallHint(c)'
    <3>1. CallHint(c) /\ (Unfailed(SessionOf(c))' <=> Unfailed(SessionOf(c)))
      BY <2>1, <2>4 DEF HintInv, Unfailed
    <3> QED
      BY <2>1, <2>3, <2>4, <3>1 DEF CallHint, Covers, Listed, Replied
  <2>6. InjectedAt(SessionOf(c))'
    <3>1. InjectedAt(SessionOf(c))
      BY <1>0 DEF HintInv
    <3> QED
      BY <2>1, <2>4, <3>1 DEF InjectedAt, Unfailed
  <2>7. \A d \in Call : d # c /\ SessionOf(d) = SessionOf(c) => ~ Open(d)
    BY <2>1, OpenAlone DEF Open
  <2> QED
    BY <1>0, <2>1, <2>3, <2>5, <2>6, <2>7, HintOfOne
<1> QED
  BY <1>1, <1>2 DEF Tool, RememberPreference, ForgetPreference

\* The agent raises.
LEMMA HintOfRaising ==
    ASSUME IInv, HintInv, NEW c \in Call, AgentRaises(c)
    PROVE  HintInv'
<1>0. /\ pc \in [Call -> Step] /\ context \in [Session -> AgentState]
      /\ \A d \in Call : SessionOf(d) \in Session
      /\ UNCHANGED <<ask, preferences, injected, local>>
      /\ pc[c] = "agent" /\ pc' = [pc EXCEPT ![c] = "raising"]
      /\ TakeIn(c) \/ UNCHANGED context
  BY AskType DEF IInv, TypeOK, AgentRaises, storeVars, Goto
<1>1. \A d \in Call : d # c /\ SessionOf(d) = SessionOf(c) => ~ Open(d)
  BY <1>0, OpenAlone DEF Open
<1>2. pc'[c] = "raising" /\ \A d \in Call : d # c => pc'[d] = pc[d]
  BY <1>0
<1>3. \A s \in Session : s # SessionOf(c) => context'[s] = context[s]
  BY <1>0 DEF TakeIn
<1>4. InjectedAt(SessionOf(c))'
  <2>1. SessionOf(c)' = SessionOf(c)
    BY <1>0, SessionsStay
  <2> QED
    BY <1>2, <2>1 DEF InjectedAt
<1>5. CallHint(c)'
  BY <1>2 DEF CallHint, Replied
<1> QED
  BY <1>0, <1>1, <1>2, <1>3, <1>4, <1>5, HintOfOne

\* The agent replies: the hint it was shown is the last one in its state, and
\* one it was not shown was there before.
LEMMA HintOfReplying ==
    ASSUME IInv, HintInv, NEW c \in Call, NEW text \in {"text", "error"}, NEW ok \in BOOLEAN,
           AgentReplies(c, text, ok)
    PROVE  HintInv'
<1> DEFINE s == SessionOf(c)
           l == local[c]
           scope == IF ok THEN preferences[Owner(c)] ELSE Unread
           reply == ReplyOf(c, text, scope)
<1>0. /\ CallFits(c) /\ CallHint(c) /\ l \in Local /\ s \in Session
      /\ pc \in [Call -> Step] /\ context \in [Session -> AgentState] /\ local \in [Call -> Local]
      /\ \A d \in Call : SessionOf(d) \in Session
      /\ UNCHANGED <<ask, preferences, injected>>
      /\ pc[c] = "agent" /\ pc' = [pc EXCEPT ![c] = IF ok /\ Worthy(c, text) THEN "load" ELSE "finish"]
      /\ TakeIn(c)
      /\ local' = [local EXCEPT ![c].answer = reply, ![c].scope = scope]
  BY AskType DEF IInv, TypeOK, HintInv, AgentReplies, storeVars, Goto
<1>1. \A d \in Call : d # c /\ SessionOf(d) = s => ~ Open(d)
  BY <1>0, OpenAlone DEF Open
<1>2. pc'[c] \in {"load", "finish"} /\ \A d \in Call : d # c => pc'[d] = pc[d]
  BY <1>0
<1>3. /\ \A t \in Session : t # s => context'[t] = context[t]
      /\ context'[s].hint = IF l.shown THEN l.hint ELSE context[s].hint
  BY <1>0 DEF TakeIn
<1>4. reply.by = c
  BY DEF ReplyOf
<1> HIDE DEF reply, scope
<1>5. /\ local'[c].answer.by = c /\ local'[c].hint = l.hint /\ local'[c].basis = l.basis
      /\ local'[c].disturbed = l.disturbed
      /\ \A d \in Call : d # c => local'[d] = local[d]
  BY <1>0, <1>4 DEF Local
<1>6. \A d : SessionOf(d)' = SessionOf(d) /\ Owner(d)' = Owner(d)
  BY <1>0, SessionsStay
<1>7. Unfailed(s)' => Unfailed(s)
  BY <1>0, <1>2, <1>6 DEF Unfailed
<1>8. InjectedAt(s)'
  <2>1. Unfailed(s) => injected[s] \in {<<>>, context'[s].hint}
    <3>1. CASE l.hint = Unread
      BY <1>0, <1>3, <3>1 DEF CallHint
    <3>2. CASE l.hint # Unread
      BY <1>0, <1>3, <3>2 DEF CallHint
    <3> QED
      BY <3>1, <3>2
  <2> QED
    BY <1>0, <1>6, <1>7, <2>1 DEF InjectedAt
<1>9. CallHint(c)'
  <2>1. ASSUME l.hint # Unread
        PROVE  /\ Unfailed(s) => l.hint \in {<<>>, context'[s].hint}
               /\ ~ l.disturbed => \A list \in l.basis : Covers(l.hint, list)
    <3>1. Unfailed(s) => l.hint \in {<<>>, context'[s].hint}
      BY <1>0, <1>3, <2>1 DEF CallHint
    <3>2. ~ l.disturbed => Covers(l.hint, preferences[Owner(c)])
      BY <1>0, <2>1 DEF CallHint
    <3>3. ~ l.disturbed => l.basis \subseteq {preferences[Owner(c)]}
      BY <1>0 DEF CallFits
    <3> QED
      BY <3>1, <3>2, <3>3
  <2>2. Unfailed(SessionOf(c))' => Unfailed(s)
    BY <1>6, <1>7 DEF Unfailed
  <2>3. ASSUME local'[c].hint # Unread
        PROVE  /\ Unfailed(SessionOf(c))' => local'[c].hint \in {<<>>, context'[s].hint}
               /\ ~ local'[c].disturbed => \A list \in local'[c].basis : Covers(local'[c].hint, list)
    BY <1>5, <2>1, <2>2, <2>3
  <2>4. \A list : Covers(local[c].hint, list)' <=> Covers(local'[c].hint, list)
    BY DEF Covers, Listed
  <2> QED
    BY <1>2, <1>5, <1>6, <2>3, <2>4 DEF CallHint, Covers, Listed
<1> QED
  BY <1>0, <1>1, <1>2, <1>3, <1>5, <1>8, <1>9, HintOfOne

\* The reply is remembered, or a bucket expires.
LEMMA HintOfRemembering ==
    ASSUME IInv, HintInv,
           \/ \E c \in Call : \/ EmbedFails(c)
                              \/ \E ok \in BOOLEAN : Load(c, ok) \/ Store(c, ok)
           \/ \E k \in DOMAIN bucket : Expire(k)
    PROVE  HintInv'
<1>0. /\ TypeOK /\ pc \in [Call -> Step] /\ local \in [Call -> Local]
      /\ UNCHANGED <<ask, preferences, injected, context>>
  BY DEF IInv, TypeOK, EmbedFails, Load, Store, Expire, storeVars, processVars
<1>1. ASSUME NEW d \in Call
      PROVE  pc'[d] = pc[d] \/ (pc'[d] \in Replied /\ pc[d] \in Replied)
  <2>1. \/ UNCHANGED pc
        \/ \E c \in Call, x \in Replied : pc[c] \in Replied /\ Goto(c, x)
    BY DEF EmbedFails, Load, Store, Expire, Replied
  <2>2. ASSUME NEW c \in Call, NEW x \in Replied, pc[c] \in Replied, Goto(c, x)
        PROVE  pc'[d] = pc[d] \/ (pc'[d] \in Replied /\ pc[d] \in Replied)
    <3>1. CASE d = c
      BY <1>0, <2>2, <3>1 DEF Goto
    <3>2. CASE d # c
      BY <1>0, <2>2, <3>2 DEF Goto
    <3> QED
      BY <3>1, <3>2
  <2> QED
    BY <2>1, <2>2
<1>2. \/ UNCHANGED local
      \/ \E c \in Call : \E loaded, spoiled :
            local' = [local EXCEPT ![c].loaded = loaded, ![c].spoiled = spoiled]
      \/ \E k : Spoil(k)
  BY DEF EmbedFails, Load, Store, Expire
<1>3. ASSUME NEW d \in Call
      PROVE  /\ local'[d].hint = local[d].hint /\ local'[d].shown = local[d].shown
             /\ local'[d].answer = local[d].answer /\ local'[d].basis = local[d].basis
             /\ local'[d].disturbed = local[d].disturbed
  <2>0. local[d] \in Local
    BY <1>0
  <2>1. CASE UNCHANGED local
    BY <2>1
  <2>2. ASSUME NEW c \in Call, NEW loaded, NEW spoiled,
               local' = [local EXCEPT ![c].loaded = loaded, ![c].spoiled = spoiled]
        PROVE  /\ local'[d].hint = local[d].hint /\ local'[d].shown = local[d].shown
               /\ local'[d].answer = local[d].answer /\ local'[d].basis = local[d].basis
               /\ local'[d].disturbed = local[d].disturbed
    <3>1. \/ local'[d] = local[d]
          \/ local'[d] = [local[d] EXCEPT !.loaded = loaded, !.spoiled = spoiled]
      BY <1>0, <2>2
    <3> QED
      BY <2>0, <3>1 DEF Local
  <2>3. ASSUME NEW k, Spoil(k)
        PROVE  /\ local'[d].hint = local[d].hint /\ local'[d].shown = local[d].shown
               /\ local'[d].answer = local[d].answer /\ local'[d].basis = local[d].basis
               /\ local'[d].disturbed = local[d].disturbed
    <3>1. local'[d] = local[d] \/ local'[d] = [local[d] EXCEPT !.spoiled = TRUE]
      BY <1>0, <2>3, SpoilType
    <3> QED
      BY <2>0, <3>1 DEF Local
  <2> QED
    BY <1>2, <2>1, <2>2, <2>3
<1> QED
  BY <1>0, <1>1, <1>3, HintKept

\* A call ends: as "failed" if its agent raised.
LEMMA HintOfFinishing ==
    ASSUME IInv, HintInv, NEW c \in Call, NEW saved \in BOOLEAN, NEW recorded \in BOOLEAN,
           Finish(c, saved, recorded)
    PROVE  HintInv'
<1>0. /\ pc \in [Call -> Step] /\ local \in [Call -> Local]
      /\ \A d \in Call : SessionOf(d) \in Session
      /\ UNCHANGED <<ask, preferences, injected, context>>
      /\ pc[c] \in {"finish", "raising"}
      /\ pc' = [pc EXCEPT ![c] = IF pc[c] = "raising" THEN "failed" ELSE "done"]
      /\ local' = [local EXCEPT ![c] = Blank]
  BY AskType DEF IInv, TypeOK, Finish, processVars, Goto
<1>1. \A d \in Call : d # c /\ SessionOf(d) = SessionOf(c) => ~ Open(d)
  BY <1>0, OpenAlone DEF Open
<1>2. /\ pc'[c] = IF pc[c] = "raising" THEN "failed" ELSE "done"
      /\ \A d \in Call : d # c => pc'[d] = pc[d] /\ local'[d] = local[d]
  BY <1>0
<1>3. \A d : SessionOf(d)' = SessionOf(d) /\ Owner(d)' = Owner(d)
  BY <1>0, SessionsStay
<1>4. InjectedAt(SessionOf(c))'
  <2>1. CASE pc[c] = "raising"
    BY <1>2, <1>3, <2>1 DEF InjectedAt, Unfailed
  <2>2. CASE pc[c] = "finish"
    <3>1. InjectedAt(SessionOf(c))
      BY <1>0 DEF HintInv
    <3>2. Unfailed(SessionOf(c))' => Unfailed(SessionOf(c))
      BY <1>2, <1>3, <2>2 DEF Unfailed
    <3>3. \A d \in Call : pc[d] \in {"agent", "raising"} => pc'[d] = pc[d]
      BY <1>2, <2>2
    <3> QED
      BY <1>0, <1>3, <3>1, <3>2, <3>3 DEF InjectedAt
  <2> QED
    BY <1>0, <2>1, <2>2
<1>5. CallHint(c)'
  BY <1>2 DEF CallHint, Replied
<1> QED
  BY <1>0, <1>1, <1>2, <1>4, <1>5, HintOfOne

\* Every step keeps what is known of the hints.
LEMMA HintStep == IInv /\ HintInv /\ [Next]_vars => HintInv'
<1> SUFFICES ASSUME IInv, HintInv, [Next]_vars PROVE HintInv'
  OBVIOUS
<1>0. Outcomes \subseteq BOOLEAN
  BY DEF Outcomes
<1>1. ASSUME NEW c \in Call, Handle(c) PROVE HintInv'
  BY <1>0, <1>1, HintOfLooking, HintOfInputs, HintOfRaising, HintOfReplying, HintOfRemembering,
     HintOfFinishing DEF Handle
<1>2. ASSUME NEW c \in Call, Tool(c) PROVE HintInv'
  BY <1>2, HintOfTool
<1>3. ASSUME NEW k \in DOMAIN bucket, Expire(k) PROVE HintInv'
  BY <1>3, HintOfRemembering
<1>4. ASSUME NEW next \in {version, version + 1}, Restart(next) PROVE HintInv'
  <2>1. /\ \A d \in Call : pc'[d] \in {"waiting", "done", "failed", "dead"}
        /\ injected' = [s \in Session |-> <<>>]
    BY <1>4 DEF Restart, Open, IInv, TypeOK
  <2>2. OneOpen'
    BY <2>1 DEF OneOpen, Open
  <2>3. \A s \in Session : InjectedAt(s)'
    BY <2>1 DEF InjectedAt
  <2>4. \A d \in Call : CallHint(d)'
    BY <2>1 DEF CallHint, Replied
  <2> QED
    BY <2>2, <2>3, <2>4 DEF HintInv
<1>5. CASE UNCHANGED vars
  <2>1. UNCHANGED <<ask, preferences, injected, context, pc, local>>
    BY <1>5 DEF vars, storeVars, processVars
  <2>2. \A d \in Call :
           /\ pc'[d] = pc[d] /\ local'[d].hint = local[d].hint /\ local'[d].shown = local[d].shown
           /\ local'[d].answer = local[d].answer /\ local'[d].basis = local[d].basis
           /\ local'[d].disturbed = local[d].disturbed
    BY <2>1
  <2> QED
    BY <2>1, <2>2, HintKept
<1> QED
  BY <1>1, <1>2, <1>3, <1>4, <1>5 DEF Next

\* The agent's state holds every dislike it should have been told of, whatever
\* the preferences, the limit on likes, the turns, the restarts and the failures,
\* unless an agent of the session raised.
THEOREM DislikesReachTheAgent == Spec => []DislikesAreTold
<1>1. Init => HintInv
  <2> SUFFICES ASSUME Init PROVE HintInv
    OBVIOUS
  <2>1. OneOpen
    BY DEF Init, OneOpen, Open
  <2>2. \A s \in Session : InjectedAt(s)
    BY DEF Init, InjectedAt
  <2>3. \A c \in Call : CallHint(c)
    BY DEF Init, CallHint, Replied
  <2> QED
    BY <2>1, <2>2, <2>3 DEF HintInv
<1>2. IInv /\ HintInv /\ [Next]_vars => HintInv'
  BY HintStep
<1>3. HintInv => DislikesAreTold
  <2> SUFFICES ASSUME HintInv, NEW c \in Call,
                      pc[c] \in Replied, local[c].hint # Unread, ~ local[c].disturbed,
                      Unfailed(SessionOf(c)),
                      NEW list \in local[c].basis, NEW i \in DOMAIN list, list[i].kind = "dislike"
               PROVE  Listed(context[SessionOf(c)].hint, list[i])
    BY DEF DislikesAreTold, Replied, Unfailed
  <2>1. /\ local[c].hint \in {<<>>, context[SessionOf(c)].hint}
        /\ Covers(local[c].hint, list)
    BY DEF HintInv, CallHint
  <2>2. Listed(local[c].hint, list[i])
    BY <2>1 DEF Covers
  <2>3. local[c].hint # <<>>
    BY <2>2 DEF Listed
  <2> QED
    BY <2>1, <2>2, <2>3
<1> QED
  BY <1>1, <1>2, <1>3, InvariantIInv, PTL DEF Spec

=============================================================================
