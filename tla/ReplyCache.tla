----------------------------- MODULE ReplyCache -----------------------------
(***************************************************************************)
(* The semantic cache of final replies around one agent run: handle_intent *)
(* fingerprints the buyer's preferences, looks for a reply to a similar    *)
(* query, otherwise hands the agent the query and a preference hint,       *)
(* fingerprints the preferences again and adds the reply to the buyer's    *)
(* bucket in Redis.  Modelled from MainAgentOrchestrator, SemanticCache,   *)
(* RedisCache, PreferenceSelector, the preference tools and                *)
(* SqlPreferenceStore.                                                     *)
(*                                                                         *)
(* One action is one call to a store with what the code does up to its     *)
(* next await.  One process serves the calls; it may die and start again,  *)
(* possibly with a new prompt or model.                                    *)
(***************************************************************************)
EXTENDS Naturals, Sequences, FiniteSets, Lists

CONSTANTS
    Call,            \* the calls of handle_intent
    Session,         \* shopping sessions
    Buyer,           \* the buyers
    BuyerOf,         \* the buyer of each session
    Query,           \* normalized queries
    Preference,      \* the preferences that occur
    Workload,        \* what the calls may ask, and in which sessions
    Cacheable,       \* the queries _UNSAFE_QUERY_PATTERN lets pass
    Similarity,      \* cosine of the vectors of two queries
    One,             \* the cosine of equal vectors
    Rounded,         \* a cosine rounded to four digits
    Threshold,       \* semantic_cache_threshold
    BucketLimit,     \* _BUCKET_LIMIT
    TopK,            \* preference_top_k
    Initially,       \* the preferences the buyers may have at first
    None,            \* no answer
    Unread,          \* preferences that were not read
    MaxOpen,         \* how many calls run at once (the worker's concurrency)
    MaxFaults,       \* bound: failed calls, agent errors and crashes
    MaxChanges       \* bound: changes of preferences

ASSUME ReplyCacheAssumption ==
    /\ \A p \in Preference : p.kind \in {"like", "dislike"}
    /\ BuyerOf \in [Session -> Buyer]
    /\ Workload \subseteq [Call -> [session : Session, query : Query]]
    /\ Cacheable \subseteq Query
    /\ Similarity \in [Query \X Query -> 0..One]
    /\ Rounded \in [0..One -> 0..One]
    /\ One \in Nat /\ Threshold \in Nat /\ TopK \in Nat
    /\ BucketLimit \in Nat \ {0}
    /\ Initially \subseteq [Buyer -> Seq(Preference)]
    /\ Unread \notin Seq(Preference)
    /\ MaxOpen \in Nat /\ MaxFaults \in Nat /\ MaxChanges \in Nat

VARIABLES
    \* the stores
    preferences,     \* each buyer's preferences in the order of their ids
    bucket,          \* the buckets in Redis: from keys to lists of entries
    turned,          \* the sessions whose conversation has a turn
    snapshot,        \* the saved state of each session's agent
    \* the process
    version,         \* its chat model, embedding model and prompt
    context,         \* the live state of each session's agent
    injected,        \* _injected_preferences
    \* the calls of handle_intent
    ask,             \* the session and the query of each call
    pc,              \* where it is
    local,           \* its local variables
    \* bookkeeping
    recent,          \* the buckets as atomic updates would have left them
    lossy,           \* the keys for which that is no longer claimed
    faults, changes

storeVars == <<preferences, bucket, turned, snapshot>>
processVars == <<version, context, injected>>
ghostVars == <<recent, lossy>>
bounds == <<faults, changes>>
vars == <<storeVars, processVars, ask, pc, local, ghostVars, bounds>>

Step == {"waiting", "lookup", "inputs", "agent", "load", "store", "finish",
         "raising", "done", "failed", "dead"}

\* A reply with how it was made: by which call and version, whether as the
\* first turn of its session, what the preferences were in the end, whether no
\* hint came from others, and whether they changed meanwhile.
Reply == [by : Call, text : {"text", "error"}, version : Nat, first : BOOLEAN,
          scope : Seq(Preference) \union {Unread}, fit : BOOLEAN, disturbed : BOOLEAN]

Entry == [query : Query, reply : Reply]
Key == [version : Nat, buyer : Buyer, scope : Seq(Preference)]
AgentState == [started : BOOLEAN, hint : Seq(Preference)]

Local ==
    [history : BOOLEAN,                          \* has_history
     scope : Seq(Preference) \union {Unread},    \* the preferences fingerprinted last
     hint : Seq(Preference) \union {Unread},     \* the preferences selected
     shown : BOOLEAN,                            \* the hint is among the agent's inputs
     loaded : Seq(Entry),                        \* the entries remember read
     answer : Reply \union {None},               \* final_text
     basis : SUBSET Seq(Preference),             \* the lists its hints were taken from
     disturbed : BOOLEAN,                        \* the preferences changed since
     spoiled : BOOLEAN]                          \* the bucket is no longer as loaded

Blank == [history |-> FALSE, scope |-> Unread, hint |-> Unread, shown |-> FALSE,
          loaded |-> <<>>, answer |-> None, basis |-> {}, disturbed |-> FALSE,
          spoiled |-> FALSE]

SessionOf(c) == ask[c].session
QueryOf(c) == ask[c].query
Owner(c) == BuyerOf[SessionOf(c)]

Init ==
    /\ preferences \in Initially
    /\ bucket = [k \in {} |-> <<>>]
    /\ turned = {}
    /\ snapshot = [s \in Session |-> [started |-> FALSE, hint |-> <<>>]]
    /\ version = 0
    /\ context = snapshot
    /\ injected = [s \in Session |-> <<>>]
    /\ ask \in Workload
    /\ pc = [c \in Call |-> "waiting"]
    /\ local = [c \in Call |-> Blank]
    /\ recent = bucket
    /\ lossy = {}
    /\ faults = 0
    /\ changes = 0

-----------------------------------------------------------------------------
\* A call that runs, and so holds its session's execution lock.
Open(c) == pc[c] \notin {"waiting", "done", "failed", "dead"}

Goto(c, step) == pc' = [pc EXCEPT ![c] = step]

\* Whether the next call of a store or of the embedding service succeeds.
Outcomes == IF faults < MaxFaults THEN BOOLEAN ELSE {TRUE}

Charge(ok) == faults' = IF ok THEN faults ELSE faults + 1

ChargeBoth(ok1, ok2) ==
    /\ faults' = faults + (IF ok1 THEN 0 ELSE 1) + (IF ok2 THEN 0 ELSE 1)
    /\ faults' <= MaxFaults

\* Only the first turn of a session, and no unsafe query, uses the cache.
Reusable(c, old) == ~ old /\ QueryOf(c) \in Cacheable

\* The session's execution lock is free; _has_history takes a conversation it
\* cannot read for one with turns (only the lock's holder changes what it reads).
\* Then _preference_scope; lookup asks Redis only if Reusable.
Begin(c, legible, ok) ==
    LET s == SessionOf(c)
        old == ~ legible \/ s \in turned \/ context[s].started
    IN
    /\ pc[c] = "waiting"
    /\ \A d \in Call : Open(d) => SessionOf(d) # s
    /\ Cardinality({d \in Call : Open(d)}) < MaxOpen
    /\ ChargeBoth(legible, ok)
    /\ local' = [local EXCEPT ![c].history = old,
                              ![c].scope = IF ok THEN preferences[Owner(c)] ELSE Unread]
    /\ Goto(c, IF ok /\ Reusable(c, old) THEN "lookup" ELSE "inputs")
    /\ UNCHANGED <<storeVars, processVars, ask, ghostVars, changes>>

\* (mutant of KeyOf: the buyer is left out of the key)
KeyOfAnyone(c) ==
    [version |-> version, buyer |-> CHOOSE b \in Buyer : TRUE, scope |-> local[c].scope]

\* (mutant of KeyOf: the preferences are left out of the key)
KeyOfUnscoped(c) == [version |-> version, buyer |-> Owner(c), scope |-> <<>>]

\* _bucket_key: namespace, buyer and scope.
KeyOf(c) == [version |-> version, buyer |-> Owner(c), scope |-> local[c].scope]

EntriesAt(k) == IF k \in DOMAIN bucket THEN bucket[k] ELSE <<>>

Likeness(entries, i, q) == Similarity[<<q, entries[i].query>>]

\* The entries lookup does not skip.
Similar(entries, q) == {i \in DOMAIN entries : Likeness(entries, i, q) >= Threshold}

\* Where the scan may end.  The best similarity so far is kept rounded, so
\* entries that round alike may replace one another or not.
BestHits(entries, q) ==
    {i \in Similar(entries, q) : \A j \in Similar(entries, q) :
        Rounded[Likeness(entries, j, q)] <= Rounded[Likeness(entries, i, q)]}

\* SemanticCache.lookup: a failed read is an empty bucket, a failed embedding
\* a miss.
Lookup(c, ok) ==
    LET entries == IF ok THEN EntriesAt(KeyOf(c)) ELSE <<>> IN
    /\ pc[c] = "lookup"
    /\ Charge(ok)
    /\ IF Similar(entries, QueryOf(c)) # {}
       THEN /\ \E i \in BestHits(entries, QueryOf(c)) :
                  local' = [local EXCEPT ![c].answer = entries[i].reply]
            /\ Goto(c, "finish")
       ELSE Goto(c, "inputs") /\ UNCHANGED local
    /\ UNCHANGED <<storeVars, processVars, ask, ghostVars, changes>>

-----------------------------------------------------------------------------
(* The agent's inputs: PreferenceSelector and _build_agent_inputs           *)

OfKind(list, kind) == {i \in DOMAIN list : list[i].kind = kind}

\* (mutant of Selections: the latest TopK preferences of either kind)
SelectionsOfBoth(list) ==
    {SubSeq(list, IF Len(list) > TopK THEN Len(list) - TopK + 1 ELSE 1, Len(list))}

\* What select may return: every dislike, then the likes or TopK of them, the
\* latest or those most like the query, in stored order.
Selections(list) ==
    LET likes == OfKind(list, "like")
        size == IF Cardinality(likes) <= TopK THEN Cardinality(likes) ELSE TopK
    IN  {Subsequence(list, OfKind(list, "dislike")) \o Subsequence(list, best) :
            best \in {b \in SUBSET likes : Cardinality(b) = size}}

\* _build_agent_inputs when the preferences could be read: a hint that the
\* session was given last is not repeated, and one that is empty is none.
BuildInputs(c) ==
    LET s == SessionOf(c) IN
    /\ pc[c] = "inputs"
    /\ \E selected \in Selections(preferences[Owner(c)]) :
           /\ local' = [local EXCEPT ![c].hint = selected,
                                     ![c].shown = selected \notin {<<>>, injected[s]},
                                     ![c].basis = {preferences[Owner(c)]}]
           /\ injected' = [injected EXCEPT ![s] = selected]
    /\ Goto(c, "agent")
    /\ UNCHANGED <<storeVars, version, context, ask, ghostVars, bounds>>

\* ... and when they could not: no hint, and the session's last one is kept.
BuildInputsBlind(c) ==
    /\ pc[c] = "inputs"
    /\ faults < MaxFaults
    /\ faults' = faults + 1
    /\ Goto(c, "agent")
    /\ UNCHANGED <<storeVars, processVars, ask, local, ghostVars, changes>>

-----------------------------------------------------------------------------
(* The agent's run: tools that read and change preferences, then a reply    *)

\* A reply of the buyer's is being made.
InTheMaking(b) == {d \in Call : Owner(d) = b /\ pc[d] = "agent"}

Change(c, list) ==
    LET b == Owner(c) IN
    /\ pc[c] = "agent"
    /\ changes < MaxChanges
    /\ list # preferences[b]
    /\ preferences' = [preferences EXCEPT ![b] = list]
    /\ changes' = changes + 1
    /\ local' = [d \in Call |-> IF d \in InTheMaking(b) THEN [local[d] EXCEPT !.disturbed = TRUE]
                                                       ELSE local[d]]
    /\ UNCHANGED <<bucket, turned, snapshot, processVars, ask, pc, ghostVars, faults>>

Listed(list, p) == \E i \in DOMAIN list : list[i] = p

\* remember_preference_tool; append ignores a preference it already holds.
\* (A call of either tool that fails changes nothing and is reported to the agent.)
RememberPreference(c, p) ==
    LET list == preferences[Owner(c)] IN
    Change(c, IF Listed(list, p) THEN list ELSE Append(list, p))

\* forget_preference_tool: the statement goes with every kind it was stored as.
ForgetPreference(c, statement) ==
    LET list == preferences[Owner(c)] IN
    Change(c, Subsequence(list, {i \in DOMAIN list : list[i].statement # statement}))

\* task_dispatch reads the preferences again for a search agent's hint.
DispatchSearch(c) ==
    /\ pc[c] = "agent"
    /\ preferences[Owner(c)] # <<>>
    /\ local' = [local EXCEPT ![c].basis = @ \union {preferences[Owner(c)]}]
    /\ UNCHANGED <<storeVars, processVars, ask, pc, ghostVars, bounds>>

\* The agent's state takes the inputs in.
TakeIn(c) ==
    context' = [context EXCEPT ![SessionOf(c)] =
                   [started |-> TRUE, hint |-> IF local[c].shown THEN local[c].hint ELSE @.hint]]

\* The agent raises, before or after it took them in.
AgentRaises(c) ==
    /\ pc[c] = "agent"
    /\ faults < MaxFaults
    /\ faults' = faults + 1
    /\ \/ TakeIn(c)
       \/ UNCHANGED context
    /\ Goto(c, "raising")
    /\ UNCHANGED <<storeVars, version, injected, ask, local, ghostVars, changes>>

\* remember skips what may not be reused, empty replies and errors.
Worthy(c, text) == Reusable(c, local[c].history) /\ text = "text"

ReplyOf(c, text, scope) ==
    [by |-> c, text |-> text, version |-> version, first |-> ~ local[c].history,
     scope |-> scope, fit |-> local[c].basis \subseteq {scope},
     disturbed |-> local[c].disturbed]

\* The agent replies: with a text, or with nothing or a text that starts with
\* [error].  Then _remember_cache fingerprints the preferences once more.
AgentReplies(c, text, ok) ==
    LET scope == IF ok THEN preferences[Owner(c)] ELSE Unread IN
    /\ pc[c] = "agent"
    /\ TakeIn(c)
    /\ Charge(ok)
    /\ local' = [local EXCEPT ![c].answer = ReplyOf(c, text, scope), ![c].scope = scope]
    /\ Goto(c, IF ok /\ Worthy(c, text) THEN "load" ELSE "finish")
    /\ UNCHANGED <<storeVars, version, injected, ask, ghostVars, changes>>

-----------------------------------------------------------------------------
(* SemanticCache.remember                                                   *)

\* (mutant of Others: the entry of the same query stays)
OthersAndOwn(entries, q) == entries

Others(entries, q) == Subsequence(entries, {i \in DOMAIN entries : entries[i].query # q})

\* The query is embedded, or nothing is remembered.
EmbedFails(c) ==
    /\ pc[c] = "load"
    /\ faults < MaxFaults
    /\ faults' = faults + 1
    /\ Goto(c, "finish")
    /\ UNCHANGED <<storeVars, processVars, ask, local, ghostVars, changes>>

\* The bucket is read; one that cannot be read is taken for empty.
Load(c, ok) ==
    /\ pc[c] = "load"
    /\ Charge(ok)
    /\ local' = [local EXCEPT
          ![c].loaded = IF ok THEN Others(EntriesAt(KeyOf(c)), QueryOf(c)) ELSE <<>>,
          ![c].spoiled = ~ ok]
    /\ Goto(c, "store")
    /\ UNCHANGED <<storeVars, processVars, ask, ghostVars, changes>>

\* entries[-_BUCKET_LIMIT:]
Latest(entries) ==
    SubSeq(entries, IF Len(entries) > BucketLimit THEN Len(entries) - BucketLimit + 1 ELSE 1,
           Len(entries))

Put(map, k, entries) == [x \in DOMAIN map \union {k} |-> IF x = k THEN entries ELSE map[x]]

NewEntry(c) == [query |-> QueryOf(c), reply |-> local[c].answer]

\* What an atomic update would make of a bucket, in the abstract.
Updated(c) ==
    LET k == KeyOf(c)
        old == IF k \in DOMAIN recent THEN recent[k] ELSE <<>>
        others == Subsequence(old, {i \in DOMAIN old : old[i].query # QueryOf(c)})
        first == IF Len(others) < BucketLimit THEN 1 ELSE Len(others) - BucketLimit + 2
    IN  Put(recent, k, Append(SubSeq(others, first, Len(others)), NewEntry(c)))

\* Whoever read the bucket and has yet to write it.
Spoil(k) ==
    local' = [d \in Call |->
        IF pc[d] = "store" /\ KeyOf(d) = k THEN [local[d] EXCEPT !.spoiled = TRUE] ELSE local[d]]

\* The bucket is written from what was read.  (A write that fails is swallowed.)
Store(c, ok) ==
    LET k == KeyOf(c) IN
    /\ pc[c] = "store"
    /\ Charge(ok)
    /\ IF ok
       THEN /\ bucket' = Put(bucket, k, Latest(Append(local[c].loaded, NewEntry(c))))
            /\ recent' = Updated(c)
            /\ lossy' = IF local[c].spoiled THEN lossy \union {k} ELSE lossy
            /\ Spoil(k)
       ELSE UNCHANGED <<bucket, recent, lossy, local>>
    /\ Goto(c, "finish")
    /\ UNCHANGED <<preferences, turned, snapshot, processVars, ask, changes>>

-----------------------------------------------------------------------------
\* The state is saved and the turns are recorded, each unless that fails; the
\* lock is released, and the call returns or raises what the agent raised.
Finish(c, saved, recorded) ==
    LET s == SessionOf(c) IN
    /\ pc[c] \in {"finish", "raising"}
    /\ ChargeBoth(saved, recorded)
    /\ snapshot' = IF saved THEN [snapshot EXCEPT ![s] = context[s]] ELSE snapshot
    /\ turned' = IF recorded THEN turned \union {s} ELSE turned
    /\ local' = [local EXCEPT ![c] = Blank]
    /\ Goto(c, IF pc[c] = "raising" THEN "failed" ELSE "done")
    /\ UNCHANGED <<preferences, bucket, processVars, ask, ghostVars, changes>>

Without(map, k) == [x \in DOMAIN map \ {k} |-> map[x]]

\* Redis drops a bucket whose time to live is over.
Expire(k) ==
    /\ k \in DOMAIN bucket
    /\ bucket' = Without(bucket, k)
    /\ recent' = Without(recent, k)
    /\ lossy' = lossy \ {k}
    /\ Spoil(k)
    /\ UNCHANGED <<preferences, turned, snapshot, processVars, ask, pc, bounds>>

\* The process dies; the next one may have another prompt or model, and
\* restores the agents from their saved states.
Restart(next) ==
    /\ faults < MaxFaults
    /\ faults' = faults + 1
    /\ version' = next
    /\ context' = snapshot
    /\ injected' = [s \in Session |-> <<>>]
    /\ pc' = [c \in Call |-> IF Open(c) THEN "dead" ELSE pc[c]]
    /\ local' = [c \in Call |-> Blank]
    /\ UNCHANGED <<storeVars, ask, ghostVars, changes>>

Tool(c) ==
    \/ \E p \in Preference : RememberPreference(c, p)
    \/ \E p \in Preference : ForgetPreference(c, p.statement)
    \/ DispatchSearch(c)

Handle(c) ==
    \/ \E ok \in Outcomes :
           \/ \E legible \in Outcomes : Begin(c, legible, ok)
           \/ Lookup(c, ok)
           \/ \E text \in {"text", "error"} : AgentReplies(c, text, ok)
           \/ Load(c, ok)
           \/ Store(c, ok)
           \/ \E recorded \in Outcomes : Finish(c, ok, recorded)
    \/ BuildInputs(c)
    \/ BuildInputsBlind(c)
    \/ AgentRaises(c)
    \/ EmbedFails(c)

Next ==
    \/ \E c \in Call : Handle(c) \/ Tool(c)
    \/ \E k \in DOMAIN bucket : Expire(k)
    \/ \E next \in {version, version + 1} : Restart(next)

Spec == Init /\ [][Next]_vars

-----------------------------------------------------------------------------
\* The types: what each variable can hold.
TypeOK ==
    /\ preferences \in [Buyer -> Seq(Preference)]
    /\ DOMAIN bucket \subseteq Key
    /\ \A k \in DOMAIN bucket : bucket[k] \in Seq(Entry) /\ Len(bucket[k]) \in 1..BucketLimit
    /\ turned \subseteq Session
    /\ snapshot \in [Session -> AgentState]
    /\ version \in Nat
    /\ context \in [Session -> AgentState]
    /\ injected \in [Session -> Seq(Preference)]
    /\ ask \in Workload
    /\ pc \in [Call -> Step]
    /\ local \in [Call -> Local]

\* A call that is about to give a reply it found.
Reuses(c) == pc[c] = "finish" /\ local[c].answer # None /\ local[c].answer.by # c

\* A reused reply was made for the same buyer, by the same prompt and models,
\* for a query that is similar enough and safe, as the first turn of a session,
\* and is neither empty nor an error.  (chapter 19: buckets are isolated by
\* buyer and namespace; lookup and remember test the query and the history)
ReuseIsOwn ==
    \A c \in Call : Reuses(c) =>
        LET r == local[c].answer IN
        /\ Owner(r.by) = Owner(c) /\ r.version = version
        /\ QueryOf(r.by) \in Cacheable
        /\ Similarity[<<QueryOf(c), QueryOf(r.by)>>] >= Threshold
        /\ r.first /\ ~ local[c].history
        /\ r.text = "text"

\* A reused reply was made from no other preferences than those of its reuse,
\* unless they changed while it was made.  (the scope in the bucket key)
ReuseFitsPreferences ==
    \A c \in Call : Reuses(c) =>
        /\ local[c].answer.scope = local[c].scope
        /\ local[c].answer.fit \/ local[c].answer.disturbed

\* The same without the exception: "invalidates old answers after relevant
\* model, prompt, or preference changes".
ReuseFollowsPreferences ==
    \A c \in Call : Reuses(c) =>
        local[c].answer.scope = local[c].scope /\ local[c].answer.fit

\* A bucket holds what atomic updates would have left in it, the latest reply
\* to each of the latest queries, unless two updates overlapped, one overlapped
\* an expiry, or one could not read it.  (remember: read, change, write)
BucketIsRecent ==
    \A k \in (DOMAIN bucket \union DOMAIN recent) \ lossy :
        k \in DOMAIN bucket \intersect DOMAIN recent /\ bucket[k] = recent[k]

\* When the agent has replied, the last hint in its state holds every dislike
\* that was stored when the hint was selected, new or repeated, across turns and
\* restarts, unless an agent of the session raised.  ("every dislike is retained";
\* "The existing Agent state already contains the earlier hint")
DislikesAreTold ==
    \A c \in Call :
        LET l == local[c] IN
        /\ pc[c] \in {"load", "store", "finish"} /\ l.answer # None
        /\ l.hint # Unread /\ ~ l.disturbed
        /\ \A d \in Call : SessionOf(d) = SessionOf(c) => pc[d] # "failed"
        => \A list \in l.basis : \A i \in DOMAIN list :
               list[i].kind = "dislike" => Listed(context[SessionOf(c)].hint, list[i])

=============================================================================
