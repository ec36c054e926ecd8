------------------------ MODULE ConversationSyncProofs ------------------------
(***************************************************************************)
(* What is on the server, whatever fails, for any number of conversations, *)
(* messages, spaces and concurrent /save commands.  What the store's       *)
(* operations do is proved in FallbackStoreProofs; here it is what a step  *)
(* of a call may rely on when the answer to its request comes.             *)
(***************************************************************************)
EXTENDS ConversationSync, TLAPS, FiniteSetTheorems

Facts == INSTANCE FallbackStoreProofs

-------------------------------------------------------------------------------
(* The store's operations are those that FallbackStoreProofs is about *)

LEMMA LeastMin ==
    ASSUME NEW S \in SUBSET Nat, S # {}
    PROVE  Min(S) \in S /\ \A x \in S : Min(S) <= x
  BY Facts!LeastExists, SyncAssumption DEF Facts!Min, Min, Store!StoreAssumption

LEMMA SameReads ==
    ASSUME NEW s, NEW id
    PROVE  /\ Store!has(s, id) = Facts!has(s, id)
           /\ Store!IsDirty(s, id) = Facts!IsDirty(s, id)
           /\ Store!Live(s) = Facts!Live(s)
           /\ Store!get(s, id) = Facts!get(s, id)
  BY DEF Store!has, Facts!has, Store!IsDirty, Facts!IsDirty, Store!Current, Facts!Current,
         Store!Live, Facts!Live, Store!get, Facts!get, Store!touchLRU, Facts!touchLRU,
         Store!Without, Facts!Without, Store!Absent, Facts!Absent

LEMMA SameMarks ==
    ASSUME NEW s, NEW id
    PROVE  /\ Store!markSynced(s, id) = Facts!markSynced(s, id)
           /\ Store!markDirtyById(s, id) = Facts!markDirtyById(s, id)
  BY DEF Store!has, Facts!has, Store!Absent, Facts!Absent, Store!markDirty, Facts!markDirty,
         Store!markSynced, Facts!markSynced, Store!markDirtyById, Facts!markDirtyById

LEMMA SameSizes ==
    ASSUME NEW S
    PROVE  /\ Store!Cardinality(S) = Facts!Cardinality(S)
           /\ Cardinality(S) = Facts!Cardinality(S)
           /\ IsFiniteSet(S) = Facts!IsFiniteSet(S)
<1>1. Store!Cardinality(S) = Facts!Cardinality(S)
  BY Zenon DEF Store!Cardinality, Facts!Cardinality
<1>2. Cardinality(S) = Facts!Cardinality(S)
  BY Zenon DEF Cardinality, Facts!Cardinality
<1>3. IsFiniteSet(S) = Facts!IsFiniteSet(S)
  BY Zenon DEF IsFiniteSet, Facts!IsFiniteSet
<1> QED  BY <1>1, <1>2, <1>3

LEMMA SameGetOrCreate ==
    ASSUME NEW s, NEW id
    PROVE  /\ Store!getOrCreate(s, id) = Facts!getOrCreate(s, id)
           /\ Store!RefFor(s, id) = Facts!RefFor(s, id)
<1>1. \A t : Store!Evict(t) = Facts!Evict(t)
  BY DEF Store!Evict, Facts!Evict, Store!CleanPositions, Facts!CleanPositions,
         Store!EvictAt, Facts!EvictAt, Store!Min, Facts!Min, Store!Absent, Facts!Absent,
         Store!IsDirty, Facts!IsDirty, Store!has, Facts!has, Store!Current, Facts!Current
<1>2. \A t : Store!evictIfNeeded(t) = Facts!evictIfNeeded(t)
  BY <1>1, SameReads, SameSizes DEF Store!evictIfNeeded, Facts!evictIfNeeded
<1>3. \A t : Store!touchLRU(t, id) = Facts!touchLRU(t, id)
  BY DEF Store!touchLRU, Facts!touchLRU, Store!Without, Facts!Without
<1> QED
  BY <1>2, <1>3 DEF Store!getOrCreate, Facts!getOrCreate, Store!createEmptyState,
     Facts!createEmptyState, Store!has, Facts!has, Store!Absent, Facts!Absent,
     Store!RefFor, Facts!RefFor

LEMMA SameWrites ==
    ASSUME NEW s, NEW id, NEW n, NEW title
    PROVE  /\ Store!appendMessages(s, id, n) = Facts!appendMessages(s, id, n)
           /\ Store!setTitle(s, id, title) = Facts!setTitle(s, id, title)
           /\ Store!createFromTurns(s, id, n, title) = Facts!createFromTurns(s, id, n, title)
<1>1. \A t : Store!appendMessages(t, id, n) = Facts!appendMessages(t, id, n)
  <2>1. \A t, ref : Store!PushAll(t, ref, n) = Facts!PushAll(t, ref, n)
    BY DEF Store!PushAll, Facts!PushAll, Store!LastOf, Facts!LastOf
  <2>2. \A t, ref : Store!markDirty(t, ref) = Facts!markDirty(t, ref)
    BY DEF Store!markDirty, Facts!markDirty
  <2> QED  BY <2>1, <2>2, SameGetOrCreate DEF Store!appendMessages, Facts!appendMessages
<1>2. \A t : Store!setTitle(t, id, title) = Facts!setTitle(t, id, title)
  <2>1. \A t, ref : Store!markDirty(t, ref) = Facts!markDirty(t, ref)
    BY DEF Store!markDirty, Facts!markDirty
  <2>2. \A t : Store!get(t, id) = Facts!get(t, id) /\ Store!has(t, id) = Facts!has(t, id)
    BY SameReads
  <2> QED  BY <2>1, <2>2 DEF Store!setTitle, Facts!setTitle
<1> QED
  BY <1>1, <1>2, SameGetOrCreate DEF Store!createFromTurns, Facts!createFromTurns

-------------------------------------------------------------------------------
(* The inductive invariant *)

Uploaded(r, m) == \E msg \in r.messages : msg.id = m
HasConversation(r, space, id) ==
    \E conv \in r.conversations : conv.id = id /\ conv.space = space

RequestType == [title : Title, message : Nat, parent : Nat, key : Nat, update : BOOLEAN]
CallType == [pc : {"idle", "list", "create", "conversation", "message"},
             ref : Nat, todo : SUBSET Nat, space : Nat, target : Nat, from : Nat,
             sent : RequestType,
             reply : [status : {"none", "ok", "conflict", "error"}, space : Nat],
             failed : BOOLEAN]
ServiceType == [space : Nat, conversations : [ConversationId -> Nat], messages : SUBSET Nat]
RemoteType == [spaces : SUBSET Nat,
               conversations : SUBSET [space : Nat, id : ConversationId, title : Title, key : Nat],
               messages : SUBSET [space : Nat, id : Nat, parent : Nat, key : Nat]]

\* The server has what is mapped.
ServiceOK(v, r) ==
    /\ v \in ServiceType
    /\ \A id \in ConversationId :
          v.conversations[id] # None => HasConversation(r, v.conversations[id], id)
    /\ \A m \in v.messages : Uploaded(r, m)

\* The server has the parent of each message it has.
ServerOK(s, r) ==
    /\ r \in RemoteType /\ IsFiniteSet(r.spaces)
    /\ \A msg \in r.messages :
          /\ msg.id \in DOMAIN s.messages
          /\ msg.parent = s.messages[msg.id].parent
          /\ msg.parent # None => Uploaded(r, msg.parent)

\* A call has a state to send.
HasState(c, k) == k.pc \in {"conversation", "message"} \/ (c # AutoCall /\ k.pc # "idle")

\* The message that is being sent: those before it are mapped, its parent among them.
MessageOK(k, s, v) ==
    LET messages == s.states[k.ref].messages
    IN  /\ k.from - 1 \in DOMAIN messages /\ messages[k.from - 1] = k.sent.message
        /\ \A j \in 1 .. k.from - 2 : messages[j] \in v.messages
        /\ k.sent.parent = s.messages[k.sent.message].parent
        /\ k.sent.parent # None => k.sent.parent \in v.messages

\* A request that was answered took effect.
ReplyOK(k, s, r) == k.reply.status = "ok" =>
    /\ k.pc = "conversation" => HasConversation(r, k.target, s.states[k.ref].id)
    /\ k.pc = "message" => Uploaded(r, k.sent.message)

CallOK(c, k, s, v, r) ==
    /\ k \in CallType
    /\ k.todo \subseteq DOMAIN s.states
    /\ HasState(c, k) => k.ref \in DOMAIN s.states
    /\ k.pc = "conversation" => k.from = 1
    /\ k.pc = "message" => MessageOK(k, s, v)
    /\ ReplyOK(k, s, r)

SyncOK ==
    /\ Facts!StoreOK(store)
    /\ ServiceOK(service, remote)
    /\ ServerOK(store, remote)
    /\ call \in [Calls -> CallType]
    /\ \A c \in Calls : CallOK(c, call[c], store, service, remote)

(* No conversation makes room for another one. *)
Roomy == IsFiniteSet(ConversationId) /\ Cardinality(ConversationId) <= MaxConversations

InMap(s, ref) == s.conversations[s.states[ref].id] = ref

\* The state a call is pushing, and those it will push, are those of the Map.
CallCurrent(c, k, s) ==
    /\ \A ref \in k.todo : InMap(s, ref)
    /\ HasState(c, k) => InMap(s, k.ref)

\* The state that a /save is pushing.
SavedBy(c, k) ==
    IF c # AutoCall /\ k.pc \in {"conversation", "message"} THEN {k.ref} ELSE {}

\* What is clean is mapped, but for the states that are being saved.
CleanIn(s, v, saved) == \A id \in ConversationId :
    LET ref == s.conversations[id]
    IN  Store!has(s, id) /\ ~s.states[ref].dirty /\ ref \notin saved =>
          \A i \in DOMAIN s.states[ref].messages : s.states[ref].messages[i] \in v.messages

CleanOK ==
    /\ \A c \in Calls : CallCurrent(c, call[c], store)
    /\ CleanIn(store, service, UNION {SavedBy(c, call[c]) : c \in Calls})

(* There are at most as many spaces as calls, those that are about to create one included. *)
WillCreate(k) ==
    \/ k.pc = "create" /\ k.reply.status = "none"
    \/ k.pc = "list" /\ k.reply = [status |-> "ok", space |-> None]
Creators == {c \in Calls : WillCreate(call[c])}
FewOK ==
    /\ None \notin remote.spaces
    /\ Cardinality(remote.spaces) + Cardinality(Creators) <= Cardinality(Calls)

-------------------------------------------------------------------------------
(* What changes of the store, the mappings and the server leave alone *)

RemoteGrows(r, q) ==
    /\ \A m : Uploaded(r, m) => Uploaded(q, m)
    /\ \A space, id : HasConversation(r, space, id) => HasConversation(q, space, id)

LEMMA StoreParts ==
    ASSUME NEW s, Facts!StoreOK(s)
    PROVE  /\ s \in Facts!StoreType
           /\ s.conversations \in [ConversationId -> Nat]
           /\ s.states \in Seq(Facts!StateType) /\ s.messages \in Seq(Facts!MessageType)
           /\ DOMAIN s.states \subseteq Nat \ {0} /\ DOMAIN s.messages \subseteq Nat \ {0}
           /\ \A ref \in DOMAIN s.states :
                 /\ s.states[ref] \in Facts!StateType
                 /\ s.states[ref].id \in ConversationId
                 /\ s.states[ref].messages \in Seq(Nat)
                 /\ DOMAIN s.states[ref].messages = 1 .. Len(s.states[ref].messages)
<1>1. s \in Facts!StoreType
  BY DEF Facts!StoreOK, Facts!Sound
<1>2. /\ s.conversations \in [ConversationId -> Nat]
      /\ s.states \in Seq(Facts!StateType) /\ s.messages \in Seq(Facts!MessageType)
  BY <1>1 DEF Facts!StoreType
<1>3. \A ref \in DOMAIN s.states : s.states[ref] \in Facts!StateType
  BY <1>2
<1>4. ASSUME NEW ref \in DOMAIN s.states
      PROVE  /\ s.states[ref].id \in ConversationId
             /\ s.states[ref].messages \in Seq(Nat)
             /\ DOMAIN s.states[ref].messages = 1 .. Len(s.states[ref].messages)
  BY <1>3 DEF Facts!StateType
<1>5. DOMAIN s.states \subseteq Nat \ {0} /\ DOMAIN s.messages \subseteq Nat \ {0}
  BY <1>2
<1> QED  BY <1>1, <1>2, <1>3, <1>4, <1>5

\* The i-th message of a state and its parent.
LEMMA ChainedMessage ==
    ASSUME NEW s, Facts!StoreOK(s), NEW ref \in DOMAIN s.states,
           NEW i \in DOMAIN s.states[ref].messages
    PROVE  LET messages == s.states[ref].messages
           IN  /\ messages[i] \in DOMAIN s.messages
               /\ s.messages[messages[i]].parent = IF i = 1 THEN None ELSE messages[i - 1]
  BY DEF Facts!StoreOK, Facts!Sound, Facts!Chained, None

LEMMA ServiceKept ==
    ASSUME NEW v, NEW r, NEW q, ServiceOK(v, r), RemoteGrows(r, q)
    PROVE  ServiceOK(v, q)
  BY DEF ServiceOK, RemoteGrows

LEMMA ServerKept ==
    ASSUME NEW s, NEW t, NEW r, ServerOK(s, r), Facts!Grows(s, t)
    PROVE  ServerOK(t, r)
  BY DEF ServerOK, Facts!Grows

LEMMA CallKept ==
    ASSUME NEW c, NEW k, NEW s, NEW t, NEW v, NEW u, NEW r, NEW q,
           Facts!StoreOK(s), CallOK(c, k, s, v, r),
           Facts!Grows(s, t), v.messages \subseteq u.messages, RemoteGrows(r, q)
    PROVE  CallOK(c, k, t, u, q)
<1>1. /\ k \in CallType /\ k.todo \subseteq DOMAIN s.states
      /\ HasState(c, k) => k.ref \in DOMAIN s.states
      /\ k.pc = "conversation" => k.from = 1
      /\ k.pc = "message" => MessageOK(k, s, v)
      /\ ReplyOK(k, s, r)
  BY DEF CallOK
<1>2. k.todo \subseteq DOMAIN t.states /\ (HasState(c, k) => k.ref \in DOMAIN t.states)
  BY <1>1 DEF Facts!Grows
<1>3. ASSUME k.pc = "message"
      PROVE  MessageOK(k, t, u)
  <2> DEFINE messages == s.states[k.ref].messages
             more == t.states[k.ref].messages
  <2>1. k.ref \in DOMAIN s.states  BY <1>1, <1>3 DEF HasState
  <2>2. /\ k.from - 1 \in DOMAIN messages /\ messages[k.from - 1] = k.sent.message
        /\ \A j \in 1 .. k.from - 2 : messages[j] \in v.messages
        /\ k.sent.parent = s.messages[k.sent.message].parent
        /\ k.sent.parent # None => k.sent.parent \in v.messages
    BY <1>1, <1>3 DEF MessageOK
  <2>3. DOMAIN messages \subseteq DOMAIN more /\ \A i \in DOMAIN messages : more[i] = messages[i]
    BY <2>1 DEF Facts!Grows
  <2>4. k.sent.message \in DOMAIN s.messages
    BY <2>1, <2>2, ChainedMessage
  <2>5. t.messages[k.sent.message] = s.messages[k.sent.message]
    BY <2>4 DEF Facts!Grows
  <2>6. \A j \in 1 .. k.from - 2 : j \in DOMAIN messages
    <3>1. DOMAIN messages = 1 .. Len(messages) /\ messages \in Seq(Nat)
      BY <2>1, StoreParts
    <3>2. Len(messages) \in Nat
      BY <3>1
    <3>3. k.from \in Nat
      BY <1>1 DEF CallType
    <3> HIDE DEF messages
    <3>4. k.from - 1 \in 1 .. Len(messages)
      BY <2>2, <3>1
    <3> QED  BY <3>1, <3>2, <3>3, <3>4
  <2> QED  BY <2>2, <2>3, <2>5, <2>6 DEF MessageOK
<1>4. ReplyOK(k, t, q)
  <2>1. k.pc = "conversation" => t.states[k.ref].id = s.states[k.ref].id
    BY <1>1 DEF HasState, Facts!Grows
  <2> QED  BY <1>1, <2>1 DEF ReplyOK, RemoteGrows
<1> QED  BY <1>1, <1>2, <1>3, <1>4 DEF CallOK

-------------------------------------------------------------------------------
(* The steps of a call, as functions of its world *)

WorldType == [store : Facts!StoreType, service : ServiceType, call : CallType]

\* A world a call can go on from, against the server r.
Ready(w, r) ==
    /\ w \in WorldType
    /\ Facts!StoreOK(w.store)
    /\ ServiceOK(w.service, r)
    /\ w.call.todo \subseteq DOMAIN w.store.states

LEMMA WorldParts ==
    ASSUME NEW w \in WorldType
    PROVE  /\ w.store \in Facts!StoreType /\ w.service \in ServiceType /\ w.call \in CallType
           /\ w.service.space \in Nat /\ w.service.conversations \in [ConversationId -> Nat]
           /\ w.service.messages \in SUBSET Nat
           /\ w.call.ref \in Nat /\ w.call.todo \in SUBSET Nat /\ w.call.space \in Nat
           /\ w.call.target \in Nat /\ w.call.from \in Nat /\ w.call.failed \in BOOLEAN
           /\ w.call.sent \in RequestType
<1>1. w.store \in Facts!StoreType /\ w.service \in ServiceType /\ w.call \in CallType
  BY DEF WorldType
<1> QED  BY <1>1 DEF ServiceType, CallType

LEMMA ConstantsOK == NoRequest \in RequestType /\ IdleCall \in CallType /\ IdleCall.todo = {}
  <1>1. NoRequest \in RequestType
    BY SyncAssumption DEF NoRequest, RequestType, None, Store!StoreAssumption
  <1>2. IdleCall \in CallType
    BY <1>1 DEF IdleCall, CallType, NoReply, None, Store!Absent
  <1> QED  BY <1>1, <1>2 DEF IdleCall

LEMMA WithStore ==
    ASSUME NEW w \in WorldType, NEW t \in Facts!StoreType
    PROVE  LET x == [w EXCEPT !.store = t]
           IN  x \in WorldType /\ x.store = t /\ x.service = w.service /\ x.call = w.call
  BY DEF WorldType

LEMMA WithService ==
    ASSUME NEW w \in WorldType, NEW v \in ServiceType
    PROVE  LET x == [w EXCEPT !.service = v]
           IN  x \in WorldType /\ x.store = w.store /\ x.service = v /\ x.call = w.call
  BY DEF WorldType

LEMMA WithCall ==
    ASSUME NEW w \in WorldType, NEW k \in CallType
    PROVE  LET x == [w EXCEPT !.call = k]
           IN  x \in WorldType /\ x.store = w.store /\ x.service = w.service /\ x.call = k
  BY DEF WorldType

\* What a step leaves when it ends with the call waiting or idle.
Kept(w, x) ==
    /\ x \in WorldType
    /\ x.store = w.store /\ x.service = w.service
    /\ x.call.todo \subseteq w.call.todo /\ x.call.reply = NoReply

Ends(w, x) == Kept(w, x) /\ x.call.pc = "idle"
Begins(w, x, ref) ==
    /\ Kept(w, x) /\ x.call.pc = "conversation" /\ x.call.ref = ref /\ x.call.from = 1
    /\ x.call.space = w.call.space /\ x.call.sent.key = w.service.space
    /\ \/ x.call.target = w.call.space
       \/ /\ x.call.target # None
          /\ \E id \in ConversationId : x.call.target = w.service.conversations[id]
Lists(w, x) == Kept(w, x) /\ x.call.pc = "list"
Creates(w, x) == Kept(w, x) /\ x.call.pc = "create"

LEMMA SendIs ==
    ASSUME NEW w \in WorldType, NEW pc \in {"list", "create", "conversation", "message"},
           NEW sent \in RequestType
    PROVE  LET x == Send(w, pc, sent)
           IN  /\ Kept(w, x) /\ x.call.pc = pc /\ x.call.sent = sent
               /\ x.call.ref = w.call.ref /\ x.call.from = w.call.from
               /\ x.call.target = w.call.target /\ x.call.space = w.call.space
<1> DEFINE k == [w.call EXCEPT !.pc = pc, !.sent = sent, !.reply = NoReply]
<1>1. w.call \in CallType
  BY WorldParts
<1>2. /\ k \in CallType /\ k.pc = pc /\ k.sent = sent /\ k.reply = NoReply
      /\ k.ref = w.call.ref /\ k.from = w.call.from /\ k.target = w.call.target
      /\ k.space = w.call.space /\ k.todo = w.call.todo
  BY <1>1 DEF CallType, NoReply, None
<1>3. Send(w, pc, sent) = [w EXCEPT !.call = k]
  BY <1>1 DEF Send, WorldType, CallType
<1> HIDE DEF k
<1> QED  BY <1>2, <1>3, WithCall DEF Kept

LEMMA IdleIs ==
    ASSUME NEW w \in WorldType
    PROVE  Ends(w, Idle(w))
<1> DEFINE k == [IdleCall EXCEPT !.failed = w.call.failed]
<1>1. k \in CallType /\ k.pc = "idle" /\ k.todo = {} /\ k.reply = NoReply
  BY ConstantsOK, WorldParts DEF IdleCall, CallType
<1>2. Idle(w) = [w EXCEPT !.call = k]
  BY DEF Idle
<1> HIDE DEF k
<1> QED  BY <1>1, <1>2, WithCall DEF Ends, Kept

LEMMA PushConversationIs ==
    ASSUME NEW w \in WorldType, NEW ref \in DOMAIN w.store.states, Facts!StoreOK(w.store)
    PROVE  Begins(w, PushConversation(w, ref), ref)
<1> DEFINE state == w.store.states[ref]
           mapped == w.service.conversations[state.id]
           target == IF mapped # None THEN mapped ELSE w.call.space
           sent == [NoRequest EXCEPT !.title = state.title, !.key = w.service.space,
                                     !.update = mapped # None]
           k == [w.call EXCEPT !.ref = ref, !.from = 1, !.target = target]
           y == [w EXCEPT !.call = k]
<1>1. ref \in Nat /\ state \in Facts!StateType
  BY StoreParts
<1>2. state.id \in ConversationId /\ state.title \in Title
  BY <1>1 DEF Facts!StateType
<1>3. target \in Nat
  BY <1>2, WorldParts DEF None
<1>4. sent \in RequestType /\ sent.key = w.service.space
  BY <1>2, ConstantsOK, WorldParts DEF RequestType
<1>5. w.call \in CallType
  BY WorldParts
<1>6. /\ k \in CallType /\ k.ref = ref /\ k.from = 1 /\ k.todo = w.call.todo
      /\ k.space = w.call.space /\ k.target = target
  BY <1>1, <1>3, <1>5 DEF CallType
<1>7. PushConversation(w, ref) = Send(y, "conversation", sent)
  BY <1>5 DEF PushConversation, WorldType, CallType
<1> HIDE DEF k, sent
<1>8. y \in WorldType /\ y.store = w.store /\ y.service = w.service /\ y.call = k
  BY <1>6, WithCall
<1> HIDE DEF y
<1> DEFINE x == Send(y, "conversation", sent)
<1>9. /\ Kept(y, x) /\ x.call.pc = "conversation" /\ x.call.sent = sent
      /\ x.call.ref = y.call.ref /\ x.call.from = y.call.from
      /\ x.call.target = y.call.target /\ x.call.space = y.call.space
  BY <1>4, <1>8, SendIs
<1>10. \/ target = w.call.space
       \/ target # None /\ \E id \in ConversationId : target = w.service.conversations[id]
  BY <1>2
<1> HIDE DEF x, state, target, mapped
<1> QED  BY <1>4, <1>6, <1>7, <1>8, <1>9, <1>10 DEF Begins, Kept, x

\* The next conversation of the snapshot, or the end of the call.
Nexts(c, w, x) ==
    \/ Ends(w, x)
    \/ c = AutoCall /\ \E ref \in w.call.todo : Begins(w, x, ref)

LEMMA PushNextIs ==
    ASSUME NEW c, NEW w, NEW r, Ready(w, r)
    PROVE  Nexts(c, w, PushNext(c, w))
<1>0. w \in WorldType
  BY DEF Ready
<1>1. CASE c # AutoCall \/ w.call.todo = {}
  BY <1>0, <1>1, IdleIs DEF PushNext, Nexts
<1>2. CASE ~(c # AutoCall \/ w.call.todo = {})
  <2> DEFINE next == Min(w.call.todo)
             k == [w.call EXCEPT !.todo = @ \ {next}]
             y == [w EXCEPT !.call = k]
  <2>1. w.call \in CallType /\ w.call.todo \in SUBSET Nat
    BY <1>0, WorldParts
  <2>2. next \in w.call.todo
    BY <1>2, <2>1, LeastMin
  <2>3. k \in CallType /\ k.todo = w.call.todo \ {next} /\ k.space = w.call.space
    BY <2>1 DEF CallType
  <2>4. PushNext(c, w) = PushConversation(y, next)
    BY <1>0, <1>2, <2>1 DEF PushNext, WorldType, CallType
  <2> HIDE DEF next, k
  <2>5. y \in WorldType /\ y.store = w.store /\ y.service = w.service /\ y.call = k
    BY <1>0, <2>3, WithCall
  <2> HIDE DEF y
  <2>6. Begins(y, PushConversation(y, next), next)
    BY <2>2, <2>5, PushConversationIs DEF Ready
  <2>7. Begins(w, PushNext(c, w), next)
    BY <2>3, <2>4, <2>5, <2>6 DEF Begins, Kept
  <2> QED  BY <1>2, <2>2, <2>7 DEF Nexts
<1> QED  BY <1>1, <1>2

\* findSyncedParent() stops at the parent when all the messages before are mapped.
LEMMA SyncedParentIs ==
    ASSUME NEW w, Facts!StoreOK(w.store), w.call.ref \in DOMAIN w.store.states,
           NEW i \in DOMAIN StateOf(w).messages,
           \A j \in 1 .. i - 1 : StateOf(w).messages[j] \in w.service.messages
    PROVE  LET parent == w.store.messages[StateOf(w).messages[i]].parent
           IN  /\ SyncedParent(w, StateOf(w).messages[i]) = parent
               /\ parent # None => parent \in w.service.messages
<1> DEFINE messages == StateOf(w).messages
           parent(m) == w.store.messages[m].parent
           Map == {messages[j] : j \in DOMAIN messages}
           D == Map \cup {None}
           Top(m) == m = None \/ m \in w.service.messages
           Walk(f) == [m \in D |-> IF Top(m) THEN m ELSE f[parent(m)]]
           Closed(X) == \A m \in X : ~Top(m) => parent(m) \in X
           Tops(m) == {x \in D : Top(x) /\ \A X \in SUBSET D : Closed(X) /\ m \in X => x \in X}
           walked == [m \in D |-> CHOOSE x : x \in Tops(m)]
           synced == CHOOSE f : f = Walk(f)
<1>1. /\ messages \in Seq(Nat) /\ DOMAIN messages = 1 .. Len(messages) /\ Len(messages) \in Nat
      /\ \A j \in DOMAIN messages :
            parent(messages[j]) = IF j = 1 THEN None ELSE messages[j - 1]
  <2>1. messages = w.store.states[w.call.ref].messages
    BY DEF StateOf
  <2> HIDE DEF messages
  <2>2. messages \in Seq(Nat) /\ DOMAIN messages = 1 .. Len(messages)
    BY <2>1, StoreParts
  <2>3. ASSUME NEW j \in DOMAIN messages
        PROVE  parent(messages[j]) = IF j = 1 THEN None ELSE messages[j - 1]
    <3> DEFINE s == w.store
               ref == w.call.ref
    <3>1. Facts!StoreOK(s) /\ ref \in DOMAIN s.states /\ messages = s.states[ref].messages
          /\ j \in DOMAIN s.states[ref].messages
      BY <2>1
    <3> HIDE DEF s, ref
    <3>2. s.messages[s.states[ref].messages[j]].parent
            = IF j = 1 THEN None ELSE s.states[ref].messages[j - 1]
      BY <3>1, ChainedMessage
    <3>3. s.messages[messages[j]].parent = IF j = 1 THEN None ELSE messages[j - 1]
      BY <3>1, <3>2
    <3> QED  BY <3>3 DEF s
  <2> HIDE DEF parent
  <2> QED  BY <2>2, <2>3
<1>2. ASSUME NEW m \in D, ~Top(m) PROVE parent(m) \in D
  <2>1. PICK j \in DOMAIN messages : m = messages[j]
    BY <1>2
  <2> HIDE DEF messages, parent
  <2>2. parent(m) = IF j = 1 THEN None ELSE messages[j - 1]
    BY <1>1, <2>1
  <2>3. j # 1 => j - 1 \in DOMAIN messages
    BY <1>1
  <2> QED  BY <2>2, <2>3
<1>3. ASSUME NEW m \in D, Top(m) PROVE walked[m] = m
  <2>1. Tops(m) = {m}
    <3>1. {m} \in SUBSET D /\ Closed({m})  BY <1>3
    <3>2. \A x \in Tops(m) : x = m  BY <3>1
    <3>3. m \in Tops(m)  BY <1>3
    <3> QED  BY <3>2, <3>3
  <2> HIDE DEF Tops
  <2> QED  BY <2>1
<1>4. ASSUME NEW m \in D, ~Top(m) PROVE walked[m] = walked[parent(m)]
  <2>1. Tops(m) = Tops(parent(m))
    <3>1. ASSUME NEW x \in Tops(parent(m)) PROVE x \in Tops(m)
      BY <1>4
    <3>2. ASSUME NEW x \in Tops(m) PROVE x \in Tops(parent(m))
      <4>1. ASSUME NEW X \in SUBSET D, Closed(X), parent(m) \in X PROVE x \in X
        <5>1. X \cup {m} \in SUBSET D /\ Closed(X \cup {m})  BY <4>1
        <5>2. x \in X \cup {m} /\ x # m  BY <5>1, <1>4
        <5> QED  BY <5>2
      <4> QED  BY <4>1
    <3> QED  BY <3>1, <3>2
  <2> HIDE DEF Tops, Top, D
  <2> QED  BY <2>1, <1>2, <1>4
<1>5. walked = Walk(walked)
  <2> HIDE DEF Top, D, Tops
  <2>1. ASSUME NEW m \in D PROVE walked[m] = Walk(walked)[m]
    <3> HIDE DEF walked
    <3> QED  BY <1>3, <1>4
  <2>2. walked = [m \in D |-> walked[m]]  OBVIOUS
  <2>3. Walk(walked) = [m \in D |-> Walk(walked)[m]]  OBVIOUS
  <2> HIDE DEF walked, Walk
  <2> QED  BY <2>1, <2>2, <2>3
<1>6. synced = Walk(synced)
  <2> HIDE DEF walked, Walk
  <2> QED  BY <1>5
<1>7. messages[i] \in Map /\ parent(messages[i]) \in D /\ Top(parent(messages[i]))
  <2> HIDE DEF parent
  <2>1. parent(messages[i]) = IF i = 1 THEN None ELSE messages[i - 1]
    BY <1>1
  <2>2. i # 1 => i - 1 \in DOMAIN messages /\ i - 1 \in 1 .. i - 1
    BY <1>1
  <2>3. i # 1 => messages[i - 1] \in w.service.messages
    BY <2>2
  <2>4. i \in DOMAIN messages
    OBVIOUS
  <2> HIDE DEF messages
  <2> QED  BY <2>1, <2>2, <2>3, <2>4
<1>8. synced[parent(messages[i])] = parent(messages[i])
  <2> DEFINE p == parent(messages[i])
  <2>1. Walk(synced)[p] = p
    <3> HIDE DEF synced, Top, D, p
    <3> QED  BY <1>7 DEF p
  <2> HIDE DEF synced, Walk
  <2> QED  BY <2>1, <1>6
<1>9. SyncedParent(w, messages[i]) = synced[parent(messages[i])]
  BY DEF SyncedParent
<1> QED  BY <1>7, <1>8, <1>9

\* A mark on the conversation id is one on the state the Map has for it, if any.
Marked(s, t, id) ==
    /\ Facts!StoreOK(t) /\ Facts!Grows(s, t)
    /\ t.conversations = s.conversations /\ DOMAIN t.states = DOMAIN s.states
    /\ \A ref \in DOMAIN s.states : t.states[ref].messages = s.states[ref].messages
    /\ \A ref \in DOMAIN s.states \ {s.conversations[id]} : t.states[ref] = s.states[ref]

LEMMA SameMarked ==
    ASSUME NEW s, NEW id, Facts!StoreOK(s)
    PROVE  Marked(s, s, id)
  BY DEF Marked, Facts!Grows

LEMMA WrittenMarked ==
    ASSUME NEW s, NEW t, NEW id \in ConversationId, NEW dirty \in BOOLEAN, Facts!StoreOK(s),
           s.conversations[id] \in DOMAIN s.states,
           Facts!Written(s, t, s.conversations[id],
                         [s.states[s.conversations[id]] EXCEPT !.dirty = dirty])
    PROVE  Marked(s, t, id) /\ t.states[s.conversations[id]].dirty = dirty
<1> DEFINE ref == s.conversations[id]
           state == [s.states[ref] EXCEPT !.dirty = dirty]
<1>1. s.states[ref] \in Facts!StateType
  BY StoreParts
<1>2. state.messages = s.states[ref].messages /\ state.dirty = dirty
  BY <1>1 DEF Facts!StateType
<1> HIDE DEF state
<1>3. Facts!Written(s, t, ref, state)
  BY DEF state
<1> QED  BY <1>2, <1>3 DEF Marked, Facts!Written

LEMMA MarksOK ==
    ASSUME NEW s, Facts!StoreOK(s), NEW id \in ConversationId
    PROVE  /\ Marked(s, Store!markSynced(s, id), id)
           /\ Marked(s, Store!markDirtyById(s, id), id)
           /\ Store!has(s, id) => Store!markDirtyById(s, id).states[s.conversations[id]].dirty
<1> DEFINE ref == s.conversations[id]
           t == Facts!markSynced(s, id)
           u == Facts!markDirtyById(s, id)
<1>1. CASE ~Facts!has(s, id)
  <2>1. t = s /\ u = s
    BY <1>1 DEF Facts!markSynced, Facts!markDirtyById
  <2> QED  BY <1>1, <2>1, SameReads, SameMarks, SameMarked
<1>2. CASE Facts!has(s, id)
  <2>1. ref \in DOMAIN s.states
    BY <1>2, SyncAssumption, Facts!HeldRef DEF Store!StoreAssumption
  <2>2. Facts!Written(s, t, ref, [s.states[ref] EXCEPT !.dirty = FALSE])
    BY <1>2, SyncAssumption, Facts!MarkSyncedOK DEF Store!StoreAssumption
  <2>3. Facts!Written(s, u, ref, [s.states[ref] EXCEPT !.dirty = TRUE])
    BY <1>2, SyncAssumption, Facts!MarkDirtyByIdOK DEF Store!StoreAssumption
  <2> HIDE DEF t, u
  <2>4. Marked(s, t, id)
    BY <2>1, <2>2, WrittenMarked
  <2>5. Marked(s, u, id) /\ u.states[ref].dirty
    BY <2>1, <2>3, WrittenMarked
  <2> QED  BY <2>4, <2>5, SameMarks DEF t, u
<1> QED  BY <1>1, <1>2

LEMMA ReadyMarked ==
    ASSUME NEW w, NEW r, Ready(w, r), NEW t, NEW id, Marked(w.store, t, id)
    PROVE  LET y == [w EXCEPT !.store = t]
           IN  Ready(y, r) /\ y.store = t /\ y.service = w.service /\ y.call = w.call
<1> DEFINE y == [w EXCEPT !.store = t]
<1>1. t \in Facts!StoreType
  BY StoreParts DEF Marked
<1>2. y \in WorldType /\ y.store = t /\ y.service = w.service /\ y.call = w.call
  BY <1>1, WithStore DEF Ready
<1> HIDE DEF y
<1> QED  BY <1>2 DEF Ready, Marked, y

\* The call goes on with the next conversation from the world y.
Via(c, w, y, x, r) ==
    /\ Ready(y, r) /\ y.service = w.service /\ y.call.todo = w.call.todo
    /\ y.call.space = w.call.space /\ Nexts(c, y, x)

LEMMA ViaNext ==
    ASSUME NEW c, NEW w, NEW y, NEW r, Ready(y, r), y.service = w.service,
           y.call.todo = w.call.todo, y.call.space = w.call.space
    PROVE  Via(c, w, y, PushNext(c, y), r)
  BY PushNextIs DEF Via

LEMMA StateId ==
    ASSUME NEW w, NEW r, Ready(w, r), w.call.ref \in DOMAIN w.store.states
    PROVE  StateOf(w).id \in ConversationId
  BY StoreParts DEF Ready, StateOf

LEMMA PushedIs ==
    ASSUME NEW c, NEW w, NEW r, Ready(w, r), w.call.ref \in DOMAIN w.store.states
    PROVE  \E y : /\ Via(c, w, y, Pushed(c, w), r)
                  /\ IF c = AutoCall THEN Marked(w.store, y.store, StateOf(w).id)
                     ELSE y.store = w.store
<1> DEFINE t == Store!markSynced(w.store, StateOf(w).id)
           y == [w EXCEPT !.store = t]
<1>1. Marked(w.store, t, StateOf(w).id)
  BY StateId, MarksOK DEF Ready
<1>2. Pushed(c, w) = PushNext(c, IF c = AutoCall THEN y ELSE w)
  BY DEF Pushed
<1> HIDE DEF t
<1>3. Ready(y, r) /\ y.store = t /\ y.service = w.service /\ y.call = w.call
  BY <1>1, ReadyMarked
<1> HIDE DEF y
<1>4. CASE c = AutoCall
  BY <1>1, <1>2, <1>3, <1>4, ViaNext
<1>5. CASE c # AutoCall
  BY <1>2, <1>5, ViaNext
<1> QED  BY <1>4, <1>5

LEMMA NotPushedIs ==
    ASSUME NEW c, NEW w, NEW r, Ready(w, r), w.call.ref \in DOMAIN w.store.states
    PROVE  \E y : /\ Via(c, w, y, NotPushed(c, w), r)
                  /\ y.store = IF c = AutoCall THEN w.store
                               ELSE Store!markDirtyById(w.store, StateOf(w).id)
<1>1. CASE c = AutoCall
  <2> DEFINE k == [w.call EXCEPT !.failed = TRUE]
             y == [w EXCEPT !.call = k]
  <2>1. w \in WorldType /\ w.call \in CallType
    BY WorldParts DEF Ready
  <2>2. k \in CallType /\ k.todo = w.call.todo /\ k.space = w.call.space
    BY <2>1 DEF CallType
  <2>3. NotPushed(c, w) = PushNext(c, y)
    BY <1>1, <2>1 DEF NotPushed, WorldType, CallType
  <2> HIDE DEF k
  <2>4. y \in WorldType /\ y.store = w.store /\ y.service = w.service /\ y.call = k
    BY <2>1, <2>2, WithCall
  <2> HIDE DEF y
  <2>5. Ready(y, r)
    BY <2>2, <2>4 DEF Ready
  <2> QED  BY <1>1, <2>2, <2>3, <2>4, <2>5, ViaNext
<1>2. CASE c # AutoCall
  <2> DEFINE t == Store!markDirtyById(w.store, StateOf(w).id)
             y == [w EXCEPT !.store = t]
  <2>1. Marked(w.store, t, StateOf(w).id)
    BY StateId, MarksOK DEF Ready
  <2>2. NotPushed(c, w) = PushNext(c, y)
    BY <1>2 DEF NotPushed
  <2> HIDE DEF t
  <2>3. Ready(y, r) /\ y.store = t /\ y.service = w.service /\ y.call = w.call
    BY <2>1, ReadyMarked
  <2> HIDE DEF y
  <2> QED  BY <1>2, <2>2, <2>3, ViaNext DEF t
<1> QED  BY <1>1, <1>2

\* The message loop sends the next message, those before it being mapped.
Continues(w, x) ==
    /\ Kept(w, x) /\ x.call.pc = "message" /\ x.call.ref = w.call.ref
    /\ x.call.target = w.call.target /\ x.call.space = w.call.space
    /\ x.call.sent.key = w.service.space
    /\ MessageOK(x.call, w.store, w.service)

AllMapped(w) == \A i \in DOMAIN StateOf(w).messages : StateOf(w).messages[i] \in w.service.messages

LEMMA PushMessagesIs ==
    ASSUME NEW c, NEW w, NEW r, Ready(w, r), w.call.ref \in DOMAIN w.store.states,
           w.call.from # 0,
           \A j \in 1 .. w.call.from - 1 : StateOf(w).messages[j] \in w.service.messages
    PROVE  \/ AllMapped(w) /\ PushMessages(c, w) = Pushed(c, w)
           \/ Continues(w, PushMessages(c, w))
<1> DEFINE messages == StateOf(w).messages
           from == w.call.from
           left == {i \in from .. Len(messages) : messages[i] \notin w.service.messages}
           next == Min(left)
           sent == [NoRequest EXCEPT !.message = messages[next],
                                     !.parent = SyncedParent(w, messages[next]),
                                     !.key = w.service.space]
           k == [w.call EXCEPT !.from = next + 1]
           y == [w EXCEPT !.call = k]
<1>1. /\ w \in WorldType /\ Facts!StoreOK(w.store) /\ w.call \in CallType /\ from \in Nat
      /\ w.service.space \in Nat
  BY WorldParts DEF Ready
<1>2. /\ messages = w.store.states[w.call.ref].messages
      /\ messages \in Seq(Nat) /\ DOMAIN messages = 1 .. Len(messages) /\ Len(messages) \in Nat
  BY <1>1, StoreParts DEF StateOf
<1>3. \A i \in DOMAIN messages : i \notin left => messages[i] \in w.service.messages
  <2> HIDE DEF messages
  <2>1. ASSUME NEW i \in DOMAIN messages, i \notin left PROVE messages[i] \in w.service.messages
    <3>1. CASE i < from
      <4>1. i \in 1 .. from - 1  BY <3>1, <1>1, <1>2
      <4> QED  BY <4>1 DEF messages
    <3>2. CASE ~(i < from)
      <4>1. i \in from .. Len(messages)  BY <3>2, <1>1, <1>2
      <4> QED  BY <4>1, <2>1
    <3> QED  BY <3>1, <3>2
  <2> QED  BY <2>1
<1>4. CASE left = {}
  <2>1. PushMessages(c, w) = Pushed(c, w)
    BY <1>4 DEF PushMessages
  <2> QED  BY <1>3, <1>4, <2>1 DEF AllMapped
<1>5. CASE left # {}
  <2>1. left \in SUBSET Nat
    <3> HIDE DEF messages, from
    <3>1. \A i \in from .. Len(messages) : i \in Nat
      BY <1>1, <1>2
    <3> QED  BY <3>1
  <2>2. PushMessages(c, w) = Send(y, "message", sent)
    BY <1>1, <1>5 DEF PushMessages, WorldType, CallType
  <2>3. next \in left /\ \A i \in left : next <= i
    <3> HIDE DEF left
    <3> QED  BY <1>5, <2>1, LeastMin
  <2>4. next \in DOMAIN messages /\ next \in Nat /\ messages[next] \in Nat
    <3> HIDE DEF messages, next, from
    <3>1. next \in from .. Len(messages) /\ from # 0
      BY <2>3 DEF from
    <3>2. next \in 1 .. Len(messages)
      BY <3>1, <1>1, <1>2
    <3>3. next \in DOMAIN messages
      BY <3>2, <1>2
    <3>4. messages \in Seq(Nat) => \A i \in DOMAIN messages : i \in Nat /\ messages[i] \in Nat
      OBVIOUS
    <3> QED  BY <3>3, <3>4, <1>2
  <2>5. \A j \in 1 .. next - 1 : j \in DOMAIN messages /\ j \notin left
    <3> HIDE DEF messages, left, next
    <3> QED  BY <2>3, <2>4, <1>2
  <2>6. \A j \in 1 .. next - 1 : messages[j] \in w.service.messages
    <3> HIDE DEF left, next, messages
    <3> QED  BY <2>5, <1>3
  <2>7. LET parent == w.store.messages[messages[next]].parent
        IN  /\ SyncedParent(w, messages[next]) = parent
            /\ parent # None => parent \in w.service.messages
    <3> HIDE DEF next
    <3> QED  BY <1>1, <2>4, <2>6, SyncedParentIs
  <2>8. w.store.messages[messages[next]].parent \in Nat
    <3> HIDE DEF next
    <3>1. messages[next] \in DOMAIN w.store.messages
      BY <1>1, <1>2, <2>4, ChainedMessage
    <3>2. w.store.messages \in Seq(Facts!MessageType)
      BY <1>1, StoreParts
    <3> HIDE DEF messages
    <3>3. w.store.messages[messages[next]] \in Facts!MessageType
      BY <3>1, <3>2
    <3> QED  BY <3>3 DEF Facts!MessageType
  <2>9. /\ sent \in RequestType /\ sent.message = messages[next] /\ sent.key = w.service.space
        /\ sent.parent = w.store.messages[messages[next]].parent
    <3> HIDE DEF next, messages
    <3> QED  BY <1>1, <2>4, <2>7, <2>8, ConstantsOK DEF RequestType
  <2>10. /\ k \in CallType /\ k.from = next + 1 /\ k.ref = w.call.ref /\ k.todo = w.call.todo
         /\ k.target = w.call.target /\ k.space = w.call.space
    <3> HIDE DEF next
    <3> QED  BY <1>1, <2>4 DEF CallType
  <2> HIDE DEF k, sent, messages, left, next
  <2>11. y \in WorldType /\ y.store = w.store /\ y.service = w.service /\ y.call = k
    BY <1>1, <2>10, WithCall
  <2> HIDE DEF y
  <2> DEFINE x == Send(y, "message", sent)
  <2>12. /\ Kept(y, x) /\ x.call.pc = "message" /\ x.call.sent = sent
         /\ x.call.ref = y.call.ref /\ x.call.from = y.call.from
         /\ x.call.target = y.call.target /\ x.call.space = y.call.space
    BY <2>9, <2>11, SendIs
  <2> HIDE DEF x
  <2>13. /\ Kept(w, x) /\ x.call.ref = w.call.ref /\ x.call.from = next + 1
         /\ x.call.target = w.call.target /\ x.call.space = w.call.space
         /\ x.call.sent.key = w.service.space
    BY <2>9, <2>10, <2>11, <2>12 DEF Kept
  <2>14. x.call.from - 1 = next /\ x.call.from - 2 = next - 1
    BY <2>4, <2>13
  <2>15. MessageOK(x.call, w.store, w.service)
    BY <1>2, <2>4, <2>6, <2>7, <2>9, <2>12, <2>13, <2>14 DEF MessageOK
  <2> QED  BY <2>2, <2>12, <2>13, <2>15 DEF Continues, x
<1> QED  BY <1>4, <1>5

\* The space is known: the snapshot is taken, or the one conversation is begun.
Snapshot(s) == {s.conversations[id] : id \in Store!getDirty(s)}

Pushes(c, w, x, r) == \E y :
    /\ Ready(y, r) /\ y.service = w.service /\ y.call.space = w.service.space
    /\ IF c = AutoCall
       THEN y.store = w.store /\ y.call.todo = Snapshot(w.store) /\ Nexts(c, y, x)
       ELSE /\ Marked(w.store, y.store, StateOf(w).id) /\ y.call.todo = w.call.todo
            /\ Begins(y, x, w.call.ref)

LEMMA SnapshotIs ==
    ASSUME NEW s, Facts!StoreOK(s)
    PROVE  Snapshot(s) \subseteq DOMAIN s.states /\ Snapshot(s) \in SUBSET Nat
<1>1. ASSUME NEW id \in Store!getDirty(s)
      PROVE  s.conversations[id] \in DOMAIN s.states
  <2>1. id \in ConversationId /\ Facts!has(s, id)
    BY SameReads DEF Store!getDirty, Store!IsDirty
  <2> QED  BY <2>1, SyncAssumption, Facts!HeldRef DEF Store!StoreAssumption
<1> QED  BY <1>1, StoreParts DEF Snapshot

LEMMA PushAllIs ==
    ASSUME NEW c, NEW w, NEW r, Ready(w, r), w.call.space = w.service.space,
           c # AutoCall => w.call.ref \in DOMAIN w.store.states
    PROVE  Pushes(c, w, PushAll(c, w), r)
<1>1. w \in WorldType /\ Facts!StoreOK(w.store) /\ w.call \in CallType
  BY WorldParts DEF Ready
<1>2. CASE c = AutoCall
  <2> DEFINE dirty == Snapshot(w.store)
             k == [w.call EXCEPT !.todo = dirty]
             y == [w EXCEPT !.call = k]
  <2>1. dirty \subseteq DOMAIN w.store.states /\ dirty \in SUBSET Nat
    BY <1>1, SnapshotIs
  <2>2. PushAll(c, w) = PushNext(c, y)
    BY <1>1, <1>2 DEF PushAll, WorldType, CallType, Snapshot
  <2> HIDE DEF dirty
  <2>3. k \in CallType /\ k.todo = dirty /\ k.space = w.call.space
    BY <1>1, <2>1 DEF CallType
  <2> HIDE DEF k
  <2>4. y \in WorldType /\ y.store = w.store /\ y.service = w.service /\ y.call = k
    BY <1>1, <2>3, WithCall
  <2> HIDE DEF y
  <2>5. Ready(y, r)
    BY <2>1, <2>3, <2>4 DEF Ready
  <2>6. Nexts(c, y, PushAll(c, w))
    BY <2>2, <2>5, PushNextIs
  <2> QED  BY <1>2, <2>3, <2>4, <2>5, <2>6 DEF Pushes, dirty
<1>3. CASE c # AutoCall
  <2> DEFINE t == Store!markSynced(w.store, StateOf(w).id)
             y == [w EXCEPT !.store = t]
  <2>1. Marked(w.store, t, StateOf(w).id)
    BY <1>3, StateId, MarksOK DEF Ready
  <2>2. PushAll(c, w) = PushConversation(y, w.call.ref)
    BY <1>3 DEF PushAll
  <2> HIDE DEF t
  <2>3. Ready(y, r) /\ y.store = t /\ y.service = w.service /\ y.call = w.call
    BY <2>1, ReadyMarked
  <2> HIDE DEF y
  <2>4. y \in WorldType /\ w.call.ref \in DOMAIN y.store.states /\ Facts!StoreOK(y.store)
    BY <1>3, <2>1, <2>3 DEF Ready, Marked
  <2>5. Begins(y, PushAll(c, w), w.call.ref)
    BY <2>2, <2>4, PushConversationIs
  <2> QED  BY <1>3, <2>1, <2>3, <2>5 DEF Pushes
<1> QED  BY <1>2, <1>3

\* A space becomes that of the service and of the call, or of the call only.
Caches(w, space) == [w EXCEPT !.service.space = space, !.call.space = space]
Uses(w, space) == [w EXCEPT !.call.space = space]

LEMMA WithSpaceIs ==
    ASSUME NEW w, NEW r, Ready(w, r), NEW space \in Nat
    PROVE  LET y == Caches(w, space)
               z == Uses(w, space)
           IN  /\ Ready(y, r) /\ y.store = w.store
               /\ y.service.messages = w.service.messages
               /\ y.service.conversations = w.service.conversations
               /\ y.call.ref = w.call.ref /\ y.call.todo = w.call.todo
               /\ y.service.space = space /\ y.call.space = space /\ z.call.space = space
               /\ Ready(z, r) /\ z.store = w.store /\ z.service = w.service
               /\ z.call.ref = w.call.ref /\ z.call.todo = w.call.todo
<1> DEFINE v == [w.service EXCEPT !.space = space]
           k == [w.call EXCEPT !.space = space]
           y == [w EXCEPT !.service = v, !.call = k]
           z == [w EXCEPT !.call = k]
<1>1. w \in WorldType /\ w.service \in ServiceType /\ w.call \in CallType
  BY WorldParts DEF Ready
<1>2. /\ v \in ServiceType /\ v.messages = w.service.messages
      /\ v.conversations = w.service.conversations /\ v.space = space
  BY <1>1 DEF ServiceType
<1>3. k \in CallType /\ k.ref = w.call.ref /\ k.todo = w.call.todo /\ k.space = space
  BY <1>1 DEF CallType
<1>4. y = Caches(w, space) /\ z = Uses(w, space)
  BY <1>1 DEF WorldType, ServiceType, CallType, Caches, Uses
<1>5. ServiceOK(v, r)
  BY <1>2 DEF Ready, ServiceOK
<1> HIDE DEF v, k
<1>6. y \in WorldType /\ y.store = w.store /\ y.service = v /\ y.call = k
  BY <1>1, <1>2, <1>3 DEF WorldType
<1>7. z \in WorldType /\ z.store = w.store /\ z.service = w.service /\ z.call = k
  BY <1>1, <1>3, WithCall
<1> HIDE DEF y, z
<1>8. Ready(y, r) /\ Ready(z, r)
  BY <1>3, <1>5, <1>6, <1>7 DEF Ready
<1> QED  BY <1>2, <1>3, <1>4, <1>6, <1>7, <1>8

LEMMA GetOrCreateSpaceIs ==
    ASSUME NEW c, NEW w, NEW r, Ready(w, r),
           c # AutoCall => w.call.ref \in DOMAIN w.store.states
    PROVE  \/ /\ Lists(w, GetOrCreateSpace(c, w))
              /\ GetOrCreateSpace(c, w).call.ref = w.call.ref
           \/ w.service.space # None /\ Pushes(c, w, GetOrCreateSpace(c, w), r)
<1>1. w \in WorldType /\ w.service.space \in Nat
  BY WorldParts DEF Ready
<1>2. CASE w.service.space # None
  <2> DEFINE z == Uses(w, w.service.space)
  <2>1. /\ Ready(z, r) /\ z.store = w.store /\ z.service = w.service
        /\ z.call.ref = w.call.ref /\ z.call.todo = w.call.todo
        /\ z.call.space = w.service.space
    BY <1>1, WithSpaceIs
  <2>2. GetOrCreateSpace(c, w) = PushAll(c, z)
    BY <1>2 DEF GetOrCreateSpace, Uses
  <2> HIDE DEF z
  <2>3. Pushes(c, z, PushAll(c, z), r)
    BY <2>1, PushAllIs
  <2>4. StateOf(z) = StateOf(w)
    BY <2>1 DEF StateOf
  <2> QED  BY <1>2, <2>1, <2>2, <2>3, <2>4 DEF Pushes
<1>3. CASE w.service.space = None
  <2>1. GetOrCreateSpace(c, w) = Send(w, "list", NoRequest)
    BY <1>3 DEF GetOrCreateSpace
  <2> QED  BY <1>1, <2>1, ConstantsOK, SendIs DEF Lists
<1> QED  BY <1>2, <1>3

-------------------------------------------------------------------------------
(* Each step keeps the invariant *)

\* The world x is one that a step of the call c may make of the store s and the service v.
Runs(c, s, v, x, r) ==
    /\ Facts!StoreOK(x.store) /\ Facts!Grows(s, x.store)
    /\ ServiceOK(x.service, r) /\ v.messages \subseteq x.service.messages
    /\ CallOK(c, x.call, x.store, x.service, r)

LEMMA RunsFrom ==
    ASSUME NEW c, NEW s, NEW t, NEW v, NEW u, NEW x, NEW r, Facts!Grows(s, t),
           v.messages \subseteq u.messages, Runs(c, t, u, x, r)
    PROVE  Runs(c, s, v, x, r)
  BY SyncAssumption, Facts!GrowsTransitive DEF Runs, Store!StoreAssumption

LEMMA KeptRuns ==
    ASSUME NEW c, NEW w, NEW x, NEW r, Ready(w, r), Kept(w, x),
           HasState(c, x.call) => x.call.ref \in DOMAIN w.store.states,
           x.call.pc = "conversation" => x.call.from = 1,
           x.call.pc = "message" => MessageOK(x.call, w.store, w.service)
    PROVE  Runs(c, w.store, w.service, x, r)
<1>1. x.call \in CallType
  BY WorldParts DEF Kept
<1>2. ReplyOK(x.call, w.store, r)
  BY DEF Kept, ReplyOK, NoReply
<1>3. Facts!Grows(w.store, w.store)
  BY DEF Facts!Grows
<1>4. x.call.todo \subseteq DOMAIN w.store.states
  BY DEF Ready, Kept
<1> QED  BY <1>1, <1>2, <1>3, <1>4 DEF Runs, CallOK, Kept, Ready

LEMMA NextsRuns ==
    ASSUME NEW c, NEW w, NEW x, NEW r, Ready(w, r), Nexts(c, w, x)
    PROVE  Runs(c, w.store, w.service, x, r)
<1>1. CASE Ends(w, x)
  BY <1>1, KeptRuns DEF Ends, HasState
<1>2. ASSUME NEW ref \in w.call.todo, Begins(w, x, ref)
      PROVE  Runs(c, w.store, w.service, x, r)
  BY <1>2, KeptRuns DEF Begins, Ready
<1> QED  BY <1>1, <1>2 DEF Nexts

LEMMA PushedRuns ==
    ASSUME NEW c, NEW w, NEW r, Ready(w, r), w.call.ref \in DOMAIN w.store.states
    PROVE  /\ Runs(c, w.store, w.service, Pushed(c, w), r)
           /\ Runs(c, w.store, w.service, NotPushed(c, w), r)
<1>1. Facts!Grows(w.store, w.store)
  BY DEF Facts!Grows
<1>2. ASSUME NEW y, NEW x, Via(c, w, y, x, r), Facts!Grows(w.store, y.store)
      PROVE  Runs(c, w.store, w.service, x, r)
  <2>1. Runs(c, y.store, y.service, x, r)
    BY <1>2, NextsRuns DEF Via
  <2> QED  BY <1>2, <2>1, RunsFrom DEF Via
<1>3. Runs(c, w.store, w.service, Pushed(c, w), r)
  <2>1. PICK y : /\ Via(c, w, y, Pushed(c, w), r)
                 /\ IF c = AutoCall THEN Marked(w.store, y.store, StateOf(w).id)
                    ELSE y.store = w.store
    BY PushedIs
  <2> QED  BY <1>1, <1>2, <2>1 DEF Marked
<1>4. Runs(c, w.store, w.service, NotPushed(c, w), r)
  <2>1. PICK y : /\ Via(c, w, y, NotPushed(c, w), r)
                 /\ y.store = IF c = AutoCall THEN w.store
                              ELSE Store!markDirtyById(w.store, StateOf(w).id)
    BY NotPushedIs
  <2>2. Marked(w.store, Store!markDirtyById(w.store, StateOf(w).id), StateOf(w).id)
    BY StateId, MarksOK DEF Ready
  <2> QED  BY <1>1, <1>2, <2>1, <2>2 DEF Marked
<1> QED  BY <1>3, <1>4

LEMMA PushMessagesRuns ==
    ASSUME NEW c, NEW w, NEW r, Ready(w, r), w.call.ref \in DOMAIN w.store.states,
           w.call.from # 0,
           \A j \in 1 .. w.call.from - 1 : StateOf(w).messages[j] \in w.service.messages
    PROVE  Runs(c, w.store, w.service, PushMessages(c, w), r)
<1>1. CASE PushMessages(c, w) = Pushed(c, w)
  BY <1>1, PushedRuns
<1>2. CASE Continues(w, PushMessages(c, w))
  BY <1>2, KeptRuns DEF Continues
<1> QED  BY <1>1, <1>2, PushMessagesIs

LEMMA PushesRuns ==
    ASSUME NEW c, NEW w, NEW x, NEW r, Ready(w, r), Pushes(c, w, x, r),
           c # AutoCall => w.call.ref \in DOMAIN w.store.states
    PROVE  Runs(c, w.store, w.service, x, r)
<1>1. PICK y : /\ Ready(y, r) /\ y.service = w.service
               /\ y.call.space = w.service.space
               /\ IF c = AutoCall
                  THEN /\ y.store = w.store /\ y.call.todo = Snapshot(w.store)
                       /\ Nexts(c, y, x)
                  ELSE /\ Marked(w.store, y.store, StateOf(w).id)
                       /\ y.call.todo = w.call.todo /\ Begins(y, x, w.call.ref)
  BY DEF Pushes
<1>2. CASE c = AutoCall
  BY <1>1, <1>2, NextsRuns
<1>3. CASE c # AutoCall
  <2>1. Begins(y, x, w.call.ref) /\ w.call.ref \in DOMAIN y.store.states
        /\ Facts!Grows(w.store, y.store)
    BY <1>1, <1>3 DEF Marked
  <2>2. Runs(c, y.store, y.service, x, r)
    BY <1>1, <2>1, KeptRuns DEF Begins
  <2> QED  BY <1>1, <2>1, <2>2, RunsFrom
<1> QED  BY <1>2, <1>3

LEMMA GetOrCreateSpaceRuns ==
    ASSUME NEW c, NEW w, NEW r, Ready(w, r),
           c # AutoCall => w.call.ref \in DOMAIN w.store.states
    PROVE  Runs(c, w.store, w.service, GetOrCreateSpace(c, w), r)
<1> DEFINE x == GetOrCreateSpace(c, w)
<1>1. CASE Lists(w, x) /\ x.call.ref = w.call.ref
  BY <1>1, KeptRuns DEF Lists, HasState
<1>2. CASE Pushes(c, w, x, r)
  BY <1>2, PushesRuns
<1> QED  BY <1>1, <1>2, GetOrCreateSpaceIs

LEMMA WorldReady ==
    ASSUME SyncOK, NEW c \in Calls
    PROVE  /\ Ready(World(c), remote)
           /\ World(c).store = store /\ World(c).service = service /\ World(c).call = call[c]
           /\ CallOK(c, call[c], store, service, remote) /\ call[c] \in CallType
<1>1. call[c] \in CallType /\ CallOK(c, call[c], store, service, remote)
  BY DEF SyncOK
<1>2. store \in Facts!StoreType /\ service \in ServiceType
  BY StoreParts DEF SyncOK, ServiceOK
<1>3. /\ World(c).store = store /\ World(c).service = service /\ World(c).call = call[c]
      /\ World(c) \in WorldType
  BY <1>1, <1>2 DEF World, WorldType
<1> QED  BY <1>1, <1>3 DEF Ready, SyncOK, CallOK

LEMMA CommitOK ==
    ASSUME SyncOK, NEW c \in Calls, NEW x, Runs(c, store, service, x, remote), Commit(c, x)
    PROVE  SyncOK'
<1>1. /\ store' = x.store /\ service' = x.service /\ remote' = remote
      /\ call' = [call EXCEPT ![c] = x.call]
  BY DEF Commit
<1>2. /\ Facts!StoreOK(store') /\ Facts!Grows(store, store')
      /\ ServiceOK(service', remote') /\ service.messages \subseteq service'.messages
      /\ CallOK(c, x.call, store', service', remote')
  BY <1>1 DEF Runs
<1>3. ServerOK(store', remote')
  BY <1>1, <1>2, ServerKept DEF SyncOK
<1>4. call' \in [Calls -> CallType]
  BY <1>1, <1>2 DEF SyncOK, CallOK
<1>5. RemoteGrows(remote, remote')
  BY <1>1 DEF RemoteGrows
<1>6. ASSUME NEW d \in Calls PROVE CallOK(d, call'[d], store', service', remote')
  <2>1. CASE d = c
    BY <1>1, <1>2, <2>1 DEF SyncOK
  <2>2. CASE d # c
    <3>1. CallOK(d, call[d], store, service, remote) /\ call'[d] = call[d] /\ Facts!StoreOK(store)
      BY <1>1, <2>2 DEF SyncOK
    <3> QED  BY <1>2, <1>5, <3>1, CallKept
  <2> QED  BY <2>1, <2>2
<1> QED  BY <1>2, <1>3, <1>4, <1>6 DEF SyncOK

LEMMA StoreChangeOK ==
    ASSUME SyncOK, Facts!StoreOK(store'), Facts!Grows(store, store'),
           UNCHANGED <<service, call, remote>>
    PROVE  SyncOK'
<1>1. RemoteGrows(remote, remote')
  BY DEF RemoteGrows
<1>2. ASSUME NEW d \in Calls PROVE CallOK(d, call'[d], store', service', remote')
  BY <1>1, CallKept DEF SyncOK
<1>3. ServerOK(store', remote')
  BY ServerKept DEF SyncOK
<1> QED  BY <1>2, <1>3 DEF SyncOK

LEMMA AnswerOK ==
    ASSUME SyncOK, NEW c \in Calls, UNCHANGED <<store, service>>,
           NEW status \in {"ok", "conflict", "error"}, NEW space \in Nat,
           Answer(c, status, space), RemoteGrows(remote, remote'), ServerOK(store, remote'),
           status = "ok" =>
              /\ call[c].pc = "conversation" =>
                    HasConversation(remote', call[c].target, store.states[call[c].ref].id)
              /\ call[c].pc = "message" => Uploaded(remote', call[c].sent.message)
    PROVE  SyncOK'
<1> DEFINE reply == [status |-> status, space |-> space]
           k == call[c]
           answered == [k EXCEPT !.reply = reply]
<1>1. k \in CallType /\ CallOK(c, k, store, service, remote') /\ call \in [Calls -> CallType]
  <2>1. Facts!Grows(store, store)
    BY DEF Facts!Grows
  <2>2. CallOK(c, k, store, service, remote) /\ Facts!StoreOK(store)
    BY DEF SyncOK
  <2> QED  BY <2>1, <2>2, CallKept DEF SyncOK
<1>2. /\ answered \in CallType /\ answered.reply = reply
      /\ answered.pc = k.pc /\ answered.ref = k.ref /\ answered.todo = k.todo
      /\ answered.target = k.target /\ answered.from = k.from /\ answered.sent = k.sent
  BY <1>1 DEF CallType
<1>3. call' = [call EXCEPT ![c] = answered]
  BY DEF Answer
<1> HIDE DEF answered
<1>4. CallOK(c, answered, store, service, remote')
  <2>1. ReplyOK(answered, store, remote')
    BY <1>2 DEF ReplyOK
  <2>2. HasState(c, answered) = HasState(c, k)
    BY <1>2 DEF HasState
  <2>3. k.pc = "message" => MessageOK(answered, store, service)
    BY <1>1, <1>2 DEF MessageOK, CallOK
  <2> QED  BY <1>1, <1>2, <2>1, <2>2, <2>3 DEF CallOK
<1>5. ASSUME NEW d \in Calls PROVE CallOK(d, call'[d], store', service', remote')
  <2>1. CASE d = c
    BY <1>1, <1>3, <1>4, <2>1
  <2>2. CASE d # c
    <3>1. call'[d] = call[d]
      BY <1>1, <1>3, <2>2
    <3>2. CallOK(d, call[d], store, service, remote) /\ Facts!StoreOK(store)
      BY DEF SyncOK
    <3>3. Facts!Grows(store, store)
      BY DEF Facts!Grows
    <3> QED  BY <3>1, <3>2, <3>3, CallKept
  <2> QED  BY <2>1, <2>2
<1>6. call' \in [Calls -> CallType]
  BY <1>1, <1>2, <1>3
<1>7. ServiceOK(service', remote')
  BY ServiceKept DEF SyncOK
<1> QED  BY <1>5, <1>6, <1>7 DEF SyncOK

LEMMA GetKept ==
    ASSUME NEW s, Facts!StoreOK(s), NEW id \in ConversationId
    PROVE  LET t == Store!get(s, id)
           IN  /\ Facts!StoreOK(t) /\ Facts!Grows(s, t) /\ Facts!Flagged(s, t)
               /\ t.conversations = s.conversations
               /\ Store!has(t, id) => t.conversations[id] \in DOMAIN t.states
               /\ Store!has(t, id) => t.states[t.conversations[id]].id = id
<1> DEFINE t == Facts!get(s, id)
<1>1. Facts!StoreOK(t) /\ Facts!SameHeap(s, t) /\ t.conversations = s.conversations
  BY SyncAssumption, Facts!GetOK DEF Store!StoreAssumption
<1> HIDE DEF t
<1>2. Facts!Grows(s, t) /\ Facts!Flagged(s, t)
  BY <1>1, SyncAssumption, Facts!SameHeapGrows DEF Store!StoreAssumption
<1>3. Facts!has(t, id) => /\ t.conversations[id] \in DOMAIN t.states
                          /\ t.states[t.conversations[id]].id = id
  BY <1>1, SyncAssumption, Facts!HeldRef DEF Store!StoreAssumption
<1>4. Store!get(s, id) = t
  BY SameReads DEF t
<1>5. Store!has(t, id) = Facts!has(t, id)
  BY SameReads
<1> QED  BY <1>1, <1>2, <1>3, <1>4, <1>5

\* What an operation of the application may do to the store.
Changed(s, t) == Facts!StoreOK(t) /\ Facts!Grows(s, t) /\ Facts!Flagged(s, t)

LEMMA AppendMessagesChanges ==
    ASSUME NEW s, Facts!StoreOK(s), NEW id \in ConversationId, NEW n \in Nat
    PROVE  Facts!Taken(s, Store!appendMessages(s, id, n), id)
<1>1. Facts!Taken(s, Facts!appendMessages(s, id, n), id)
  BY SyncAssumption, Facts!AppendMessagesOK DEF Store!StoreAssumption
<1>2. Store!appendMessages(s, id, n) = Facts!appendMessages(s, id, n)
  BY SameWrites
<1> QED  BY <1>1, <1>2

LEMMA CreateFromTurnsChanges ==
    ASSUME NEW s, Facts!StoreOK(s), NEW id \in ConversationId, NEW n \in Nat, NEW title \in Title
    PROVE  Facts!Taken(s, Store!createFromTurns(s, id, n, title), id)
  BY SameWrites, SyncAssumption, Facts!CreateFromTurnsOK DEF Store!StoreAssumption

LEMMA TakenChanges ==
    ASSUME NEW s, NEW t, NEW id, Facts!Taken(s, t, id)
    PROVE  Changed(s, t)
  BY DEF Facts!Taken, Changed

LEMMA SetTitleChanges ==
    ASSUME NEW s, Facts!StoreOK(s), NEW id \in ConversationId, NEW title \in Title,
           Store!has(s, id)
    PROVE  /\ Changed(s, Store!setTitle(s, id, title))
           /\ Store!setTitle(s, id, title).conversations = s.conversations
<1>1. Facts!has(s, id)
  BY SameReads
<1> DEFINE t == Facts!setTitle(s, id, title)
<1>2. Facts!StoreOK(t) /\ Facts!Grows(s, t) /\ Facts!Flagged(s, t)
      /\ t.conversations = s.conversations
  BY <1>1, SyncAssumption, Facts!SetTitleOK DEF Store!StoreAssumption
<1>3. Store!setTitle(s, id, title) = t
  BY SameWrites
<1> HIDE DEF t
<1> QED  BY <1>2, <1>3 DEF Changed

\* What a /save starts with: the world w of the store as the command leaves it, and the
\* step it makes of it.
LEMMA BeginSaveIs ==
    ASSUME SyncOK, NEW c \in Calls, NEW id \in ConversationId, NEW saved,
           Facts!StoreOK(saved), Facts!Grows(store, saved), BeginSave(c, id, saved)
    PROVE  \E w, x : /\ Ready(w, remote) /\ w.store = Store!get(saved, id)
                     /\ w.service = service /\ Facts!Grows(store, w.store)
                     /\ Commit(c, x)
                     /\ \/ /\ w.call.ref \in DOMAIN w.store.states
                           /\ x = GetOrCreateSpace(c, w)
                        \/ Ends(w, x)
<1> DEFINE found == Store!get(saved, id)
           k == [IdleCall EXCEPT !.ref = found.conversations[id]]
           w == [World(c) EXCEPT !.store = found, !.call = k]
           idle == [w EXCEPT !.call = IdleCall]
<1>1. /\ Facts!StoreOK(found) /\ Facts!Grows(saved, found)
      /\ Store!has(found, id) => found.conversations[id] \in DOMAIN found.states
  BY GetKept
<1>2. Facts!Grows(store, found)
  <2> HIDE DEF found
  <2> QED  BY <1>1, SyncAssumption, Facts!GrowsTransitive DEF Store!StoreAssumption
<1>3. Commit(c, IF Store!IsDirty(found, id) THEN GetOrCreateSpace(c, w) ELSE idle)
  BY DEF BeginSave
<1> HIDE DEF found
<1>4. found.conversations[id] \in Nat /\ found \in Facts!StoreType
  BY <1>1, StoreParts
<1>5. k \in CallType /\ k.todo = {} /\ k.ref = found.conversations[id]
  BY <1>4, ConstantsOK DEF IdleCall, CallType
<1>6. /\ World(c) \in WorldType /\ World(c).service = service
      /\ ServiceOK(service, remote)
  BY WorldReady DEF Ready
<1> HIDE DEF k
<1>7. w \in WorldType /\ w.store = found /\ w.service = service /\ w.call = k
  BY <1>4, <1>5, <1>6 DEF WorldType
<1> HIDE DEF w
<1>8. Ready(w, remote)
  BY <1>1, <1>5, <1>6, <1>7 DEF Ready
<1>9. idle \in WorldType /\ idle.store = found /\ idle.service = service /\ idle.call = IdleCall
  BY <1>7, ConstantsOK, WithCall
<1> HIDE DEF idle
<1>10. Ends(w, idle)
  BY <1>7, <1>9, ConstantsOK DEF Ends, Kept, IdleCall
<1>11. Store!IsDirty(found, id) => w.call.ref \in DOMAIN w.store.states
  BY <1>1, <1>5, <1>7 DEF Store!IsDirty
<1> QED  BY <1>2, <1>3, <1>7, <1>8, <1>10, <1>11 DEF found

LEMMA BeginSaveOK ==
    ASSUME SyncOK, NEW c \in Calls, NEW id \in ConversationId, NEW saved,
           Facts!StoreOK(saved), Facts!Grows(store, saved), BeginSave(c, id, saved)
    PROVE  SyncOK'
<1>1. PICK w, x : /\ Ready(w, remote) /\ w.service = service /\ Facts!Grows(store, w.store)
                  /\ Commit(c, x)
                  /\ \/ /\ w.call.ref \in DOMAIN w.store.states
                        /\ x = GetOrCreateSpace(c, w)
                     \/ Ends(w, x)
  BY BeginSaveIs
<1>2. Runs(c, w.store, w.service, x, remote)
  BY <1>1, GetOrCreateSpaceRuns, KeptRuns DEF Ends, HasState
<1>3. Runs(c, store, service, x, remote)
  BY <1>1, <1>2, RunsFrom
<1> QED  BY <1>1, <1>3, CommitOK

LEMMA ApplicationOK ==
    ASSUME SyncOK, Application
    PROVE  SyncOK'
<1>0. Facts!StoreOK(store)
  BY DEF SyncOK
<1>1. ASSUME NEW id \in ConversationId, NEW n \in 0 .. 2, AppendMessages(id, n)
      PROVE  SyncOK'
  <2>1. store' = Store!appendMessages(store, id, n) /\ UNCHANGED <<service, call, remote>>
    BY <1>1 DEF AppendMessages, Store!AppendMessages
  <2>2. Changed(store, store')
    BY <1>0, <2>1, AppendMessagesChanges, TakenChanges
  <2> QED  BY <2>1, <2>2, StoreChangeOK DEF Changed
<1>2. ASSUME NEW id \in ConversationId, NEW title \in Title, SetTitle(id, title)
      PROVE  SyncOK'
  <2>1. /\ store' = Store!setTitle(store, id, title) /\ UNCHANGED <<service, call, remote>>
        /\ Store!has(store, id)
    BY <1>2 DEF SetTitle, Store!SetTitle
  <2>2. Changed(store, store')
    BY <1>0, <2>1, SetTitleChanges
  <2> QED  BY <2>1, <2>2, StoreChangeOK DEF Changed
<1>3. ASSUME NEW c \in SaveCalls, NEW id \in ConversationId, Save(c, id)
      PROVE  SyncOK'
  <2>1. BeginSave(c, id, store) /\ c \in Calls /\ Facts!Grows(store, store)
    BY <1>3 DEF Save, Calls, Facts!Grows
  <2> QED  BY <1>0, <2>1, BeginSaveOK
<1>4. ASSUME NEW c \in SaveCalls, NEW id \in ConversationId, NEW title \in Title,
             SaveWithTitle(c, id, title)
      PROVE  SyncOK'
  <2> DEFINE saved == Store!setTitle(store, id, title)
  <2>1. BeginSave(c, id, saved) /\ c \in Calls /\ Store!has(store, id)
    BY <1>4 DEF SaveWithTitle, Calls
  <2>2. Changed(store, saved)
    BY <1>0, <2>1, SetTitleChanges
  <2> HIDE DEF saved
  <2> QED  BY <2>1, <2>2, BeginSaveOK DEF Changed
<1>5. ASSUME NEW c \in SaveCalls, NEW id \in ConversationId, NEW title \in Title,
             NEW n \in 0 .. 2, SaveTurns(c, id, n, title)
      PROVE  SyncOK'
  <2> DEFINE saved == Store!createFromTurns(store, id, n, title)
  <2>1. BeginSave(c, id, saved) /\ c \in Calls
    BY <1>5 DEF SaveTurns, Calls
  <2>2. Changed(store, saved)
    BY <1>0, CreateFromTurnsChanges, TakenChanges
  <2> HIDE DEF saved
  <2> QED  BY <2>1, <2>2, BeginSaveOK DEF Changed
<1> QED  BY <1>1, <1>2, <1>3, <1>4, <1>5 DEF Application

LEMMA TimerOK ==
    ASSUME SyncOK, TimerFires
    PROVE  SyncOK'
<1>1. CASE UNCHANGED <<store, service, call, remote>>
  <2>1. Facts!StoreOK(store') /\ Facts!Grows(store, store')
    BY <1>1 DEF SyncOK, Facts!Grows
  <2> QED  BY <1>1, <2>1, StoreChangeOK
<1>2. CASE Commit(AutoCall, GetOrCreateSpace(AutoCall,
                               [World(AutoCall) EXCEPT !.call = IdleCall]))
  <2> DEFINE w == [World(AutoCall) EXCEPT !.call = IdleCall]
  <2>1. /\ AutoCall \in Calls
        /\ World(AutoCall) \in WorldType /\ World(AutoCall).store = store
        /\ World(AutoCall).service = service
        /\ Facts!StoreOK(store) /\ ServiceOK(service, remote)
    BY WorldReady DEF Calls, Ready, SyncOK
  <2>2. w \in WorldType /\ w.store = store /\ w.service = service /\ w.call = IdleCall
    BY <2>1, ConstantsOK, WithCall
  <2> HIDE DEF w
  <2>3. Ready(w, remote)
    BY <2>1, <2>2, ConstantsOK DEF Ready
  <2>4. Runs(AutoCall, store, service, GetOrCreateSpace(AutoCall, w), remote)
    BY <2>2, <2>3, GetOrCreateSpaceRuns
  <2> QED  BY <1>2, <2>1, <2>4, CommitOK DEF w
<1> QED  BY <1>1, <1>2 DEF TimerFires

LEMMA ServeOK ==
    ASSUME SyncOK, NEW c \in Calls, Serve(c) \/ Refuse(c)
    PROVE  SyncOK'
<1>1. /\ CallOK(c, call[c], store, service, remote) /\ call[c] \in CallType
      /\ ServerOK(store, remote) /\ remote \in RemoteType /\ IsFiniteSet(remote.spaces)
      /\ ServiceOK(service, remote) /\ Facts!StoreOK(store)
  BY DEF SyncOK, ServerOK
<1>2. RemoteGrows(remote, remote)
  BY DEF RemoteGrows
<1>3. None \in Nat
  BY DEF None
\* The request had no effect that matters to the reply.
<1>4. ASSUME NEW status \in {"ok", "conflict", "error"}, NEW space \in Nat,
             Answer(c, status, space), Unaffected, remote' = remote,
             status = "ok" => call[c].pc \in {"list", "create"}
      PROVE  SyncOK'
  BY <1>1, <1>2, <1>4, AnswerOK DEF Unaffected
<1>5. ASSUME ServeList(c) PROVE SyncOK'
  <2>1. PICK space \in remote.spaces \cup {None} : Done(c, space)
    BY <1>5 DEF ServeList
  <2>2. space \in Nat
    BY <1>1, <1>3 DEF RemoteType
  <2> QED  BY <1>3, <1>4, <1>5, <2>1, <2>2 DEF ServeList, Done, Waiting
<1>6. ASSUME ServeCreate(c) PROVE SyncOK'
  <2> DEFINE new == Cardinality(remote.spaces) + 1
  <2>1. new \in Nat
    BY <1>1, FS_CardinalityType
  <2> HIDE DEF new
  <2>2. /\ remote' = [remote EXCEPT !.spaces = @ \cup {new}]
        /\ Done(c, new) /\ Unaffected /\ call[c].pc = "create"
    BY <1>6 DEF ServeCreate, WithSpace, Waiting, new
  <2>3. /\ remote' \in RemoteType /\ remote'.spaces = remote.spaces \cup {new}
        /\ remote'.conversations = remote.conversations /\ remote'.messages = remote.messages
    BY <1>1, <2>1, <2>2 DEF RemoteType
  <2>4. IsFiniteSet(remote'.spaces)
    BY <1>1, <2>3, FS_AddElement
  <2>5. RemoteGrows(remote, remote') /\ ServerOK(store, remote')
    BY <1>1, <2>3, <2>4 DEF RemoteGrows, ServerOK, Uploaded, HasConversation
  <2>6. ASSUME NEW status \in {"ok", "conflict", "error"}, NEW space \in Nat,
               Answer(c, status, space)
        PROVE  SyncOK'
    BY <2>2, <2>5, <2>6, AnswerOK DEF Unaffected
  <2> QED  BY <1>3, <2>1, <2>2, <2>6 DEF Done
<1>7. ASSUME ServeConversation(c) PROVE SyncOK'
  <2> DEFINE request == call[c].sent
             id == store.states[call[c].ref].id
             target == call[c].target
             there == {conv \in remote.conversations : conv.space = target /\ conv.id = id}
             new == [space |-> target, id |-> id, title |-> request.title, key |-> request.key]
  <2>1. Waiting(c, "conversation") /\ Unaffected
    BY <1>7 DEF ServeConversation
  <2>2. CASE Answer(c, "conflict", None) /\ UNCHANGED remote
    BY <1>3, <1>4, <2>1, <2>2
  <2>3. CASE /\ remote' = [remote EXCEPT !.conversations = (@ \ there) \cup {new}]
             /\ Done(c, None)
    <3>1. id \in ConversationId
      <4>1. call[c].ref \in DOMAIN store.states
        BY <1>1, <2>1 DEF CallOK, HasState, Waiting
      <4> QED  BY <1>1, <4>1, StoreParts
    <3>2. new \in [space : Nat, id : ConversationId, title : Title, key : Nat]
      BY <1>1, <3>1 DEF CallType, RequestType
    <3>3. new.space = target /\ new.id = id
      OBVIOUS
    <3> HIDE DEF new, id, target
    <3>4. /\ remote' \in RemoteType /\ remote'.spaces = remote.spaces
          /\ remote'.conversations = (remote.conversations \ there) \cup {new}
          /\ remote'.messages = remote.messages
      BY <1>1, <2>3, <3>2 DEF RemoteType
    <3>5. RemoteGrows(remote, remote')
      <4>1. ASSUME NEW space, NEW i, HasConversation(remote, space, i)
            PROVE  HasConversation(remote', space, i)
        <5>1. PICK conv \in remote.conversations : conv.id = i /\ conv.space = space
          BY <4>1 DEF HasConversation
        <5>2. CASE conv \in there
          BY <3>3, <3>4, <5>1, <5>2 DEF HasConversation
        <5>3. CASE conv \notin there
          BY <3>4, <5>1, <5>3 DEF HasConversation
        <5> QED  BY <5>2, <5>3
      <4> QED  BY <3>4, <4>1 DEF RemoteGrows, Uploaded
    <3>6. ServerOK(store, remote')
      BY <1>1, <3>4 DEF ServerOK, Uploaded
    <3>7. HasConversation(remote', target, id)
      BY <3>3, <3>4 DEF HasConversation
    <3>8. ASSUME NEW status \in {"ok", "conflict", "error"}, Answer(c, status, None)
          PROVE  SyncOK'
      BY <1>3, <2>1, <3>5, <3>6, <3>7, <3>8, AnswerOK DEF Unaffected, Waiting, target, id
    <3> QED  BY <2>3, <3>8 DEF Done
  <2> QED  BY <1>7, <2>2, <2>3 DEF ServeConversation
<1>8. ASSUME ServeMessage(c) PROVE SyncOK'
  <2> DEFINE request == call[c].sent
             new == [space |-> call[c].target, id |-> request.message,
                     parent |-> request.parent, key |-> request.key]
  <2>1. Waiting(c, "message") /\ Unaffected
    BY <1>8 DEF ServeMessage
  <2>2. CASE Answer(c, "conflict", None) /\ UNCHANGED remote
    BY <1>3, <1>4, <2>1, <2>2
  <2>3. CASE remote' = [remote EXCEPT !.messages = @ \cup {new}] /\ Done(c, None)
    <3>1. new \in [space : Nat, id : Nat, parent : Nat, key : Nat]
      BY <1>1 DEF CallType, RequestType
    <3>2. new.id = request.message /\ new.parent = request.parent
      OBVIOUS
    <3>3. /\ request.message \in DOMAIN store.messages
          /\ request.parent = store.messages[request.message].parent
          /\ request.parent # None => Uploaded(remote, request.parent)
      <4>1. MessageOK(call[c], store, service) /\ call[c].ref \in DOMAIN store.states
        BY <1>1, <2>1 DEF CallOK, HasState, Waiting
      <4>2. request.message \in DOMAIN store.messages
        BY <1>1, <4>1, ChainedMessage DEF MessageOK
      <4> QED  BY <1>1, <4>1, <4>2 DEF MessageOK, ServiceOK
    <3> HIDE DEF new, request
    <3>4. /\ remote' \in RemoteType /\ remote'.spaces = remote.spaces
          /\ remote'.conversations = remote.conversations
          /\ remote'.messages = remote.messages \cup {new}
      BY <1>1, <2>3, <3>1 DEF RemoteType
    <3>5. RemoteGrows(remote, remote')
      BY <3>4 DEF RemoteGrows, Uploaded, HasConversation
    <3>6. ServerOK(store, remote')
      BY <1>1, <3>2, <3>3, <3>4, <3>5 DEF ServerOK, RemoteGrows
    <3>7. Uploaded(remote', request.message)
      BY <3>2, <3>4 DEF Uploaded
    <3>8. ASSUME NEW status \in {"ok", "conflict", "error"}, Answer(c, status, None)
          PROVE  SyncOK'
      BY <1>3, <2>1, <3>5, <3>6, <3>7, <3>8, AnswerOK DEF Unaffected, Waiting, request
    <3> QED  BY <2>3, <3>8 DEF Done
  <2> QED  BY <1>8, <2>2, <2>3 DEF ServeMessage
<1>9. ASSUME Refuse(c) PROVE SyncOK'
  BY <1>3, <1>4, <1>9 DEF Refuse
<1> QED  BY <1>5, <1>6, <1>7, <1>8, <1>9 DEF Serve

\* What a call makes of an answer: it has a space, it creates one, it gives up, it goes on
\* with the messages, or its push failed.
HasSpace(c, y) ==
    /\ call[c].pc \in {"list", "create"} /\ Commit(c, PushAll(c, y))
    /\ Ready(y, remote) /\ y.store = store /\ y.service.messages = service.messages
    /\ y.call.ref = call[c].ref /\ y.call.todo = call[c].todo
    /\ call[c].reply.status = "ok" /\ (call[c].pc = "list" => call[c].reply.space # None)
    /\ y.service.space = call[c].reply.space /\ y.call.space = call[c].reply.space
    /\ y.service.conversations = service.conversations
NeedsSpace(c, x) ==
    /\ call[c].pc = "list" /\ call[c].reply.status = "ok" /\ call[c].reply.space = None
    /\ Commit(c, x) /\ Creates(World(c), x) /\ x.call.ref = call[c].ref
HasNoSpace(c, x) == call[c].pc \in {"list", "create"} /\ Commit(c, x) /\ Ends(World(c), x)
GoesOn(c, y) ==
    /\ call[c].pc \in {"conversation", "message"} /\ Commit(c, PushMessages(c, y))
    /\ Ready(y, remote) /\ y.store = store /\ service.messages \subseteq y.service.messages
    /\ y.service.space = service.space
    /\ \A id \in ConversationId :
          y.service.conversations[id] \in {service.conversations[id], call[c].target}
    /\ y.call = call[c] /\ y.call.from # 0 /\ y.call.ref \in DOMAIN store.states
    /\ \A j \in 1 .. y.call.from - 1 : StateOf(y).messages[j] \in y.service.messages
Failed(c) ==
    call[c].pc \in {"conversation", "message"} /\ Commit(c, NotPushed(c, World(c)))

LEMMA ResumeIs ==
    ASSUME SyncOK, NEW c \in Calls, Resume(c)
    PROVE  \/ \E y : HasSpace(c, y) \/ GoesOn(c, y)
           \/ \E x : NeedsSpace(c, x) \/ HasNoSpace(c, x)
           \/ Failed(c)
<1> DEFINE w == World(c)
           k == call[c]
           r == remote
<1>1. /\ Ready(w, r) /\ w.store = store /\ w.service = service /\ w.call = k
      /\ w \in WorldType /\ CallOK(c, k, store, service, r) /\ k \in CallType
  BY WorldReady DEF Ready
<1>2. k.pc \in {"conversation", "message"} => k.ref \in DOMAIN store.states
  BY <1>1 DEF CallOK, HasState
<1>3. k.reply.space \in Nat
  BY <1>1 DEF CallType
<1>4. ASSUME SpacesListed(c) \/ SpaceCreated(c)
      PROVE  (\E y : HasSpace(c, y)) \/ (\E x : NeedsSpace(c, x))
  <2> DEFINE y == Caches(w, k.reply.space)
             x == Send(w, "create", NoRequest)
  <2>1. /\ k.pc \in {"list", "create"} /\ k.reply.status = "ok"
        /\ \/ Commit(c, PushAll(c, y)) /\ (k.pc = "list" => k.reply.space # None)
           \/ Commit(c, x) /\ k.pc = "list" /\ k.reply.space = None
    BY <1>4 DEF SpacesListed, SpaceCreated, Answered, Caches
  <2>2. /\ Ready(y, r) /\ y.store = w.store /\ y.service.messages = w.service.messages
        /\ y.call.ref = w.call.ref /\ y.call.todo = w.call.todo
        /\ y.service.space = k.reply.space /\ y.call.space = k.reply.space
        /\ y.service.conversations = w.service.conversations
    BY <1>1, <1>3, WithSpaceIs
  <2>3. Kept(w, x) /\ x.call.pc = "create" /\ x.call.ref = w.call.ref
    BY <1>1, ConstantsOK, SendIs
  <2> HIDE DEF y, x, w
  <2> QED  BY <1>1, <2>1, <2>2, <2>3 DEF HasSpace, NeedsSpace, Creates, w
<1>5. ASSUME SpaceFailed(c) PROVE \E x : HasNoSpace(c, x)
  <2>1. Commit(c, Idle(w)) /\ k.pc \in {"list", "create"}
    BY <1>5 DEF SpaceFailed, Answered
  <2>2. Ends(w, Idle(w))
    BY <1>1, IdleIs
  <2> QED  BY <2>1, <2>2 DEF HasNoSpace
<1>6. ASSUME ConversationSent(c) PROVE \E y : GoesOn(c, y)
  <2> DEFINE id == StateOf(w).id
             v == [service EXCEPT !.conversations[id] = k.target]
             y == [w EXCEPT !.service = v]
  <2>1. /\ k.pc = "conversation" /\ k.reply.status = "ok"
        /\ Commit(c, PushMessages(c, [w EXCEPT !.service.conversations[id] = k.target]))
    BY <1>1, <1>6 DEF ConversationSent, Answered
  <2>2. /\ id \in ConversationId /\ id = store.states[k.ref].id
        /\ service \in ServiceType /\ ServiceOK(service, r)
    BY <1>1, <1>2, <2>1, StateId DEF StateOf, Ready, ServiceOK
  <2>3. y = [w EXCEPT !.service.conversations[id] = k.target]
    BY <1>1
  <2> HIDE DEF id
  <2>4. /\ v \in ServiceType /\ v.messages = service.messages
        /\ v.conversations = [service.conversations EXCEPT ![id] = k.target]
        /\ v.space = service.space
        /\ \A other \in ConversationId :
              v.conversations[other] \in {service.conversations[other], k.target}
    BY <1>1, <2>2 DEF ServiceType, CallType
  <2>5. ServiceOK(v, r)
    <3>1. HasConversation(r, k.target, id)
      BY <1>1, <2>1, <2>2 DEF CallOK, ReplyOK
    <3> QED  BY <2>2, <2>4, <3>1 DEF ServiceOK, ServiceType
  <2> HIDE DEF v, w
  <2>6. y \in WorldType /\ y.store = store /\ y.service = v /\ y.call = k
    BY <1>1, <2>4, WithService
  <2> HIDE DEF y
  <2>7. Ready(y, r)
    BY <1>1, <2>5, <2>6 DEF Ready
  <2>8. k.from = 1
    BY <1>1, <2>1 DEF CallOK
  <2>9. \A j \in 1 .. y.call.from - 1 : StateOf(y).messages[j] \in y.service.messages
    <3>1. \A j \in 1 .. 1 - 1 : FALSE
      OBVIOUS
    <3> QED  BY <2>6, <2>8, <3>1
  <2>10. /\ Commit(c, PushMessages(c, y)) /\ y.store = store /\ y.call = call[c]
         /\ service.messages \subseteq y.service.messages
         /\ y.call.from # 0 /\ y.call.ref \in DOMAIN store.states
    BY <1>2, <2>1, <2>3, <2>4, <2>6, <2>8
  <2>11. /\ y.service.space = service.space
         /\ \A other \in ConversationId :
               y.service.conversations[other] \in {service.conversations[other], call[c].target}
    BY <2>4, <2>6
  <2> QED  BY <2>1, <2>7, <2>9, <2>10, <2>11 DEF GoesOn
<1>7. ASSUME MessageSent(c) PROVE \E y : GoesOn(c, y)
  <2> DEFINE v == [service EXCEPT !.messages = @ \cup {k.sent.message}]
             y == [w EXCEPT !.service = v]
  <2>1. /\ k.pc = "message" /\ k.reply.status = "ok"
        /\ Commit(c, PushMessages(c, [w EXCEPT !.service.messages = @ \cup {k.sent.message}]))
    BY <1>1, <1>7 DEF MessageSent, Answered
  <2>2. service \in ServiceType /\ ServiceOK(service, r) /\ k.sent.message \in Nat
    BY <1>1 DEF Ready, ServiceOK, CallType, RequestType
  <2>3. y = [w EXCEPT !.service.messages = @ \cup {k.sent.message}]
    BY <1>1
  <2>4. /\ v \in ServiceType /\ v.messages = service.messages \cup {k.sent.message}
        /\ v.conversations = service.conversations /\ v.space = service.space
    BY <2>2 DEF ServiceType
  <2>5. ServiceOK(v, r)
    <3>1. Uploaded(r, k.sent.message)
      BY <1>1, <2>1 DEF CallOK, ReplyOK
    <3> QED  BY <2>2, <2>4, <3>1 DEF ServiceOK
  <2> HIDE DEF v, w
  <2>6. y \in WorldType /\ y.store = store /\ y.service = v /\ y.call = k
    BY <1>1, <2>4, WithService
  <2> HIDE DEF y
  <2>7. Ready(y, r)
    BY <1>1, <2>5, <2>6 DEF Ready
  <2> DEFINE messages == store.states[k.ref].messages
  <2>8. /\ k.ref \in DOMAIN store.states /\ k.from \in Nat
        /\ k.from - 1 \in DOMAIN messages /\ messages[k.from - 1] = k.sent.message
        /\ \A j \in 1 .. k.from - 2 : messages[j] \in service.messages
        /\ DOMAIN messages = 1 .. Len(messages)
    <3>1. k.ref \in DOMAIN store.states /\ k.from \in Nat /\ MessageOK(k, store, service)
      BY <1>1, <1>2, <2>1 DEF CallOK, CallType
    <3>2. DOMAIN messages = 1 .. Len(messages)
      BY <1>1, <3>1, StoreParts DEF Ready
    <3> QED  BY <3>1, <3>2 DEF MessageOK
  <2>9. \A j \in 1 .. k.from - 1 : messages[j] \in v.messages
    <3> HIDE DEF messages
    <3>1. \A j \in 1 .. k.from - 1 : j = k.from - 1 \/ j \in 1 .. k.from - 2
      BY <2>8
    <3> QED  BY <2>4, <2>8, <3>1
  <2>10. k.from # 0
    <3> HIDE DEF messages
    <3>1. k.from = 0 => k.from - 1 \notin 1 .. Len(messages)
      OBVIOUS
    <3> QED  BY <2>8, <3>1
  <2>11. StateOf(y).messages = messages
    BY <2>6 DEF StateOf
  <2> HIDE DEF messages
  <2> QED  BY <2>1, <2>3, <2>4, <2>6, <2>7, <2>8, <2>9, <2>10, <2>11 DEF GoesOn
<1>8. ASSUME PushFailed(c) PROVE Failed(c)
  BY <1>8 DEF PushFailed, Answered, Failed
<1> QED  BY <1>4, <1>5, <1>6, <1>7, <1>8 DEF Resume

LEMMA ResumeOK ==
    ASSUME SyncOK, NEW c \in Calls, Resume(c)
    PROVE  SyncOK'
<1> DEFINE w == World(c)
<1>1. /\ Ready(w, remote) /\ w.store = store /\ w.service = service /\ w.call = call[c]
      /\ HasState(c, call[c]) => call[c].ref \in DOMAIN store.states
  BY WorldReady DEF CallOK
<1> HIDE DEF w
<1>2. ASSUME NEW x, Runs(c, store, service, x, remote), Commit(c, x) PROVE SyncOK'
  BY <1>2, CommitOK
<1>3. ASSUME NEW y, HasSpace(c, y) PROVE SyncOK'
  <2>1. c # AutoCall => y.call.ref \in DOMAIN y.store.states
    BY <1>1, <1>3 DEF HasSpace, HasState
  <2>2. Runs(c, y.store, y.service, PushAll(c, y), remote)
    BY <1>3, <2>1, PushAllIs, PushesRuns DEF HasSpace
  <2>3. Runs(c, store, service, PushAll(c, y), remote)
    BY <1>3, <2>2 DEF Runs, HasSpace
  <2> QED  BY <1>2, <1>3, <2>3 DEF HasSpace
<1>4. ASSUME NEW y, GoesOn(c, y) PROVE SyncOK'
  <2>1. Runs(c, y.store, y.service, PushMessages(c, y), remote)
    BY <1>4, PushMessagesRuns DEF GoesOn
  <2>2. Runs(c, store, service, PushMessages(c, y), remote)
    BY <1>4, <2>1 DEF Runs, GoesOn
  <2> QED  BY <1>2, <1>4, <2>2 DEF GoesOn
<1>5. ASSUME NEW x, NeedsSpace(c, x) \/ HasNoSpace(c, x) PROVE SyncOK'
  <2>1. Commit(c, x) /\ Kept(w, x) /\ x.call.pc \in {"create", "idle"}
        /\ (x.call.pc = "create" => call[c].pc = "list" /\ x.call.ref = call[c].ref)
    BY <1>5 DEF NeedsSpace, HasNoSpace, Creates, Ends, w
  <2>2. Runs(c, w.store, w.service, x, remote)
    BY <1>1, <2>1, KeptRuns DEF HasState
  <2> QED  BY <1>1, <1>2, <2>1, <2>2
<1>6. ASSUME Failed(c) PROVE SyncOK'
  <2>1. Runs(c, w.store, w.service, NotPushed(c, w), remote)
    BY <1>1, <1>6, PushedRuns DEF Failed, HasState
  <2> QED  BY <1>1, <1>2, <1>6, <2>1 DEF Failed, w
<1> QED  BY <1>3, <1>4, <1>5, <1>6, ResumeIs

LEMMA StartupOK ==
    ASSUME NEW r \in RemoteType, IsFiniteSet(r.spaces), NEW startup \in Startups(r)
    PROVE  LET q == startup[2]
           IN  /\ startup[1] \in Nat
               /\ q \in RemoteType /\ IsFiniteSet(q.spaces)
               /\ q.conversations = r.conversations /\ q.messages = r.messages
<1> DEFINE new == Cardinality(r.spaces) + 1
           q == WithSpace(r)
<1>1. new \in Nat /\ None \in Nat /\ r.spaces \subseteq Nat
  BY FS_CardinalityType DEF None, RemoteType
<1>2. q = [r EXCEPT !.spaces = @ \cup {new}]
  BY DEF WithSpace
<1> HIDE DEF new
<1>3. /\ q \in RemoteType /\ q.spaces = r.spaces \cup {new}
      /\ q.conversations = r.conversations /\ q.messages = r.messages
  BY <1>1, <1>2 DEF RemoteType
<1> HIDE DEF q
<1>4. IsFiniteSet(q.spaces)
  BY <1>3, FS_AddElement
<1>5. /\ startup = <<startup[1], startup[2]>>
      /\ startup[1] \in r.spaces \cup {None, new} /\ startup[2] \in {r, q}
  BY DEF Startups, new, q
<1> QED  BY <1>1, <1>3, <1>4, <1>5

LEMMA NewServiceOK ==
    ASSUME NEW space \in Nat, NEW r
    PROVE  ServiceOK(NewService(space), r)
  BY DEF NewService, ServiceOK, ServiceType, None

LEMMA IdleCallOK ==
    ASSUME NEW c, NEW s, NEW v, NEW r
    PROVE  CallOK(c, IdleCall, s, v, r)
<1>1. IdleCall \in CallType /\ IdleCall.todo = {} /\ IdleCall.pc = "idle"
      /\ IdleCall.reply.status = "none"
  BY ConstantsOK DEF IdleCall, NoReply
<1> QED  BY <1>1 DEF CallOK, HasState, ReplyOK

\* The store of a process that starts; the heaps only record what there was.
LEMMA EmptiedOK ==
    ASSUME NEW s, Facts!StoreOK(s)
    PROVE  LET t == [s EXCEPT !.conversations = Store!EmptyStore.conversations,
                              !.accessOrder = <<>>]
           IN  /\ Facts!StoreOK(t) /\ Facts!Grows(s, t)
               /\ \A id \in ConversationId : ~Store!has(t, id)
<1> DEFINE empty == [id \in ConversationId |-> 0]
           t == [s EXCEPT !.conversations = empty, !.accessOrder = <<>>]
<1>1. Store!EmptyStore.conversations = empty
  BY DEF Store!EmptyStore, Store!Absent
<1>2. s \in Facts!StoreType /\ Facts!Chained(s)
  BY DEF Facts!StoreOK, Facts!Sound
<1>3. empty \in [ConversationId -> Nat] /\ <<>> \in Seq(ConversationId)
  OBVIOUS
<1>4. /\ t \in Facts!StoreType /\ t.conversations = empty /\ t.accessOrder = <<>>
      /\ t.states = s.states /\ t.messages = s.messages
  <2> HIDE DEF empty
  <2> QED  BY <1>2, <1>3 DEF Facts!StoreType
<1> HIDE DEF t
<1>5. \A id \in ConversationId : ~Facts!has(t, id) /\ ~Store!has(t, id)
  BY <1>4 DEF Facts!has, Facts!Absent, Store!has, Store!Absent
<1>6. Facts!Live(t) = {}
  BY <1>5 DEF Facts!Live
<1>7. Facts!Lists(t.accessOrder, {})
  BY <1>3, <1>4 DEF Facts!Lists
<1>8. Facts!Held(t) /\ Facts!Chained(t)
  BY <1>2, <1>4, <1>5 DEF Facts!Held, Facts!Chained
<1>9. Facts!Small(t)
  BY <1>6, SameSizes, FS_EmptySet, SyncAssumption DEF Facts!Small, Store!StoreAssumption
<1>10. Facts!StoreOK(t)
  BY <1>4, <1>6, <1>7, <1>8, <1>9 DEF Facts!StoreOK, Facts!Sound
<1>11. Facts!Grows(s, t)
  BY <1>4 DEF Facts!Grows
<1> QED  BY <1>1, <1>5, <1>10, <1>11 DEF t

LEMMA RestartOK ==
    ASSUME SyncOK, Restart
    PROVE  SyncOK'
<1>1. /\ Facts!StoreOK(store) /\ ServerOK(store, remote)
      /\ remote \in RemoteType /\ IsFiniteSet(remote.spaces)
  BY DEF SyncOK, ServerOK
<1>2. Facts!StoreOK(store') /\ Facts!Grows(store, store')
  BY <1>1, EmptiedOK DEF Restart
<1>3. PICK startup \in Startups(remote) :
        service' = NewService(startup[1]) /\ remote' = startup[2]
  BY DEF Restart
<1>4. /\ startup[1] \in Nat /\ remote' \in RemoteType /\ IsFiniteSet(remote'.spaces)
      /\ remote'.conversations = remote.conversations /\ remote'.messages = remote.messages
  BY <1>1, <1>3, StartupOK
<1>5. ServerOK(store', remote')
  <2>1. ServerOK(store, remote')
    BY <1>1, <1>4 DEF ServerOK, Uploaded
  <2> QED  BY <1>2, <2>1, ServerKept
<1>6. ServiceOK(service', remote')
  BY <1>3, <1>4, NewServiceOK
<1>7. call' = [c \in Calls |-> IdleCall]
  BY DEF Restart
<1>8. call' \in [Calls -> CallType]
        /\ \A c \in Calls : CallOK(c, call'[c], store', service', remote')
  BY <1>7, ConstantsOK, IdleCallOK
<1> QED  BY <1>2, <1>5, <1>6, <1>8 DEF SyncOK

LEMMA SyncInit == Init => SyncOK
<1> SUFFICES ASSUME Init PROVE SyncOK
  OBVIOUS
<1>1. EmptyRemote \in RemoteType /\ IsFiniteSet(EmptyRemote.spaces) /\ EmptyRemote.messages = {}
  BY FS_EmptySet DEF EmptyRemote, RemoteType
<1>2. Facts!StoreOK(store)
  <2>1. Facts!Init
    BY DEF Init, Store!Init, Store!EmptyStore, Store!Absent, Facts!Init, Facts!EmptyStore,
           Facts!Absent
  <2> QED  BY <2>1, SyncAssumption, Facts!InitOK DEF Store!StoreAssumption
<1>3. PICK startup \in Startups(EmptyRemote) :
        service = NewService(startup[1]) /\ remote = startup[2]
  BY DEF Init
<1>4. /\ startup[1] \in Nat /\ remote \in RemoteType /\ IsFiniteSet(remote.spaces)
      /\ remote.messages = {}
  BY <1>1, <1>3, StartupOK
<1>5. ServerOK(store, remote) /\ ServiceOK(service, remote)
  BY <1>3, <1>4, NewServiceOK DEF ServerOK
<1>6. call = [c \in Calls |-> IdleCall]
  BY DEF Init
<1>7. call \in [Calls -> CallType]
        /\ \A c \in Calls : CallOK(c, call[c], store, service, remote)
  BY <1>6, ConstantsOK, IdleCallOK
<1> QED  BY <1>2, <1>5, <1>7 DEF SyncOK

LEMMA SyncStep ==
    ASSUME SyncOK, [Next]_vars
    PROVE  SyncOK'
<1>1. CASE UNCHANGED vars
  <2>1. Facts!StoreOK(store') /\ Facts!Grows(store, store')
    BY <1>1 DEF vars, SyncOK, Facts!Grows
  <2> QED  BY <1>1, <2>1, StoreChangeOK DEF vars
<1>2. CASE Next
  BY <1>2, ApplicationOK, TimerOK, ServeOK, ResumeOK, RestartOK DEF Next
<1> QED  BY <1>1, <1>2

LEMMA SyncAlways == Spec => []SyncOK
  BY SyncInit, SyncStep, PTL DEF Spec

-------------------------------------------------------------------------------
(* The theorems *)

\* MapsSound: whatever a local id is mapped to exists on the server, so an update is of
\* a conversation that is there and a message that is skipped is there, whichever requests
\* are refused, lose their answer or run concurrently and wherever the process crashes
\* (sync-service.ts:186, 207, 244, 286).
THEOREM MappedIsThere == Spec => []MapsSound
<1>1. SyncOK => MapsSound
  BY DEF SyncOK, ServiceOK, HasConversation, Uploaded, MapsSound
<1> QED  BY <1>1, SyncAlways, PTL

\* ParentFirst: a message is on the server only after its parent, and names it, for any
\* number of concurrent pushes of a conversation that is being extended
\* (sync-service.ts:44-58, 227-232, 257-280).
THEOREM ThreadsAreWhole == Spec => []ParentFirst
<1>1. SyncOK => ParentFirst
  BY DEF SyncOK, ServerOK, Uploaded, ParentFirst
<1> QED  BY <1>1, SyncAlways, PTL

-------------------------------------------------------------------------------
(* What is clean is uploaded, as long as nothing is evicted *)

\* The Map keeps what it has, and what it takes in is new.
MapKept(s, t) == \A id \in ConversationId :
    \/ t.conversations[id] = s.conversations[id]
    \/ ~Store!has(s, id) /\ t.conversations[id] \notin DOMAIN s.states

LEMMA TakenKeepsMap ==
    ASSUME Roomy, NEW s, Facts!StoreOK(s), NEW id \in ConversationId, NEW t,
           Facts!Taken(s, t, id)
    PROVE  MapKept(s, t)
<1>1. Cardinality(Facts!Live(s) \cup {id}) <= MaxConversations
  <2>1. Facts!Live(s) \cup {id} \subseteq ConversationId
    BY DEF Facts!Live
  <2>2. /\ Cardinality(Facts!Live(s) \cup {id}) <= Cardinality(ConversationId)
        /\ Cardinality(Facts!Live(s) \cup {id}) \in Nat /\ Cardinality(ConversationId) \in Nat
    BY <2>1, FS_Subset, FS_CardinalityType DEF Roomy
  <2> QED  BY <2>2, SyncAssumption DEF Roomy, Store!StoreAssumption
<1>2. Facts!Cardinality(Facts!Live(s) \cup {id}) <= MaxConversations
  BY <1>1, SameSizes
<1>3. t.conversations = [s.conversations EXCEPT ![id] = Facts!RefFor(s, id)]
  BY <1>2 DEF Facts!Taken
<1>4. Len(s.states) + 1 \notin DOMAIN s.states
  BY StoreParts
<1>5. Facts!has(s, id) = Store!has(s, id)
  BY SameReads
<1>6. s.conversations \in [ConversationId -> Nat]
  BY StoreParts
<1> QED  BY <1>3, <1>4, <1>5, <1>6 DEF MapKept, Facts!RefFor

LEMMA SameMap ==
    ASSUME NEW s, NEW t, t.conversations = s.conversations
    PROVE  MapKept(s, t)
  BY DEF MapKept

LEMMA MapKeptTransitive ==
    ASSUME NEW s, NEW t, NEW u, MapKept(s, t), MapKept(t, u), Facts!Grows(s, t)
    PROVE  MapKept(s, u)
  BY DEF MapKept, Facts!Grows, Store!has

LEMMA InMapKept ==
    ASSUME NEW s, NEW t, NEW ref \in DOMAIN s.states, Facts!StoreOK(s), InMap(s, ref),
           Facts!Grows(s, t), MapKept(s, t)
    PROVE  InMap(t, ref)
<1>1. s.states[ref].id \in ConversationId /\ ref # 0 /\ t.states[ref].id = s.states[ref].id
  BY StoreParts DEF Facts!Grows
<1>2. Store!has(s, s.states[ref].id)
  BY <1>1 DEF InMap, Store!has, Store!Absent
<1> QED  BY <1>1, <1>2 DEF InMap, MapKept

LEMMA CallCurrentKept ==
    ASSUME NEW c, NEW k, NEW s, NEW t, NEW v, NEW r, Facts!StoreOK(s),
           CallOK(c, k, s, v, r), CallCurrent(c, k, s), Facts!Grows(s, t), MapKept(s, t)
    PROVE  CallCurrent(c, k, t)
  BY InMapKept DEF CallOK, CallCurrent

LEMMA CleanInKept ==
    ASSUME NEW s, NEW v, NEW u, NEW saved, NEW more, CleanIn(s, v, saved),
           saved \subseteq more, v.messages \subseteq u.messages
    PROVE  CleanIn(s, u, more)
  BY DEF CleanIn

LEMMA HeldState ==
    ASSUME NEW s, Facts!StoreOK(s), NEW id \in ConversationId, Store!has(s, id)
    PROVE  s.conversations[id] \in DOMAIN s.states /\ InMap(s, s.conversations[id])
<1>1. Facts!has(s, id)
  BY SameReads
<1>2. /\ s.conversations[id] \in DOMAIN s.states
      /\ s.states[s.conversations[id]].id = id
  BY <1>1, SyncAssumption, Facts!HeldRef DEF Store!StoreAssumption
<1> QED  BY <1>2 DEF InMap

\* What an operation of the application changes is dirty.
LEMMA ChangedClean ==
    ASSUME NEW s, NEW t, NEW v, NEW saved, Facts!StoreOK(s), Changed(s, t), MapKept(s, t),
           CleanIn(s, v, saved)
    PROVE  CleanIn(t, v, saved)
<1> SUFFICES ASSUME NEW id \in ConversationId, Store!has(t, id),
                    ~t.states[t.conversations[id]].dirty, t.conversations[id] \notin saved
             PROVE  \A i \in DOMAIN t.states[t.conversations[id]].messages :
                       t.states[t.conversations[id]].messages[i] \in v.messages
  BY DEF CleanIn
<1> DEFINE ref == t.conversations[id]
<1>1. ref \in DOMAIN t.states
  BY HeldState DEF Changed
<1>2. ref \in DOMAIN s.states /\ t.states[ref] = s.states[ref]
  BY <1>1 DEF Changed, Facts!Flagged
<1>3. s.conversations[id] = ref
  BY <1>2 DEF MapKept
<1>4. Store!has(s, id)
  BY <1>3 DEF Store!has
<1> QED  BY <1>2, <1>3, <1>4 DEF CleanIn

\* A mark does no harm to a state that is mapped, being saved, or dirty afterwards.
LEMMA MarkedClean ==
    ASSUME NEW s, NEW t, NEW v, NEW saved, NEW id \in ConversationId, Facts!StoreOK(s),
           Marked(s, t, id), CleanIn(s, v, saved \cup {s.conversations[id]}),
           LET ref == s.conversations[id]
           IN  \/ \A i \in DOMAIN s.states[ref].messages : s.states[ref].messages[i] \in v.messages
               \/ ref \in saved
               \/ t.states[ref].dirty
    PROVE  CleanIn(t, v, saved) /\ MapKept(s, t)
<1> DEFINE marked == s.conversations[id]
<1>1. MapKept(s, t)
  BY SameMap DEF Marked
<1>2. ASSUME NEW other \in ConversationId, Store!has(t, other),
             ~t.states[t.conversations[other]].dirty, t.conversations[other] \notin saved
      PROVE  \A i \in DOMAIN t.states[t.conversations[other]].messages :
                t.states[t.conversations[other]].messages[i] \in v.messages
  <2> DEFINE ref == t.conversations[other]
  <2>1. ref \in DOMAIN s.states /\ ref = s.conversations[other] /\ Store!has(s, other)
    BY <1>2, HeldState DEF Marked, Store!has
  <2>2. t.states[ref].messages = s.states[ref].messages
    BY <2>1 DEF Marked
  <2>3. CASE ref = marked
    BY <1>2, <2>2, <2>3
  <2>4. CASE ref # marked
    <3>1. t.states[ref] = s.states[ref]
      BY <2>1, <2>4 DEF Marked
    <3> QED  BY <1>2, <2>1, <2>4, <3>1 DEF CleanIn
  <2> QED  BY <2>3, <2>4
<1> QED  BY <1>1, <1>2 DEF CleanIn

\* A step of the call c makes the world x of the store s, saved being what others save.
Tidies(c, s, x, saved) ==
    /\ MapKept(s, x.store)
    /\ CallCurrent(c, x.call, x.store)
    /\ CleanIn(x.store, x.service, saved \cup SavedBy(c, x.call))

\* What the call still has to push is in the Map.
TodoCurrent(w) == \A ref \in w.call.todo : InMap(w.store, ref)

LEMMA KeptTidies ==
    ASSUME NEW c, NEW w, NEW x, NEW saved, Kept(w, x), TodoCurrent(w),
           CleanIn(w.store, w.service, saved \cup SavedBy(c, x.call)),
           HasState(c, x.call) => InMap(w.store, x.call.ref)
    PROVE  Tidies(c, w.store, x, saved)
  BY SameMap DEF Tidies, Kept, TodoCurrent, CallCurrent

LEMMA NextsTidies ==
    ASSUME NEW c, NEW w, NEW x, NEW saved, Nexts(c, w, x), TodoCurrent(w),
           CleanIn(w.store, w.service, saved)
    PROVE  Tidies(c, w.store, x, saved)
<1>1. CASE Ends(w, x)
  <2>1. saved \cup SavedBy(c, x.call) = saved
    BY <1>1 DEF Ends, SavedBy
  <2> QED  BY <1>1, <2>1, KeptTidies DEF Ends, HasState
<1>2. ASSUME NEW ref \in w.call.todo, c = AutoCall, Begins(w, x, ref)
      PROVE  Tidies(c, w.store, x, saved)
  <2>1. saved \cup SavedBy(c, x.call) = saved
    BY <1>2 DEF SavedBy
  <2>2. InMap(w.store, x.call.ref)
    BY <1>2 DEF Begins, TodoCurrent
  <2> QED  BY <1>2, <2>1, <2>2, KeptTidies DEF Begins
<1> QED  BY <1>1, <1>2 DEF Nexts

LEMMA ViaTidies ==
    ASSUME NEW c, NEW w, NEW x, NEW y, NEW r, NEW saved, Via(c, w, y, x, r), TodoCurrent(w),
           y.store.conversations = w.store.conversations,
           Facts!Grows(w.store, y.store), w.call.todo \subseteq DOMAIN w.store.states,
           CleanIn(y.store, y.service, saved)
    PROVE  Tidies(c, w.store, x, saved)
<1>1. TodoCurrent(y)
  BY DEF Via, TodoCurrent, InMap, Facts!Grows
<1>2. Tidies(c, y.store, x, saved)
  BY <1>1, NextsTidies DEF Via
<1>3. MapKept(w.store, x.store)
  BY <1>2, SameMap, MapKeptTransitive DEF Tidies
<1> QED  BY <1>2, <1>3 DEF Tidies

\* The call is pushing a state of the Map and all else is clean.
Pushable(c, w, saved, r) ==
    /\ Ready(w, r) /\ TodoCurrent(w)
    /\ w.call.pc \in {"conversation", "message"}
    /\ w.call.ref \in DOMAIN w.store.states /\ InMap(w.store, w.call.ref)
    /\ CleanIn(w.store, w.service, saved \cup SavedBy(c, w.call))

LEMMA PushableParts ==
    ASSUME NEW c, NEW w, NEW saved, NEW r, Pushable(c, w, saved, r)
    PROVE  LET id == StateOf(w).id
           IN  /\ id \in ConversationId /\ w.store.conversations[id] = w.call.ref
               /\ Facts!StoreOK(w.store) /\ w.call.todo \subseteq DOMAIN w.store.states
               /\ Store!has(w.store, id)
               /\ CleanIn(w.store, w.service, saved \cup {w.call.ref})
<1>1. StateOf(w).id \in ConversationId
  BY StateId DEF Pushable
<1>2. w.store.conversations[StateOf(w).id] = w.call.ref
  BY DEF Pushable, InMap, StateOf
<1>3. Facts!StoreOK(w.store) /\ w.call.todo \subseteq DOMAIN w.store.states
  BY DEF Pushable, Ready
<1>4. Store!has(w.store, StateOf(w).id)
  BY <1>2, <1>3, StoreParts DEF Pushable, Store!has, Store!Absent
<1>5. CleanIn(w.store, w.service, saved \cup {w.call.ref})
  BY CleanInKept DEF Pushable, SavedBy
<1> QED  BY <1>1, <1>2, <1>3, <1>4, <1>5

LEMMA PushedTidies ==
    ASSUME NEW c, NEW w, NEW saved, NEW r, Pushable(c, w, saved, r), AllMapped(w)
    PROVE  Tidies(c, w.store, Pushed(c, w), saved)
<1> DEFINE id == StateOf(w).id
<1>1. /\ id \in ConversationId /\ w.store.conversations[id] = w.call.ref
      /\ Facts!StoreOK(w.store) /\ w.call.todo \subseteq DOMAIN w.store.states
      /\ CleanIn(w.store, w.service, saved \cup {w.call.ref})
  BY PushableParts
<1>2. PICK y : /\ Via(c, w, y, Pushed(c, w), r)
               /\ IF c = AutoCall THEN Marked(w.store, y.store, id)
                  ELSE y.store = w.store
  BY PushedIs DEF Pushable
<1>3. Marked(w.store, y.store, id)
  BY <1>1, <1>2, SameMarked
<1>4. \A i \in DOMAIN w.store.states[w.call.ref].messages :
         w.store.states[w.call.ref].messages[i] \in w.service.messages
  BY DEF AllMapped, StateOf
<1> HIDE DEF id
<1>5. CleanIn(y.store, w.service, saved)
  BY <1>1, <1>3, <1>4, MarkedClean
<1>6. y.service = w.service
  BY <1>2 DEF Via
<1>7. TodoCurrent(w)
  BY DEF Pushable
<1> QED  BY <1>1, <1>2, <1>3, <1>5, <1>6, <1>7, ViaTidies DEF Marked

LEMMA NotPushedTidies ==
    ASSUME NEW c, NEW w, NEW saved, NEW r, Pushable(c, w, saved, r)
    PROVE  Tidies(c, w.store, NotPushed(c, w), saved)
<1> DEFINE id == StateOf(w).id
           t == Store!markDirtyById(w.store, id)
<1>1. /\ id \in ConversationId /\ w.store.conversations[id] = w.call.ref
      /\ Facts!StoreOK(w.store) /\ w.call.todo \subseteq DOMAIN w.store.states
      /\ CleanIn(w.store, w.service, saved \cup {w.call.ref}) /\ Store!has(w.store, id)
      /\ TodoCurrent(w)
  BY PushableParts DEF Pushable
<1>2. PICK y : /\ Via(c, w, y, NotPushed(c, w), r)
               /\ y.store = IF c = AutoCall THEN w.store ELSE t
  BY NotPushedIs DEF Pushable
<1>3. Marked(w.store, t, id) /\ t.states[w.call.ref].dirty
  BY <1>1, MarksOK
<1> HIDE DEF id, t
<1>4. CleanIn(t, w.service, saved)
  BY <1>1, <1>3, MarkedClean
<1>5. CASE c = AutoCall
  <2>1. CleanIn(w.store, w.service, saved)
    <3>1. saved \cup SavedBy(c, w.call) = saved
      BY <1>5 DEF SavedBy
    <3> QED  BY <3>1 DEF Pushable
  <2>2. Facts!Grows(w.store, w.store)
    BY DEF Facts!Grows
  <2> QED  BY <1>1, <1>2, <1>5, <2>1, <2>2, ViaTidies DEF Via
<1>6. CASE c # AutoCall
  BY <1>1, <1>2, <1>3, <1>4, <1>6, ViaTidies DEF Via, Marked
<1> QED  BY <1>5, <1>6

LEMMA PushMessagesTidies ==
    ASSUME NEW c, NEW w, NEW saved, NEW r, Pushable(c, w, saved, r), w.call.from # 0,
           \A j \in 1 .. w.call.from - 1 : StateOf(w).messages[j] \in w.service.messages
    PROVE  Tidies(c, w.store, PushMessages(c, w), saved)
<1>1. CASE AllMapped(w) /\ PushMessages(c, w) = Pushed(c, w)
  BY <1>1, PushedTidies
<1>2. CASE Continues(w, PushMessages(c, w))
  <2> DEFINE x == PushMessages(c, w)
  <2>1. SavedBy(c, x.call) = SavedBy(c, w.call)
    BY <1>2 DEF Continues, SavedBy, Pushable
  <2>2. Kept(w, x) /\ InMap(w.store, x.call.ref)
    BY <1>2 DEF Continues, Pushable
  <2> HIDE DEF x
  <2> QED  BY <2>1, <2>2, KeptTidies DEF Pushable, x
<1> QED  BY <1>1, <1>2, PushMessagesIs DEF Pushable

LEMMA PushesTidies ==
    ASSUME NEW c, NEW w, NEW x, NEW saved, NEW r, Ready(w, r), TodoCurrent(w),
           Pushes(c, w, x, r), CleanIn(w.store, w.service, saved),
           c # AutoCall => w.call.ref \in DOMAIN w.store.states /\ InMap(w.store, w.call.ref)
    PROVE  Tidies(c, w.store, x, saved)
<1>1. PICK y : /\ Ready(y, r) /\ y.service = w.service
               /\ y.call.space = w.service.space
               /\ IF c = AutoCall
                  THEN /\ y.store = w.store /\ y.call.todo = Snapshot(w.store)
                       /\ Nexts(c, y, x)
                  ELSE /\ Marked(w.store, y.store, StateOf(w).id)
                       /\ y.call.todo = w.call.todo /\ Begins(y, x, w.call.ref)
  BY DEF Pushes
<1>2. CASE c = AutoCall
  <2>1. ASSUME NEW id \in Store!getDirty(w.store)
        PROVE  InMap(w.store, w.store.conversations[id])
    BY HeldState DEF Store!getDirty, Store!IsDirty, Ready
  <2>2. TodoCurrent(y)
    BY <1>1, <1>2, <2>1 DEF TodoCurrent, Snapshot
  <2> QED  BY <1>1, <1>2, <2>2, NextsTidies
<1>3. CASE c # AutoCall
  <2> DEFINE id == StateOf(w).id
             ref == w.call.ref
  <2>1. id \in ConversationId /\ w.store.conversations[id] = ref /\ Facts!StoreOK(w.store)
        /\ w.call.todo \subseteq DOMAIN w.store.states
    BY <1>3, StateId DEF InMap, StateOf, Ready
  <2>2. Marked(w.store, y.store, id) /\ y.call.todo = w.call.todo /\ Begins(y, x, ref)
    BY <1>1, <1>3
  <2> HIDE DEF id
  <2>3. CleanIn(y.store, w.service, saved \cup {ref}) /\ MapKept(w.store, y.store)
    <3> DEFINE more == saved \cup {ref}
    <3>1. CleanIn(w.store, w.service, more \cup {w.store.conversations[id]})
      BY CleanInKept
    <3>2. ref \in more
      OBVIOUS
    <3> HIDE DEF more
    <3>3. CleanIn(y.store, w.service, more) /\ MapKept(w.store, y.store)
      BY <2>1, <2>2, <3>1, <3>2, MarkedClean
    <3> QED  BY <3>3 DEF more
  <2>4. Facts!Grows(w.store, y.store)
    BY <2>2 DEF Marked
  <2>5. TodoCurrent(y) /\ InMap(y.store, ref)
    BY <1>3, <2>1, <2>2, <2>3, <2>4, InMapKept DEF TodoCurrent
  <2>6. SavedBy(c, x.call) = {ref} /\ x.call.ref = ref /\ Kept(y, x)
    BY <1>3, <2>2 DEF Begins, SavedBy
  <2>7. Tidies(c, y.store, x, saved)
    BY <1>1, <2>3, <2>5, <2>6, KeptTidies
  <2>8. MapKept(w.store, x.store)
    BY <2>3, <2>4, <2>7, MapKeptTransitive DEF Tidies
  <2> QED  BY <2>7, <2>8 DEF Tidies
<1> QED  BY <1>2, <1>3

LEMMA GetOrCreateSpaceTidies ==
    ASSUME NEW c, NEW w, NEW saved, NEW r, Ready(w, r), TodoCurrent(w),
           CleanIn(w.store, w.service, saved),
           c # AutoCall => w.call.ref \in DOMAIN w.store.states /\ InMap(w.store, w.call.ref)
    PROVE  Tidies(c, w.store, GetOrCreateSpace(c, w), saved)
<1> DEFINE x == GetOrCreateSpace(c, w)
<1>1. CASE Lists(w, x) /\ x.call.ref = w.call.ref
  <2>1. SavedBy(c, x.call) = {}
    BY <1>1 DEF Lists, SavedBy
  <2>2. saved \cup SavedBy(c, x.call) = saved
    BY <2>1
  <2>3. HasState(c, x.call) => InMap(w.store, x.call.ref)
    BY <1>1 DEF Lists, HasState
  <2> HIDE DEF x
  <2> QED  BY <1>1, <2>2, <2>3, KeptTidies DEF Lists, x
<1>2. CASE Pushes(c, w, x, r)
  BY <1>2, PushesTidies
<1> QED  BY <1>1, <1>2, GetOrCreateSpaceIs

\* The states that calls other than c save.
Others(c) == UNION {SavedBy(d, call[d]) : d \in Calls \ {c}}

LEMMA CleanParts ==
    ASSUME SyncOK, CleanOK, NEW c \in Calls
    PROVE  /\ CallCurrent(c, call[c], store)
           /\ CleanIn(store, service, Others(c) \cup SavedBy(c, call[c]))
<1>1. UNION {SavedBy(d, call[d]) : d \in Calls} = Others(c) \cup SavedBy(c, call[c])
  BY DEF Others
<1> QED  BY <1>1 DEF CleanOK

LEMMA CleanCommit ==
    ASSUME SyncOK, CleanOK, NEW c \in Calls, NEW x, Commit(c, x),
           Runs(c, store, service, x, remote), Tidies(c, store, x, Others(c))
    PROVE  CleanOK'
<1>1. /\ store' = x.store /\ service' = x.service /\ call' = [call EXCEPT ![c] = x.call]
      /\ Facts!StoreOK(store) /\ call \in [Calls -> CallType]
  BY DEF Commit, SyncOK
<1>2. call'[c] = x.call /\ \A d \in Calls \ {c} : call'[d] = call[d]
  BY <1>1
<1>3. ASSUME NEW d \in Calls PROVE CallCurrent(d, call'[d], store')
  <2>1. CASE d = c
    BY <1>1, <1>2, <2>1 DEF Tidies
  <2>2. CASE d # c
    <3>1. CallOK(d, call[d], store, service, remote) /\ CallCurrent(d, call[d], store)
      BY DEF SyncOK, CleanOK
    <3>2. Facts!Grows(store, store') /\ MapKept(store, store') /\ call'[d] = call[d]
      BY <1>1, <1>2, <2>2 DEF Runs, Tidies
    <3> QED  BY <1>1, <3>1, <3>2, CallCurrentKept
  <2> QED  BY <2>1, <2>2
<1>4. UNION {SavedBy(d, call'[d]) : d \in Calls} = Others(c) \cup SavedBy(c, x.call)
  BY <1>2 DEF Others
<1> QED  BY <1>1, <1>3, <1>4 DEF CleanOK, Tidies

LEMMA CleanChange ==
    ASSUME SyncOK, CleanOK, Changed(store, store'), MapKept(store, store'),
           UNCHANGED <<service, call, remote>>
    PROVE  CleanOK'
<1>1. Facts!StoreOK(store) /\ Facts!Grows(store, store')
  BY DEF SyncOK, Changed
<1>2. ASSUME NEW d \in Calls PROVE CallCurrent(d, call'[d], store')
  <2>1. CallOK(d, call[d], store, service, remote) /\ CallCurrent(d, call[d], store)
    BY DEF SyncOK, CleanOK
  <2> QED  BY <1>1, <2>1, CallCurrentKept
<1>3. CleanIn(store', service', UNION {SavedBy(c, call[c]) : c \in Calls})
  BY <1>1, ChangedClean DEF CleanOK
<1> QED  BY <1>2, <1>3 DEF CleanOK

LEMMA CleanAnswer ==
    ASSUME SyncOK, CleanOK, NEW c \in Calls, NEW status, NEW space, Answer(c, status, space),
           UNCHANGED <<store, service>>
    PROVE  CleanOK'
<1>1. call \in [Calls -> CallType] /\ call[c] \in CallType
  BY DEF SyncOK
<1>2. ASSUME NEW d \in Calls
      PROVE  /\ call'[d].pc = call[d].pc /\ call'[d].ref = call[d].ref
             /\ call'[d].todo = call[d].todo
  BY <1>1 DEF Answer, CallType
<1>3. ASSUME NEW d \in Calls PROVE CallCurrent(d, call'[d], store')
  BY <1>2 DEF CleanOK, CallCurrent, HasState
<1>4. \A d \in Calls : SavedBy(d, call'[d]) = SavedBy(d, call[d])
  BY <1>2 DEF SavedBy
<1> QED  BY <1>3, <1>4 DEF CleanOK

LEMMA CleanBeginSave ==
    ASSUME SyncOK, CleanOK, NEW c \in Calls, NEW id \in ConversationId, NEW saved,
           call[c].pc = "idle", Changed(store, saved), MapKept(store, saved),
           BeginSave(c, id, saved)
    PROVE  CleanOK'
<1> DEFINE found == Store!get(saved, id)
           k == [IdleCall EXCEPT !.ref = found.conversations[id]]
           w == [World(c) EXCEPT !.store = found, !.call = k]
           idle == [w EXCEPT !.call = IdleCall]
<1>1. /\ Facts!StoreOK(saved) /\ Facts!Grows(store, saved) /\ Facts!StoreOK(store)
      /\ Facts!StoreOK(found) /\ Facts!Grows(saved, found) /\ Facts!Flagged(saved, found)
      /\ found.conversations = saved.conversations
  BY GetKept DEF Changed, SyncOK
<1>2. Commit(c, IF Store!IsDirty(found, id) THEN GetOrCreateSpace(c, w) ELSE idle)
  BY DEF BeginSave
<1> HIDE DEF found
<1>3. Facts!Grows(store, found) /\ MapKept(saved, found) /\ MapKept(store, found)
  BY <1>1, SameMap, MapKeptTransitive, SyncAssumption, Facts!GrowsTransitive
     DEF Store!StoreAssumption
<1>4. CleanIn(found, service, Others(c))
  <2>1. CleanIn(store, service, Others(c))
    <3>1. Others(c) \cup SavedBy(c, call[c]) = Others(c)
      BY DEF SavedBy
    <3> QED  BY <3>1, CleanParts
  <2>2. CleanIn(saved, service, Others(c))
    BY <1>1, <2>1, ChangedClean
  <2> QED  BY <1>1, <1>3, <2>2, ChangedClean DEF Changed
<1>5. found.conversations[id] \in Nat /\ found \in Facts!StoreType
  BY <1>1, StoreParts
<1>6. k \in CallType /\ k.todo = {} /\ k.ref = found.conversations[id]
  BY <1>5, ConstantsOK DEF IdleCall, CallType
<1>7. World(c) \in WorldType /\ World(c).service = service /\ ServiceOK(service, remote)
  BY WorldReady DEF Ready
<1> HIDE DEF k
<1>8. w \in WorldType /\ w.store = found /\ w.service = service /\ w.call = k
  BY <1>5, <1>6, <1>7 DEF WorldType
<1> HIDE DEF w
<1>9. Ready(w, remote) /\ TodoCurrent(w)
  BY <1>1, <1>6, <1>7, <1>8 DEF Ready, TodoCurrent
<1>10. idle \in WorldType /\ idle.store = found /\ idle.service = service /\ idle.call = IdleCall
  BY <1>8, ConstantsOK, WithCall
<1> HIDE DEF idle
<1>11. Runs(c, found, service, idle, remote) /\ Tidies(c, found, idle, Others(c))
  <2>1. Kept(w, idle) /\ idle.call.pc = "idle"
    BY <1>8, <1>10, ConstantsOK DEF Kept, IdleCall
  <2>2. Others(c) \cup SavedBy(c, idle.call) = Others(c)
    BY <2>1 DEF SavedBy
  <2> QED  BY <1>4, <1>8, <1>9, <2>1, <2>2, KeptRuns, KeptTidies DEF HasState
<1>12. ASSUME Store!IsDirty(found, id)
       PROVE  LET x == GetOrCreateSpace(c, w)
              IN  Runs(c, found, service, x, remote) /\ Tidies(c, found, x, Others(c))
  <2>1. w.call.ref \in DOMAIN w.store.states /\ InMap(w.store, w.call.ref)
    BY <1>1, <1>6, <1>8, <1>12, HeldState DEF Store!IsDirty
  <2> QED  BY <1>4, <1>8, <1>9, <2>1, GetOrCreateSpaceRuns, GetOrCreateSpaceTidies
<1>13. PICK x : /\ Commit(c, x) /\ Runs(c, found, service, x, remote)
                /\ Tidies(c, found, x, Others(c))
  BY <1>2, <1>11, <1>12
<1>14. Runs(c, store, service, x, remote)
  BY <1>3, <1>13, RunsFrom
<1>15. Tidies(c, store, x, Others(c))
  BY <1>3, <1>13, MapKeptTransitive DEF Tidies
<1> QED  BY <1>13, <1>14, <1>15, CleanCommit

LEMMA CleanApplication ==
    ASSUME Roomy, SyncOK, CleanOK, Application
    PROVE  CleanOK'
<1>0. Facts!StoreOK(store)
  BY DEF SyncOK
<1>1. ASSUME NEW id \in ConversationId, NEW n \in 0 .. 2, AppendMessages(id, n)
      PROVE  CleanOK'
  <2>1. store' = Store!appendMessages(store, id, n) /\ UNCHANGED <<service, call, remote>>
    BY <1>1 DEF AppendMessages, Store!AppendMessages
  <2>2. Facts!Taken(store, store', id)
    BY <1>0, <2>1, AppendMessagesChanges
  <2>3. Changed(store, store') /\ MapKept(store, store')
    BY <1>0, <2>2, TakenChanges, TakenKeepsMap
  <2> QED  BY <2>1, <2>3, CleanChange
<1>2. ASSUME NEW id \in ConversationId, NEW title \in Title, SetTitle(id, title)
      PROVE  CleanOK'
  <2>1. /\ store' = Store!setTitle(store, id, title) /\ UNCHANGED <<service, call, remote>>
        /\ Store!has(store, id)
    BY <1>2 DEF SetTitle, Store!SetTitle
  <2>2. Changed(store, store') /\ MapKept(store, store')
    BY <1>0, <2>1, SetTitleChanges, SameMap
  <2> QED  BY <2>1, <2>2, CleanChange
<1>3. ASSUME NEW c \in SaveCalls, NEW id \in ConversationId, Save(c, id)
      PROVE  CleanOK'
  <2>1. BeginSave(c, id, store) /\ c \in Calls /\ call[c].pc = "idle"
    BY <1>3 DEF Save, Calls
  <2>2. Changed(store, store) /\ MapKept(store, store)
    BY <1>0, SameMap DEF Changed, Facts!Grows, Facts!Flagged
  <2> QED  BY <2>1, <2>2, CleanBeginSave
<1>4. ASSUME NEW c \in SaveCalls, NEW id \in ConversationId, NEW title \in Title,
             SaveWithTitle(c, id, title)
      PROVE  CleanOK'
  <2> DEFINE saved == Store!setTitle(store, id, title)
  <2>1. BeginSave(c, id, saved) /\ c \in Calls /\ call[c].pc = "idle" /\ Store!has(store, id)
    BY <1>4 DEF SaveWithTitle, Calls
  <2>2. Changed(store, saved) /\ MapKept(store, saved)
    BY <1>0, <2>1, SetTitleChanges, SameMap
  <2> HIDE DEF saved
  <2> QED  BY <2>1, <2>2, CleanBeginSave
<1>5. ASSUME NEW c \in SaveCalls, NEW id \in ConversationId, NEW title \in Title,
             NEW n \in 0 .. 2, SaveTurns(c, id, n, title)
      PROVE  CleanOK'
  <2> DEFINE saved == Store!createFromTurns(store, id, n, title)
  <2>1. BeginSave(c, id, saved) /\ c \in Calls /\ call[c].pc = "idle"
    BY <1>5 DEF SaveTurns, Calls
  <2>2. Facts!Taken(store, saved, id)
    BY <1>0, CreateFromTurnsChanges
  <2> HIDE DEF saved
  <2>3. Changed(store, saved) /\ MapKept(store, saved)
    BY <1>0, <2>2, TakenChanges, TakenKeepsMap
  <2> QED  BY <2>1, <2>3, CleanBeginSave
<1> QED  BY <1>1, <1>2, <1>3, <1>4, <1>5 DEF Application

LEMMA CleanTimer ==
    ASSUME SyncOK, CleanOK, TimerFires
    PROVE  CleanOK'
<1>1. CASE UNCHANGED <<store, service, call, remote>>
  BY <1>1 DEF CleanOK
<1>2. CASE Commit(AutoCall, GetOrCreateSpace(AutoCall,
                               [World(AutoCall) EXCEPT !.call = IdleCall]))
  <2> DEFINE w == [World(AutoCall) EXCEPT !.call = IdleCall]
             c == AutoCall
  <2>1. /\ c \in Calls /\ World(c) \in WorldType /\ World(c).store = store
        /\ World(c).service = service
        /\ Facts!StoreOK(store) /\ ServiceOK(service, remote)
    BY WorldReady DEF Calls, Ready, SyncOK
  <2>2. w \in WorldType /\ w.store = store /\ w.service = service /\ w.call = IdleCall
    BY <2>1, ConstantsOK, WithCall
  <2> HIDE DEF w
  <2>3. Ready(w, remote) /\ TodoCurrent(w)
    BY <2>1, <2>2, ConstantsOK DEF Ready, TodoCurrent
  <2>4. Others(c) \cup SavedBy(c, call[c]) = Others(c)
    BY DEF SavedBy
  <2>5. CleanIn(store, service, Others(c))
    BY <2>1, <2>4, CleanParts
  <2>6. Runs(c, store, service, GetOrCreateSpace(c, w), remote)
    BY <2>2, <2>3, GetOrCreateSpaceRuns
  <2>7. Tidies(c, store, GetOrCreateSpace(c, w), Others(c))
    BY <2>2, <2>3, <2>5, GetOrCreateSpaceTidies
  <2> QED  BY <1>2, <2>1, <2>6, <2>7, CleanCommit DEF w
<1> QED  BY <1>1, <1>2 DEF TimerFires

LEMMA CleanServe ==
    ASSUME SyncOK, CleanOK, NEW c \in Calls, Serve(c) \/ Refuse(c)
    PROVE  CleanOK'
<1>1. /\ UNCHANGED <<store, service>>
      /\ \E status, space : Answer(c, status, space)
  BY DEF Serve, Refuse, ServeList, ServeCreate, ServeConversation, ServeMessage, Done, Unaffected
<1> QED  BY <1>1, CleanAnswer

LEMMA CleanResume ==
    ASSUME SyncOK, CleanOK, NEW c \in Calls, Resume(c)
    PROVE  CleanOK'
<1> DEFINE w == World(c)
           saved == Others(c)
<1>1. /\ Ready(w, remote) /\ w.store = store /\ w.service = service /\ w.call = call[c]
      /\ HasState(c, call[c]) => call[c].ref \in DOMAIN store.states
      /\ CallCurrent(c, call[c], store)
      /\ CleanIn(store, service, saved \cup SavedBy(c, call[c]))
  BY WorldReady, CleanParts DEF CallOK
<1> HIDE DEF w, saved
<1>2. ASSUME NEW x, Runs(c, store, service, x, remote), Commit(c, x),
             Tidies(c, store, x, saved)
      PROVE  CleanOK'
  BY <1>2, CleanCommit DEF saved
<1>3. ASSUME call[c].pc \in {"list", "create"} PROVE CleanIn(store, service, saved)
  <2>1. saved \cup SavedBy(c, call[c]) = saved
    BY <1>3 DEF SavedBy
  <2> QED  BY <1>1, <2>1
<1>4. ASSUME NEW y, HasSpace(c, y) PROVE CleanOK'
  <2>1. c # AutoCall => y.call.ref \in DOMAIN y.store.states /\ InMap(y.store, y.call.ref)
    BY <1>1, <1>4 DEF HasSpace, HasState, CallCurrent
  <2>2. TodoCurrent(y) /\ Ready(y, remote) /\ Pushes(c, y, PushAll(c, y), remote)
    BY <1>1, <1>4, <2>1, PushAllIs DEF HasSpace, TodoCurrent, CallCurrent
  <2>3. CleanIn(y.store, y.service, saved)
    BY <1>3, <1>4, CleanInKept DEF HasSpace
  <2>4. Tidies(c, y.store, PushAll(c, y), saved)
    BY <2>1, <2>2, <2>3, PushesTidies
  <2>5. Runs(c, y.store, y.service, PushAll(c, y), remote)
    BY <2>1, <2>2, PushesRuns
  <2> QED  BY <1>2, <1>4, <2>4, <2>5 DEF HasSpace, Runs
<1>5. ASSUME NEW y, GoesOn(c, y) PROVE CleanOK'
  <2>1. /\ Ready(y, remote) /\ y.store = store /\ y.call = call[c] /\ y.call.from # 0
        /\ service.messages \subseteq y.service.messages
        /\ y.call.ref \in DOMAIN store.states
        /\ \A j \in 1 .. y.call.from - 1 : StateOf(y).messages[j] \in y.service.messages
        /\ call[c].pc \in {"conversation", "message"} /\ Commit(c, PushMessages(c, y))
    BY <1>5 DEF GoesOn
  <2>2. Pushable(c, y, saved, remote)
    <3>1. CleanIn(y.store, y.service, saved \cup SavedBy(c, y.call))
      BY <1>1, <2>1, CleanInKept
    <3>2. InMap(y.store, y.call.ref) /\ TodoCurrent(y)
      BY <1>1, <2>1 DEF CallCurrent, HasState, TodoCurrent
    <3> QED  BY <2>1, <3>1, <3>2 DEF Pushable
  <2>3. Tidies(c, y.store, PushMessages(c, y), saved)
    BY <2>1, <2>2, PushMessagesTidies
  <2>4. Runs(c, y.store, y.service, PushMessages(c, y), remote)
    BY <2>1, PushMessagesRuns
  <2>5. Runs(c, store, service, PushMessages(c, y), remote)
    BY <2>1, <2>4 DEF Runs
  <2> QED  BY <1>2, <2>1, <2>3, <2>5
<1>6. ASSUME NEW x, NeedsSpace(c, x) \/ HasNoSpace(c, x) PROVE CleanOK'
  <2>1. /\ Commit(c, x) /\ Kept(w, x) /\ x.call.pc \in {"create", "idle"}
        /\ (x.call.pc = "create" => call[c].pc = "list" /\ x.call.ref = call[c].ref)
        /\ call[c].pc \in {"list", "create"}
    BY <1>6 DEF NeedsSpace, HasNoSpace, Creates, Ends, w
  <2>2. Runs(c, w.store, w.service, x, remote)
    BY <1>1, <2>1, KeptRuns DEF HasState
  <2>3. Tidies(c, w.store, x, saved)
    <3>1. saved \cup SavedBy(c, x.call) = saved
      BY <2>1 DEF SavedBy
    <3>2. TodoCurrent(w) /\ (HasState(c, x.call) => InMap(w.store, x.call.ref))
      BY <1>1, <2>1 DEF TodoCurrent, CallCurrent, HasState
    <3> QED  BY <1>1, <1>3, <2>1, <3>1, <3>2, KeptTidies
  <2> QED  BY <1>1, <1>2, <2>1, <2>2, <2>3
<1>7. ASSUME Failed(c) PROVE CleanOK'
  <2>1. Pushable(c, w, saved, remote)
    BY <1>1, <1>7 DEF Failed, Pushable, CallCurrent, HasState, TodoCurrent
  <2>2. Tidies(c, w.store, NotPushed(c, w), saved)
    BY <2>1, NotPushedTidies
  <2>3. Runs(c, w.store, w.service, NotPushed(c, w), remote)
    BY <1>1, <2>1, PushedRuns DEF Pushable
  <2> QED  BY <1>1, <1>2, <1>7, <2>2, <2>3 DEF Failed, w
<1> QED  BY <1>4, <1>5, <1>6, <1>7, ResumeIs

LEMMA CleanIdle ==
    ASSUME call = [c \in Calls |-> IdleCall], \A id \in ConversationId : ~Store!has(store, id)
    PROVE  CleanOK
<1>1. IdleCall.todo = {} /\ IdleCall.pc = "idle"
  BY DEF IdleCall
<1> QED  BY <1>1 DEF CleanOK, CallCurrent, HasState, CleanIn

LEMMA CleanStep ==
    ASSUME Roomy, SyncOK, CleanOK, [Next]_vars
    PROVE  CleanOK'
<1>1. CASE UNCHANGED vars
  BY <1>1 DEF vars, CleanOK
<1>2. ASSUME Restart PROVE CleanOK'
  <2>1. call' = [c \in Calls |-> IdleCall]
    BY <1>2 DEF Restart
  <2>2. \A id \in ConversationId : ~Store!has(store', id)
    BY <1>2, EmptiedOK DEF Restart, SyncOK
  <2>3. IdleCall.todo = {} /\ IdleCall.pc = "idle"
    BY DEF IdleCall
  <2> QED  BY <2>1, <2>2, <2>3 DEF CleanOK, CallCurrent, HasState, CleanIn
<1>3. CASE Next
  BY <1>2, <1>3, CleanApplication, CleanTimer, CleanServe, CleanResume DEF Next
<1> QED  BY <1>1, <1>3

\* CleanUploaded: as long as no conversation makes room for another one, one that is not
\* dirty and that no call is pushing has all its messages on the server, whatever is
\* appended and saved while a push runs and whichever requests fail
\* (sync-service.ts:121-122, 160, 230; store.ts:404-410).
THEOREM CleanIsUploaded == ASSUME Roomy PROVE Spec => []CleanUploaded
<1>1. Init => CleanOK
  BY CleanIdle DEF Init, Store!Init, Store!EmptyStore, Store!has
<1>2. SyncOK /\ CleanOK /\ [Next]_vars => CleanOK'
  BY CleanStep
<1>3. SyncOK /\ CleanOK => CleanUploaded
  <2> SUFFICES ASSUME SyncOK, CleanOK, NEW id \in Store!Live(store),
                      ~store.states[store.conversations[id]].dirty,
                      ~(\E c \in Calls : Pushing(c, store.conversations[id])),
                      NEW i \in DOMAIN store.states[store.conversations[id]].messages
               PROVE  \E msg \in remote.messages :
                        msg.id = store.states[store.conversations[id]].messages[i]
    BY DEF CleanUploaded
  <2> DEFINE ref == store.conversations[id]
  <2>1. id \in ConversationId /\ Store!has(store, id)
    BY DEF Store!Live
  <2>2. ref \notin UNION {SavedBy(c, call[c]) : c \in Calls}
    BY DEF Pushing, SavedBy
  <2>3. store.states[ref].messages[i] \in service.messages
    BY <2>1, <2>2 DEF CleanOK, CleanIn
  <2> QED  BY <2>3 DEF SyncOK, ServiceOK, Uploaded
<1> QED  BY <1>1, <1>2, <1>3, SyncAlways, PTL DEF Spec

-------------------------------------------------------------------------------
(* No more spaces for the project than calls that look for one *)

LEMMA CallsFinite ==
    /\ IsFiniteSet(Calls) /\ AutoCall \in Calls
    /\ \A S \in SUBSET Calls : /\ IsFiniteSet(S) /\ Cardinality(S) \in Nat
                               /\ Cardinality(S) <= Cardinality(Calls)
<1>1. IsFiniteSet(SaveCalls) /\ AutoCall \in Calls
  BY SyncAssumption DEF Calls
<1>2. Calls = SaveCalls \cup {AutoCall}
  BY DEF Calls
<1>3. IsFiniteSet(Calls)
  BY <1>1, <1>2, FS_AddElement
<1> QED  BY <1>1, <1>3, FS_Subset, FS_CardinalityType

\* A step that does not go on to create a space.
Rests(x) == x.call.reply = NoReply /\ x.call.pc # "create"

LEMMA NextsRest ==
    ASSUME NEW c, NEW w, NEW x, Nexts(c, w, x)
    PROVE  Rests(x)
  BY DEF Nexts, Ends, Begins, Kept, Rests

LEMMA PushesRest ==
    ASSUME NEW c, NEW w, NEW x, NEW r, Pushes(c, w, x, r)
    PROVE  Rests(x)
<1>1. PICK y : Nexts(c, y, x) \/ Begins(y, x, w.call.ref)
  BY DEF Pushes
<1> QED  BY <1>1, NextsRest DEF Begins, Kept, Rests

LEMMA PushedRest ==
    ASSUME NEW c, NEW w, NEW r, Ready(w, r), w.call.ref \in DOMAIN w.store.states
    PROVE  Rests(Pushed(c, w)) /\ Rests(NotPushed(c, w))
<1>1. \E y : Nexts(c, y, Pushed(c, w))
  BY PushedIs DEF Via
<1>2. \E y : Nexts(c, y, NotPushed(c, w))
  BY NotPushedIs DEF Via
<1> QED  BY <1>1, <1>2, NextsRest

LEMMA GetOrCreateSpaceRests ==
    ASSUME NEW c, NEW w, NEW r, Ready(w, r),
           c # AutoCall => w.call.ref \in DOMAIN w.store.states
    PROVE  Rests(GetOrCreateSpace(c, w))
  BY GetOrCreateSpaceIs, PushesRest DEF Lists, Kept, Rests

LEMMA FewResume ==
    ASSUME SyncOK, NEW c \in Calls, Resume(c)
    PROVE  \E x : /\ Commit(c, x) /\ x.call.reply = NoReply
                  /\ x.call.pc = "create" => WillCreate(call[c])
<1>1. \A x : Rests(x) => x.call.reply = NoReply /\ x.call.pc # "create"
  BY DEF Rests
<1>2. ASSUME NEW y, HasSpace(c, y) PROVE Commit(c, PushAll(c, y)) /\ Rests(PushAll(c, y))
  <2>1. c # AutoCall => y.call.ref \in DOMAIN y.store.states
    BY <1>2, WorldReady DEF HasSpace, HasState, CallOK
  <2> QED  BY <1>2, <2>1, PushAllIs, PushesRest DEF HasSpace
<1>3. ASSUME NEW y, GoesOn(c, y)
      PROVE  Commit(c, PushMessages(c, y)) /\ Rests(PushMessages(c, y))
  <2>1. CASE PushMessages(c, y) = Pushed(c, y)
    BY <1>3, <2>1, PushedRest DEF GoesOn
  <2>2. CASE Continues(y, PushMessages(c, y))
    BY <1>3, <2>2 DEF GoesOn, Continues, Kept, Rests
  <2> QED  BY <1>3, <2>1, <2>2, PushMessagesIs DEF GoesOn
<1>4. ASSUME Failed(c)
      PROVE  Commit(c, NotPushed(c, World(c))) /\ Rests(NotPushed(c, World(c)))
  BY <1>4, WorldReady, PushedRest DEF Failed, HasState, CallOK
<1>5. ASSUME NEW x, NeedsSpace(c, x) \/ HasNoSpace(c, x)
      PROVE  /\ Commit(c, x) /\ x.call.reply = NoReply
             /\ x.call.pc = "create" => WillCreate(call[c])
  <2>1. CASE HasNoSpace(c, x)
    BY <2>1 DEF HasNoSpace, Ends, Kept
  <2>2. CASE NeedsSpace(c, x)
    <3>1. /\ call[c].pc = "list" /\ call[c].reply.status = "ok"
          /\ call[c].reply.space = None /\ Commit(c, x) /\ x.call.reply = NoReply
      BY <2>2 DEF NeedsSpace, Creates, Kept
    <3>2. call[c].reply = [status |-> "ok", space |-> None]
      BY <3>1, WorldReady DEF CallType
    <3> QED  BY <3>1, <3>2 DEF WillCreate
  <2> QED  BY <1>5, <2>1, <2>2
<1> QED  BY <1>1, <1>2, <1>3, <1>4, <1>5, ResumeIs

LEMMA CardinalitiesAreNat ==
    ASSUME SyncOK
    PROVE  /\ Cardinality(remote.spaces) \in Nat /\ Cardinality(Calls) \in Nat
           /\ \A S \in SUBSET Calls : Cardinality(S) \in Nat
  BY CallsFinite, FS_CardinalityType DEF SyncOK, ServerOK

\* A step after which the same spaces are there and no other call will create one.
LEMMA FewKept ==
    ASSUME SyncOK, FewOK, remote'.spaces = remote.spaces,
           \A c \in Calls : WillCreate(call'[c]) => WillCreate(call[c])
    PROVE  FewOK'
<1> DEFINE Now == {c \in Calls : WillCreate(call'[c])}
<1>1. Now \in SUBSET Creators /\ Creators \in SUBSET Calls /\ Creators' = Now
  BY DEF Creators, WillCreate
<1> HIDE DEF Now
<1>2. Cardinality(Now) <= Cardinality(Creators)
  BY <1>1, CallsFinite, FS_Subset
<1> QED  BY <1>1, <1>2, CardinalitiesAreNat DEF FewOK

LEMMA FewCommit ==
    ASSUME SyncOK, FewOK, NEW c \in Calls, NEW x, Commit(c, x), x.call.reply = NoReply,
           x.call.pc = "create" => WillCreate(call[c])
    PROVE  FewOK'
<1>1. call' = [call EXCEPT ![c] = x.call] /\ remote' = remote /\ call \in [Calls -> CallType]
  BY DEF Commit, SyncOK
<1>2. WillCreate(x.call) => WillCreate(call[c])
  BY DEF WillCreate, NoReply
<1>3. \A d \in Calls : WillCreate(call'[d]) => WillCreate(call[d])
  BY <1>1, <1>2
<1> QED  BY <1>1, <1>3, FewKept

\* A call that is answered, but not that there is no space.
LEMMA FewAnswer ==
    ASSUME SyncOK, FewOK, NEW c \in Calls, NEW status \in {"ok", "conflict", "error"},
           NEW space, Answer(c, status, space), remote'.spaces = remote.spaces,
           call[c].pc = "list" /\ status = "ok" => space # None
    PROVE  FewOK'
<1> DEFINE reply == [status |-> status, space |-> space]
           k == [call[c] EXCEPT !.reply = reply]
<1>1. call' = [call EXCEPT ![c] = k] /\ call \in [Calls -> CallType]
  BY DEF Answer, SyncOK
<1>2. k.reply = reply /\ k.pc = call[c].pc
  BY <1>1 DEF CallType
<1>3. reply.status = status /\ reply.space = space /\ status # "none"
  OBVIOUS
<1> HIDE DEF reply, k
<1>4. ~WillCreate(k)
  BY <1>2, <1>3 DEF WillCreate
<1>5. \A d \in Calls : WillCreate(call'[d]) => WillCreate(call[d])
  BY <1>1, <1>4
<1> QED  BY <1>5, FewKept

\* No call will create a space, and there is one more than before at most.
LEMMA FewAfter ==
    ASSUME SyncOK, FewOK, \A c \in Calls : ~WillCreate(call'[c]), remote' \in RemoteType,
           \/ remote'.spaces = remote.spaces
           \/ remote.spaces = {} /\ remote' = WithSpace(remote)
    PROVE  FewOK'
<1>1. CASE remote'.spaces = remote.spaces
  BY <1>1, FewKept
<1>2. CASE remote.spaces = {} /\ remote' = WithSpace(remote)
  <2>1. remote'.spaces = {1}
    BY <1>2, FS_EmptySet DEF WithSpace, SyncOK, ServerOK, RemoteType
  <2>2. Cardinality({1}) = 1 /\ Cardinality({}) = 0
    BY FS_Singleton, FS_EmptySet
  <2>3. Creators' = {}
    BY DEF Creators, WillCreate
  <2>4. {AutoCall} \in SUBSET Calls /\ Cardinality({AutoCall}) = 1
    BY CallsFinite, FS_Singleton
  <2>5. 1 <= Cardinality(Calls)
    BY <2>4, CallsFinite
  <2> QED  BY <2>1, <2>2, <2>3, <2>5, CardinalitiesAreNat DEF FewOK, None
<1> QED  BY <1>1, <1>2

LEMMA FewServe ==
    ASSUME SyncOK, FewOK, NEW c \in Calls, Serve(c) \/ Refuse(c)
    PROVE  FewOK'
<1>0. /\ call[c] \in CallType /\ remote \in RemoteType /\ IsFiniteSet(remote.spaces)
      /\ call \in [Calls -> CallType] /\ None \notin remote.spaces
  BY DEF SyncOK, ServerOK, FewOK
<1>1. CASE ServeList(c) /\ remote.spaces # {}
  <2>1. PICK space \in remote.spaces : Done(c, space) /\ remote' = remote
    BY <1>1 DEF ServeList
  <2>2. space # None
    BY <1>0
  <2> QED  BY <2>1, <2>2, FewAnswer DEF Done
<1>2. CASE ServeList(c) /\ remote.spaces = {}
  <2>1. remote' = remote
    BY <1>2 DEF ServeList
  <2>2. Creators' \in SUBSET Calls
    BY DEF Creators
  <2>3. Cardinality({}) = 0
    BY FS_EmptySet
  <2> QED  BY <1>2, <2>1, <2>2, <2>3, CallsFinite, CardinalitiesAreNat DEF FewOK
<1>3. CASE ServeCreate(c)
  <2> DEFINE new == Cardinality(remote.spaces) + 1
  <2>1. /\ call[c].pc = "create" /\ call[c].reply.status = "none"
        /\ remote' = WithSpace(remote) /\ Done(c, new)
    BY <1>3 DEF ServeCreate, Waiting
  <2>2. new \in Nat \ {0} /\ remote'.spaces = remote.spaces \cup {new}
    BY <1>0, <2>1, CardinalitiesAreNat DEF WithSpace, RemoteType
  <2>3. Cardinality(remote'.spaces) <= Cardinality(remote.spaces) + 1
    <3> HIDE DEF new
    <3>1. Cardinality(remote.spaces \cup {new}) \in
            {Cardinality(remote.spaces), Cardinality(remote.spaces) + 1}
      BY <1>0, FS_AddElement
    <3> QED  BY <2>2, <3>1, CardinalitiesAreNat
  <2>4. PICK reply : call' = [call EXCEPT ![c].reply = reply] /\ reply.status # "none"
    BY <2>1 DEF Done, Answer
  <2>5. ~WillCreate(call'[c]) /\ \A d \in Calls \ {c} : call'[d] = call[d]
    <3>1. call'[c] = [call[c] EXCEPT !.reply = reply]
      BY <1>0, <2>4
    <3>2. call'[c].reply = reply /\ call'[c].pc = "create"
      BY <1>0, <2>1, <3>1 DEF CallType
    <3> QED  BY <1>0, <2>4, <3>2 DEF WillCreate
  <2>6. /\ c \in Creators /\ Creators \in SUBSET Calls
        /\ Creators' \in SUBSET (Creators \ {c})
    <3>1. Creators' = {d \in Calls : WillCreate(call'[d])}
      BY DEF Creators, WillCreate
    <3> QED  BY <2>1, <2>5, <3>1 DEF Creators, WillCreate
  <2>7. /\ Cardinality(Creators \ {c}) = Cardinality(Creators) - 1
        /\ Cardinality(Creators') <= Cardinality(Creators \ {c})
    BY <2>6, CallsFinite, FS_RemoveElement, FS_Subset
  <2>8. Cardinality(remote'.spaces) \in Nat /\ None \notin remote'.spaces
    BY <1>0, <2>2, FS_AddElement, FS_CardinalityType DEF None
  <2>9. Cardinality(Creators) \in Nat /\ Cardinality(Creators') \in Nat
        /\ Cardinality(Calls) \in Nat /\ Cardinality(remote.spaces) \in Nat
    BY <2>6, CardinalitiesAreNat
  <2>10. Cardinality(remote.spaces) + Cardinality(Creators) <= Cardinality(Calls)
    BY DEF FewOK
  <2>11. Cardinality(remote'.spaces) + Cardinality(Creators') <= Cardinality(Calls)
    BY <2>3, <2>7, <2>8, <2>9, <2>10
  <2> QED  BY <2>8, <2>11 DEF FewOK
<1>4. CASE ServeConversation(c) \/ ServeMessage(c) \/ Refuse(c)
  <2>1. /\ remote'.spaces = remote.spaces
        /\ \E status \in {"ok", "conflict", "error"} :
              Answer(c, status, None) /\ (status = "ok" => call[c].pc # "list")
    BY <1>0, <1>4 DEF ServeConversation, ServeMessage, Refuse, Done, Waiting, RemoteType
  <2> QED  BY <2>1, FewAnswer
<1> QED  BY <1>1, <1>2, <1>3, <1>4 DEF Serve

\* Where the application may start a call: a store that it changed, and the call.
LEMMA ApplicationIs ==
    ASSUME SyncOK, Application
    PROVE  \/ /\ UNCHANGED <<service, call, remote>>
              /\ Facts!Grows(store, store')
           \/ \E c \in Calls, id \in ConversationId : \E saved :
                 /\ Facts!StoreOK(saved) /\ Facts!Grows(store, saved)
                 /\ BeginSave(c, id, saved)
<1>0. Facts!StoreOK(store)
  BY DEF SyncOK
<1>1. ASSUME NEW id \in ConversationId, NEW n \in 0 .. 2, AppendMessages(id, n)
      PROVE  UNCHANGED <<service, call, remote>> /\ Facts!Grows(store, store')
  <2>1. store' = Store!appendMessages(store, id, n) /\ UNCHANGED <<service, call, remote>>
    BY <1>1 DEF AppendMessages, Store!AppendMessages
  <2> QED  BY <1>0, <2>1, AppendMessagesChanges, TakenChanges DEF Changed
<1>2. ASSUME NEW id \in ConversationId, NEW title \in Title, SetTitle(id, title)
      PROVE  UNCHANGED <<service, call, remote>> /\ Facts!Grows(store, store')
  <2>1. /\ store' = Store!setTitle(store, id, title) /\ UNCHANGED <<service, call, remote>>
        /\ Store!has(store, id)
    BY <1>2 DEF SetTitle, Store!SetTitle
  <2> QED  BY <1>0, <2>1, SetTitleChanges DEF Changed
<1>3. ASSUME NEW c \in SaveCalls, NEW id \in ConversationId, Save(c, id)
      PROVE  c \in Calls /\ Facts!Grows(store, store) /\ BeginSave(c, id, store)
  BY <1>3 DEF Save, Calls, Facts!Grows
<1>4. ASSUME NEW c \in SaveCalls, NEW id \in ConversationId, NEW title \in Title,
             SaveWithTitle(c, id, title)
      PROVE  /\ c \in Calls /\ Changed(store, Store!setTitle(store, id, title))
             /\ BeginSave(c, id, Store!setTitle(store, id, title))
  BY <1>0, <1>4, SetTitleChanges DEF SaveWithTitle, Calls
<1>5. ASSUME NEW c \in SaveCalls, NEW id \in ConversationId, NEW title \in Title,
             NEW n \in 0 .. 2, SaveTurns(c, id, n, title)
      PROVE  /\ c \in Calls /\ Changed(store, Store!createFromTurns(store, id, n, title))
             /\ BeginSave(c, id, Store!createFromTurns(store, id, n, title))
  BY <1>0, <1>5, CreateFromTurnsChanges, TakenChanges DEF SaveTurns, Calls
<1> QED  BY <1>0, <1>1, <1>2, <1>3, <1>4, <1>5 DEF Application, Changed

\* The timer's call: from the store and the service as they are.
LEMMA TimerIs ==
    ASSUME SyncOK, TimerFires
    PROVE  \/ UNCHANGED <<store, service, call, remote>>
           \/ \E w : /\ Ready(w, remote) /\ w.store = store /\ w.service = service
                     /\ Commit(AutoCall, GetOrCreateSpace(AutoCall, w))
<1> DEFINE w == [World(AutoCall) EXCEPT !.call = IdleCall]
<1>1. /\ AutoCall \in Calls /\ World(AutoCall) \in WorldType
      /\ Facts!StoreOK(store) /\ ServiceOK(service, remote)
      /\ World(AutoCall).store = store /\ World(AutoCall).service = service
  BY CallsFinite, WorldReady DEF Ready, SyncOK
<1>2. w \in WorldType /\ w.store = store /\ w.service = service /\ w.call = IdleCall
  BY <1>1, ConstantsOK, WithCall
<1>3. \/ UNCHANGED <<store, service, call, remote>>
      \/ Commit(AutoCall, GetOrCreateSpace(AutoCall, w))
  BY DEF TimerFires
<1> HIDE DEF w
<1>4. Ready(w, remote)
  BY <1>1, <1>2, ConstantsOK DEF Ready
<1> QED  BY <1>2, <1>3, <1>4

LEMMA FewStep ==
    ASSUME SyncOK, FewOK, [Next]_vars
    PROVE  FewOK'
<1>0. call \in [Calls -> CallType] /\ remote \in RemoteType
  BY DEF SyncOK, ServerOK
<1>1. ASSUME UNCHANGED <<call, remote>> PROVE FewOK'
  BY <1>1, FewKept
<1>2. ASSUME NEW c \in Calls, NEW x, Commit(c, x), Rests(x) PROVE FewOK'
  BY <1>2, FewCommit DEF Rests
<1>3. ASSUME Application PROVE FewOK'
  <2>1. ASSUME NEW c \in Calls, NEW id \in ConversationId, NEW saved,
               Facts!StoreOK(saved), Facts!Grows(store, saved), BeginSave(c, id, saved)
        PROVE  FewOK'
    <3>1. PICK w, x : /\ Ready(w, remote) /\ Commit(c, x)
                      /\ \/ /\ w.call.ref \in DOMAIN w.store.states
                            /\ x = GetOrCreateSpace(c, w)
                         \/ Ends(w, x)
      BY <2>1, BeginSaveIs
    <3>2. Rests(x)
      BY <3>1, GetOrCreateSpaceRests DEF Ends, Kept, Rests
    <3> QED  BY <1>2, <3>1, <3>2
  <2> QED  BY <1>1, <1>3, <2>1, ApplicationIs
<1>4. ASSUME TimerFires PROVE FewOK'
  <2>1. AutoCall \in Calls
    BY CallsFinite
  <2>2. ASSUME NEW w, Ready(w, remote), Commit(AutoCall, GetOrCreateSpace(AutoCall, w))
        PROVE  FewOK'
    <3>1. Rests(GetOrCreateSpace(AutoCall, w))
      BY <2>2, GetOrCreateSpaceRests
    <3> QED  BY <1>2, <2>1, <2>2, <3>1
  <2> QED  BY <1>1, <1>4, <2>2, TimerIs
<1>5. ASSUME NEW c \in Calls, Resume(c) PROVE FewOK'
  BY <1>5, FewResume, FewCommit
<1>6. ASSUME Restart PROVE FewOK'
  <2>1. \A c \in Calls : call'[c] = IdleCall
    BY <1>6 DEF Restart
  <2>2. ~WillCreate(IdleCall)
    BY DEF IdleCall, WillCreate
  <2>3. PICK startup \in Startups(remote) : remote' = startup[2]
    BY <1>6 DEF Restart
  <2>4. startup[2] = remote \/ (remote.spaces = {} /\ startup[2] = WithSpace(remote))
    BY DEF Startups
  <2>5. remote' \in RemoteType
    BY <2>3, StartupOK DEF SyncOK, ServerOK
  <2> QED  BY <2>1, <2>2, <2>3, <2>4, <2>5, FewAfter
<1> QED  BY <1>1, <1>3, <1>4, <1>5, <1>6, FewServe DEF Next, vars

LEMMA FewInit ==
    ASSUME Init
    PROVE  FewOK
<1>1. /\ EmptyRemote \in RemoteType /\ EmptyRemote.spaces = {} /\ IsFiniteSet(EmptyRemote.spaces)
  BY FS_EmptySet DEF EmptyRemote, RemoteType
<1>2. PICK startup \in Startups(EmptyRemote) : remote = startup[2]
  BY DEF Init
<1>3. startup[2] = EmptyRemote \/ startup[2] = WithSpace(EmptyRemote)
  BY DEF Startups
<1>4. remote.spaces = {} \/ remote.spaces = {1}
  BY <1>1, <1>2, <1>3, FS_EmptySet DEF WithSpace, RemoteType
<1>5. Creators = {}
  <2>1. \A c \in Calls : call[c] = IdleCall
    BY DEF Init
  <2> QED  BY <2>1 DEF Creators, WillCreate, IdleCall
<1>6. Cardinality({1}) = 1 /\ Cardinality({}) = 0
  BY FS_Singleton, FS_EmptySet
<1>7. {AutoCall} \in SUBSET Calls /\ Cardinality({AutoCall}) = 1
  BY CallsFinite, FS_Singleton
<1>8. 1 <= Cardinality(Calls) /\ Cardinality(Calls) \in Nat
  BY <1>7, CallsFinite, FS_CardinalityType
<1> QED  BY <1>4, <1>5, <1>6, <1>8 DEF FewOK, None

\* ProjectsAreFew: auto-sync and any number of /save commands beside it make at most one
\* project of the name each, all of them together, whichever of their requests fail or lose
\* their answer and wherever the process crashes; auto-sync alone makes one
\* (docs/conversations.md:27 "Project name (created if doesn't exist)";
\* space-manager.ts:77-110).
THEOREM ProjectsStayFew == Spec => []ProjectsAreFew
<1>1. SyncOK /\ FewOK => ProjectsAreFew
  <2> SUFFICES ASSUME SyncOK, FewOK PROVE ProjectsAreFew
    OBVIOUS
  <2>1. Creators \in SUBSET Calls
    BY DEF Creators
  <2> QED  BY <2>1, CardinalitiesAreNat DEF FewOK, ProjectsAreFew
<1>2. Init => FewOK
  BY FewInit
<1>3. SyncOK /\ FewOK /\ [Next]_vars => FewOK'
  BY FewStep
<1> QED  BY <1>1, <1>2, <1>3, SyncAlways, PTL DEF Spec

-------------------------------------------------------------------------------
(* Whatever is sent goes to a space that is there, with the key of one that is there *)

Known(v, P) ==
    /\ v.space \in P \cup {None}
    /\ \A id \in ConversationId : v.conversations[id] \in P \cup {None}

\* A call that pushes: the space it found, where it sends to and the key it sends with.
Aimed(k, v, P) ==
    k.pc \in {"conversation", "message"} =>
       k.space \in P /\ k.target \in P /\ k.sent.key \in P /\ v.space \in P

Replied(k, P) ==
    /\ k.reply.space \in P \cup {None}
    /\ k.pc = "create" /\ k.reply.status = "ok" => k.reply.space \in P

\* A parent is of the conversation its message is of.
OfOne(s, msg) ==
    msg.parent # None => s.messages[msg.parent].conversation = s.messages[msg.id].conversation

ListedOK(s, r) ==
    /\ \A conv \in r.conversations : conv.space \in r.spaces /\ conv.key \in r.spaces
    /\ \A msg \in r.messages : msg.space \in r.spaces /\ msg.key \in r.spaces /\ OfOne(s, msg)
    /\ \A m, n \in r.messages : m.space = n.space /\ m.id = n.id => m = n

KeyOK ==
    /\ Known(service, remote.spaces)
    /\ \A c \in Calls : Aimed(call[c], service, remote.spaces) /\ Replied(call[c], remote.spaces)
    /\ ListedOK(store, remote)

\* What a step makes of a world with the spaces P.
Aims(w, x, P) ==
    /\ x.service = w.service /\ x.call.reply = NoReply /\ Aimed(x.call, x.service, P)
    /\ Facts!Grows(w.store, x.store)

LEMMA KeptAims ==
    ASSUME NEW w, NEW x, NEW P, Kept(w, x), Aimed(x.call, w.service, P)
    PROVE  Aims(w, x, P)
  BY DEF Kept, Aims, Facts!Grows

LEMMA BeginsAims ==
    ASSUME NEW w, NEW x, NEW ref, NEW P, Begins(w, x, ref), w.service.space \in P,
           w.call.space \in P, Known(w.service, P)
    PROVE  Aims(w, x, P)
<1>1. x.call.target \in P
  BY DEF Begins, Known
<1> QED  BY <1>1, KeptAims DEF Begins, Aimed

LEMMA NextsAims ==
    ASSUME NEW c, NEW w, NEW x, NEW P, Nexts(c, w, x), w.service.space \in P,
           w.call.space \in P, Known(w.service, P)
    PROVE  Aims(w, x, P)
<1>1. CASE Ends(w, x)
  BY <1>1, KeptAims DEF Ends, Aimed
<1> QED  BY <1>1, BeginsAims DEF Nexts

LEMMA AimsFrom ==
    ASSUME NEW w, NEW y, NEW x, NEW P, Aims(y, x, P), y.service = w.service,
           Facts!Grows(w.store, y.store)
    PROVE  Aims(w, x, P)
  BY SyncAssumption, Facts!GrowsTransitive DEF Aims, Store!StoreAssumption

LEMMA PushedAims ==
    ASSUME NEW c, NEW w, NEW r, NEW P, Ready(w, r), w.call.ref \in DOMAIN w.store.states,
           w.service.space \in P, w.call.space \in P, Known(w.service, P)
    PROVE  Aims(w, Pushed(c, w), P) /\ Aims(w, NotPushed(c, w), P)
<1>1. Facts!Grows(w.store, w.store)
  BY DEF Facts!Grows
<1>2. ASSUME NEW y, NEW x, Via(c, w, y, x, r), Facts!Grows(w.store, y.store)
      PROVE  Aims(w, x, P)
  <2>1. Aims(y, x, P)
    BY <1>2, NextsAims DEF Via
  <2> QED  BY <1>2, <2>1, AimsFrom DEF Via
<1>3. Aims(w, Pushed(c, w), P)
  <2>1. PICK y : /\ Via(c, w, y, Pushed(c, w), r)
                 /\ IF c = AutoCall THEN Marked(w.store, y.store, StateOf(w).id)
                    ELSE y.store = w.store
    BY PushedIs
  <2> QED  BY <1>1, <1>2, <2>1 DEF Marked
<1>4. Aims(w, NotPushed(c, w), P)
  <2>1. PICK y : /\ Via(c, w, y, NotPushed(c, w), r)
                 /\ y.store = IF c = AutoCall THEN w.store
                              ELSE Store!markDirtyById(w.store, StateOf(w).id)
    BY NotPushedIs
  <2>2. Marked(w.store, Store!markDirtyById(w.store, StateOf(w).id), StateOf(w).id)
    BY StateId, MarksOK DEF Ready
  <2> QED  BY <1>1, <1>2, <2>1, <2>2 DEF Marked
<1> QED  BY <1>3, <1>4

LEMMA PushMessagesAims ==
    ASSUME NEW c, NEW w, NEW r, NEW P, Ready(w, r), w.call.ref \in DOMAIN w.store.states,
           w.call.from # 0,
           \A j \in 1 .. w.call.from - 1 : StateOf(w).messages[j] \in w.service.messages,
           w.service.space \in P, w.call.space \in P, w.call.target \in P, Known(w.service, P)
    PROVE  Aims(w, PushMessages(c, w), P)
<1>1. CASE PushMessages(c, w) = Pushed(c, w)
  BY <1>1, PushedAims
<1>2. CASE Continues(w, PushMessages(c, w))
  BY <1>2, KeptAims DEF Continues, Aimed
<1> QED  BY <1>1, <1>2, PushMessagesIs

LEMMA PushesAims ==
    ASSUME NEW c, NEW w, NEW x, NEW r, NEW P, Pushes(c, w, x, r), w.service.space \in P,
           Known(w.service, P)
    PROVE  Aims(w, x, P)
<1>1. PICK y : /\ y.service = w.service /\ y.call.space = w.service.space
               /\ \/ y.store = w.store /\ Nexts(c, y, x)
                  \/ Marked(w.store, y.store, StateOf(w).id) /\ Begins(y, x, w.call.ref)
  BY DEF Pushes
<1>2. Aims(y, x, P)
  BY <1>1, NextsAims, BeginsAims
<1>3. Facts!Grows(w.store, y.store)
  BY <1>1 DEF Marked, Facts!Grows
<1> QED  BY <1>1, <1>2, <1>3, AimsFrom

LEMMA GetOrCreateSpaceAims ==
    ASSUME NEW c, NEW w, NEW r, NEW P, Ready(w, r), Known(w.service, P),
           c # AutoCall => w.call.ref \in DOMAIN w.store.states
    PROVE  Aims(w, GetOrCreateSpace(c, w), P)
<1> DEFINE x == GetOrCreateSpace(c, w)
<1>1. CASE Lists(w, x)
  BY <1>1, KeptAims DEF Lists, Aimed
<1>2. CASE w.service.space # None /\ Pushes(c, w, x, r)
  <2>1. w.service.space \in P
    BY <1>2 DEF Known
  <2> QED  BY <1>2, <2>1, PushesAims
<1> QED  BY <1>1, <1>2, GetOrCreateSpaceIs

\* What was listed stays as it is while the store grows.
LEMMA ListedKept ==
    ASSUME NEW s, NEW t, NEW r, ServerOK(s, r), Facts!Grows(s, t), ListedOK(s, r)
    PROVE  ListedOK(t, r)
<1>1. ASSUME NEW msg \in r.messages PROVE OfOne(t, msg)
  <2>1. /\ msg.id \in DOMAIN s.messages
        /\ msg.parent # None => msg.parent \in DOMAIN s.messages
    BY <1>1 DEF ServerOK, Uploaded
  <2>2. \A m \in DOMAIN s.messages : t.messages[m] = s.messages[m]
    BY DEF Facts!Grows
  <2>3. OfOne(s, msg)
    BY <1>1 DEF ListedOK
  <2> QED  BY <2>1, <2>2, <2>3 DEF OfOne
<1> QED  BY <1>1 DEF ListedOK

LEMMA KeyCommit ==
    ASSUME SyncOK, KeyOK, NEW c \in Calls, NEW x, Commit(c, x), Facts!Grows(store, x.store),
           Known(x.service, remote.spaces), Aimed(x.call, x.service, remote.spaces),
           service.space \in remote.spaces => x.service.space \in remote.spaces,
           x.call.reply = NoReply
    PROVE  KeyOK'
<1>1. /\ store' = x.store /\ service' = x.service /\ remote' = remote
      /\ call' = [call EXCEPT ![c] = x.call] /\ call \in [Calls -> CallType]
  BY DEF Commit, SyncOK
<1>2. ASSUME NEW d \in Calls
      PROVE  Aimed(call'[d], service', remote.spaces) /\ Replied(call'[d], remote.spaces)
  <2>1. CASE d = c
    BY <1>1, <2>1 DEF Replied, NoReply
  <2>2. CASE d # c
    BY <1>1, <2>2 DEF KeyOK, Aimed
  <2> QED  BY <2>1, <2>2
<1>3. ListedOK(x.store, remote)
  BY ListedKept DEF SyncOK, KeyOK
<1> QED  BY <1>1, <1>2, <1>3 DEF KeyOK

\* A step of a call from a world of the store and the service.
LEMMA KeyAims ==
    ASSUME SyncOK, KeyOK, NEW c \in Calls, NEW w, NEW x, Commit(c, x),
           Aims(w, x, remote.spaces), Facts!Grows(store, w.store),
           Known(w.service, remote.spaces),
           service.space \in remote.spaces => w.service.space \in remote.spaces
    PROVE  KeyOK'
<1>1. Facts!Grows(store, x.store)
  BY SyncAssumption, Facts!GrowsTransitive DEF Aims, Store!StoreAssumption
<1> QED  BY <1>1, KeyCommit DEF Aims

LEMMA KeyResume ==
    ASSUME SyncOK, KeyOK, NEW c \in Calls, Resume(c)
    PROVE  KeyOK'
<1> DEFINE w == World(c)
           k == call[c]
           P == remote.spaces
<1>1. /\ Ready(w, remote) /\ w.store = store /\ w.service = service /\ w.call = k
      /\ HasState(c, k) => k.ref \in DOMAIN store.states
  BY WorldReady DEF CallOK
<1>2. Known(service, P) /\ Aimed(k, service, P) /\ Replied(k, P)
  BY DEF KeyOK
<1>3. Facts!Grows(store, store)
  BY DEF Facts!Grows
<1> HIDE DEF w
<1>4. ASSUME NEW y, HasSpace(c, y) PROVE KeyOK'
  <2>1. k.reply.space \in P
    BY <1>2, <1>4 DEF HasSpace, Replied
  <2>2. Known(y.service, P) /\ y.service.space \in P /\ y.call.space = y.service.space
    BY <1>2, <1>4, <2>1 DEF HasSpace, Known
  <2>3. c # AutoCall => y.call.ref \in DOMAIN y.store.states
    BY <1>1, <1>4 DEF HasSpace, HasState
  <2>4. Aims(y, PushAll(c, y), P)
    BY <1>4, <2>2, <2>3, PushAllIs, PushesAims DEF HasSpace
  <2> QED  BY <1>3, <1>4, <2>2, <2>4, KeyAims DEF HasSpace
<1>5. ASSUME NEW y, GoesOn(c, y) PROVE KeyOK'
  <2>1. k.space \in P /\ k.target \in P /\ service.space \in P
    BY <1>2, <1>5 DEF GoesOn, Aimed
  <2>2. Known(y.service, P) /\ y.service.space \in P
    BY <1>2, <1>5, <2>1 DEF GoesOn, Known
  <2>3. Aims(y, PushMessages(c, y), P)
    BY <1>5, <2>1, <2>2, PushMessagesAims DEF GoesOn
  <2> QED  BY <1>3, <1>5, <2>2, <2>3, KeyAims DEF GoesOn
<1>6. ASSUME NEW x, NeedsSpace(c, x) \/ HasNoSpace(c, x) PROVE KeyOK'
  <2>1. Commit(c, x) /\ Kept(w, x) /\ x.call.pc \in {"create", "idle"}
    BY <1>6 DEF NeedsSpace, HasNoSpace, Creates, Ends, w
  <2>2. Aims(w, x, P)
    BY <2>1, KeptAims DEF Aimed
  <2> QED  BY <1>1, <1>2, <1>3, <2>1, <2>2, KeyAims
<1>7. ASSUME Failed(c) PROVE KeyOK'
  <2>1. k.space \in P /\ service.space \in P /\ k.ref \in DOMAIN store.states
    BY <1>1, <1>2, <1>7 DEF Failed, Aimed, HasState
  <2>2. Aims(w, NotPushed(c, w), P)
    BY <1>1, <1>2, <2>1, PushedAims
  <2> QED  BY <1>1, <1>2, <1>3, <1>7, <2>2, KeyAims DEF Failed, w
<1> QED  BY <1>4, <1>5, <1>6, <1>7, ResumeIs

LEMMA KeyBegins ==
    ASSUME SyncOK, KeyOK, NEW c \in Calls, NEW w, NEW x, Ready(w, remote),
           w.service = service, Facts!Grows(store, w.store), Commit(c, x),
           \/ /\ c # AutoCall => w.call.ref \in DOMAIN w.store.states
              /\ x = GetOrCreateSpace(c, w)
           \/ Ends(w, x)
    PROVE  KeyOK'
<1>1. Known(service, remote.spaces)
  BY DEF KeyOK
<1>2. CASE Ends(w, x)
  BY <1>1, <1>2, KeptAims, KeyAims DEF Ends, Aimed
<1>3. CASE x = GetOrCreateSpace(c, w) /\ (c # AutoCall => w.call.ref \in DOMAIN w.store.states)
  BY <1>1, <1>3, GetOrCreateSpaceAims, KeyAims
<1> QED  BY <1>2, <1>3

LEMMA KeyChange ==
    ASSUME SyncOK, KeyOK, UNCHANGED <<service, call, remote>>, Facts!Grows(store, store')
    PROVE  KeyOK'
<1>1. ListedOK(store', remote)
  BY ListedKept DEF SyncOK, KeyOK
<1> QED  BY <1>1 DEF KeyOK

LEMMA KeyTimer ==
    ASSUME SyncOK, KeyOK, TimerFires
    PROVE  KeyOK'
<1>1. Facts!Grows(store, store)
  BY DEF Facts!Grows
<1>2. CASE UNCHANGED <<store, service, call, remote>>
  BY <1>1, <1>2, KeyChange
<1>3. ASSUME NEW w, Ready(w, remote), w.store = store, w.service = service,
             Commit(AutoCall, GetOrCreateSpace(AutoCall, w))
      PROVE  KeyOK'
  BY <1>1, <1>3, CallsFinite, KeyBegins
<1> QED  BY <1>2, <1>3, TimerIs

LEMMA KeyApplication ==
    ASSUME SyncOK, KeyOK, Application
    PROVE  KeyOK'
<1>1. ASSUME NEW c \in Calls, NEW id \in ConversationId, NEW saved,
             Facts!StoreOK(saved), Facts!Grows(store, saved), BeginSave(c, id, saved)
      PROVE  KeyOK'
  <2>1. PICK w, x : /\ Ready(w, remote) /\ w.service = service /\ Facts!Grows(store, w.store)
                    /\ Commit(c, x)
                    /\ \/ /\ w.call.ref \in DOMAIN w.store.states
                          /\ x = GetOrCreateSpace(c, w)
                       \/ Ends(w, x)
    BY <1>1, BeginSaveIs
  <2> QED  BY <2>1, KeyBegins
<1> QED  BY <1>1, ApplicationIs, KeyChange

\* A message and its parent are of one conversation.
LEMMA SiblingsMeet ==
    ASSUME NEW s, Facts!StoreOK(s), NEW ref \in DOMAIN s.states,
           NEW i \in DOMAIN s.states[ref].messages, NEW msg,
           msg.id = s.states[ref].messages[i], msg.parent = s.messages[msg.id].parent
    PROVE  OfOne(s, msg)
<1> DEFINE messages == s.states[ref].messages
<1>1. Facts!Chained(s)
  BY DEF Facts!StoreOK, Facts!Sound
<1>2. /\ s.messages[messages[i]].conversation = s.states[ref].id
      /\ s.messages[messages[i]].parent = IF i = 1 THEN None ELSE messages[i - 1]
  BY <1>1 DEF Facts!Chained, None
<1>3. CASE i = 1
  BY <1>2, <1>3 DEF OfOne
<1>4. CASE i # 1
  <2>1. messages \in Seq(Nat) /\ DOMAIN messages = 1 .. Len(messages)
    BY StoreParts
  <2>2. Len(messages) \in Nat
    BY <2>1
  <2>3. i - 1 \in DOMAIN messages
    <3> HIDE DEF messages
    <3>1. i \in 1 .. Len(messages)
      BY <2>1 DEF messages
    <3> QED  BY <1>4, <2>1, <2>2, <3>1
  <2>4. s.messages[messages[i - 1]].conversation = s.states[ref].id
    BY <1>1, <2>3 DEF Facts!Chained
  <2> QED  BY <1>2, <1>4, <2>4 DEF OfOne
<1> QED  BY <1>3, <1>4

\* More spaces, and a call that is answered.
LEMMA KeyAnswer ==
    ASSUME SyncOK, KeyOK, NEW c \in Calls, UNCHANGED <<store, service>>,
           NEW status \in {"ok", "conflict", "error"}, NEW space \in remote'.spaces \cup {None},
           Answer(c, status, space), remote.spaces \subseteq remote'.spaces,
           call[c].pc = "create" /\ status = "ok" => space \in remote'.spaces,
           ListedOK(store, remote')
    PROVE  KeyOK'
<1> DEFINE reply == [status |-> status, space |-> space]
           answered == [call[c] EXCEPT !.reply = reply]
           P == remote'.spaces
<1>1. call' = [call EXCEPT ![c] = answered] /\ call \in [Calls -> CallType]
  BY DEF SyncOK, Answer
<1>2. /\ answered.reply = reply /\ answered.pc = call[c].pc /\ answered.space = call[c].space
      /\ answered.target = call[c].target /\ answered.sent = call[c].sent
  BY <1>1 DEF CallType
<1>3. reply.status = status /\ reply.space = space
  OBVIOUS
<1> HIDE DEF answered, reply
<1>4. Known(service, P) /\ \A d \in Calls : Aimed(call[d], service, P) /\ Replied(call[d], P)
  BY DEF KeyOK, Known, Aimed, Replied
<1>5. Aimed(answered, service, P) /\ Replied(answered, P)
  BY <1>2, <1>3, <1>4 DEF Aimed, Replied
<1>6. \A d \in Calls : Aimed(call'[d], service, P) /\ Replied(call'[d], P)
  BY <1>1, <1>4, <1>5
<1> QED  BY <1>4, <1>6 DEF KeyOK

LEMMA KeyServe ==
    ASSUME SyncOK, KeyOK, NEW c \in Calls, Serve(c) \/ Refuse(c)
    PROVE  KeyOK'
<1> DEFINE k == call[c]
           P == remote.spaces
<1>1. /\ k \in CallType /\ CallOK(c, k, store, service, remote)
      /\ remote \in RemoteType /\ Facts!StoreOK(store)
  BY DEF SyncOK, ServerOK
<1>2. ListedOK(store, remote) /\ Aimed(k, service, P)
  BY DEF KeyOK
<1>3. ASSUME Unaffected, k.pc # "create", ListedOK(store, remote'), remote'.spaces = P,
             \/ Answer(c, "conflict", None) \/ Answer(c, "error", None)
             \/ \E space \in P \cup {None} : Done(c, space)
      PROVE  KeyOK'
  BY <1>3, KeyAnswer DEF Done, Unaffected
<1>4. CASE ServeList(c)
  BY <1>2, <1>3, <1>4 DEF ServeList, Waiting
<1>5. CASE ServeCreate(c)
  <2> DEFINE new == Cardinality(P) + 1
  <2>1. /\ Unaffected /\ remote' = WithSpace(remote) /\ Done(c, new)
    BY <1>5 DEF ServeCreate
  <2>2. remote'.spaces = P \cup {new} /\ remote'.conversations = remote.conversations
        /\ remote'.messages = remote.messages
    BY <1>1, <2>1 DEF WithSpace, RemoteType
  <2> HIDE DEF new
  <2>3. ListedOK(store, remote')
    BY <1>2, <2>2 DEF ListedOK
  <2> QED  BY <2>1, <2>2, <2>3, KeyAnswer DEF Done, Unaffected
<1>6. CASE ServeConversation(c)
  <2> DEFINE id == store.states[k.ref].id
             new == [space |-> k.target, id |-> id, title |-> k.sent.title, key |-> k.sent.key]
  <2>1. k.pc = "conversation" /\ Unaffected
        /\ (Answer(c, "conflict", None) \/ Done(c, None))
    BY <1>6 DEF ServeConversation, Waiting
  <2>2. /\ remote'.messages = remote.messages /\ remote'.spaces = P
        /\ remote'.conversations \subseteq remote.conversations \cup {new}
    BY <1>1, <1>6 DEF ServeConversation, RemoteType
  <2>3. new.space \in P /\ new.key \in P
    BY <1>2, <2>1 DEF Aimed
  <2> HIDE DEF new
  <2>4. ListedOK(store, remote')
    BY <1>2, <2>2, <2>3 DEF ListedOK
  <2> QED  BY <1>3, <2>1, <2>2, <2>4
<1>7. CASE ServeMessage(c)
  <2> DEFINE new == [space |-> k.target, id |-> k.sent.message, parent |-> k.sent.parent,
                     key |-> k.sent.key]
             messages == store.states[k.ref].messages
  <2>1. k.pc = "message" /\ Unaffected
        /\ (Answer(c, "conflict", None) \/ Done(c, None))
    BY <1>7 DEF ServeMessage, Waiting
  <2>2. /\ remote'.conversations = remote.conversations /\ remote'.spaces = P
        /\ \/ remote'.messages = remote.messages
           \/ /\ remote'.messages = remote.messages \cup {new}
              /\ \A msg \in remote.messages : ~(msg.space = k.target /\ msg.id = k.sent.message)
    BY <1>1, <1>7 DEF ServeMessage, RemoteType
  <2>3. new.space = k.target /\ new.space \in P /\ new.key \in P /\ new.id = k.sent.message
        /\ new.parent = k.sent.parent
    BY <1>2, <2>1 DEF Aimed
  <2> HIDE DEF new
  <2>4. k.ref \in DOMAIN store.states /\ MessageOK(k, store, service)
    BY <1>1, <2>1 DEF CallOK, HasState
  <2>5. PICK i \in DOMAIN messages : messages[i] = k.sent.message
    BY <2>4 DEF MessageOK
  <2>6. new.parent = store.messages[new.id].parent
    BY <2>3, <2>4 DEF MessageOK
  <2>7. OfOne(store, new)
    BY <1>1, <2>3, <2>4, <2>5, <2>6, SiblingsMeet
  <2>8. ListedOK(store, remote')
    BY <1>2, <2>2, <2>3, <2>7 DEF ListedOK
  <2> QED  BY <1>3, <2>1, <2>2, <2>8
<1>8. CASE Refuse(c)
  <2>1. Answer(c, "error", None) /\ Unaffected /\ remote' = remote
    BY <1>8 DEF Refuse
  <2> QED  BY <1>2, <2>1, KeyAnswer DEF Unaffected
<1> QED  BY <1>4, <1>5, <1>6, <1>7, <1>8 DEF Serve

LEMMA KeyStartup ==
    ASSUME NEW r, r \in RemoteType, NEW startup \in Startups(r)
    PROVE  /\ startup[1] \in startup[2].spaces \cup {None} /\ r.spaces \subseteq startup[2].spaces
           /\ startup[2].messages = r.messages /\ startup[2].conversations = r.conversations
<1> DEFINE new == Cardinality(r.spaces) + 1
<1>1. /\ WithSpace(r).messages = r.messages /\ WithSpace(r).spaces = r.spaces \cup {new}
      /\ WithSpace(r).conversations = r.conversations
  BY DEF WithSpace, RemoteType
<1>2. \/ startup[1] = None /\ startup[2] \in {r, WithSpace(r)}
      \/ startup[1] \in r.spaces /\ startup[2] = r
      \/ startup[1] = new /\ startup[2] = WithSpace(r)
  BY DEF Startups
<1> QED  BY <1>1, <1>2

LEMMA KeyFresh ==
    ASSUME NEW P, NEW space \in P \cup {None}
    PROVE  /\ Known(NewService(space), P)
           /\ Aimed(IdleCall, NewService(space), P) /\ Replied(IdleCall, P)
<1>1. /\ NewService(space).space = space
      /\ \A id \in ConversationId : NewService(space).conversations[id] = None
  BY DEF NewService
<1>2. IdleCall.pc = "idle" /\ IdleCall.reply.space = None
  BY DEF IdleCall, NoReply
<1> QED  BY <1>1, <1>2 DEF Known, Aimed, Replied

LEMMA KeyRestart ==
    ASSUME SyncOK, KeyOK, Restart
    PROVE  KeyOK'
<1>1. remote \in RemoteType /\ ListedOK(store, remote)
  BY DEF SyncOK, ServerOK, KeyOK
<1>2. PICK startup \in Startups(remote) :
         service' = NewService(startup[1]) /\ remote' = startup[2]
  BY DEF Restart
<1>3. /\ startup[1] \in remote'.spaces \cup {None} /\ remote.spaces \subseteq remote'.spaces
      /\ remote'.messages = remote.messages /\ remote'.conversations = remote.conversations
  BY <1>1, <1>2, KeyStartup
<1>4. store'.messages = store.messages
  BY StoreParts DEF Restart, SyncOK, Facts!StoreType
<1>5. \A c \in Calls : call'[c] = IdleCall
  BY DEF Restart
<1>6. ListedOK(store', remote')
  BY <1>1, <1>3, <1>4 DEF ListedOK, OfOne
<1> QED  BY <1>2, <1>3, <1>5, <1>6, KeyFresh DEF KeyOK

LEMMA KeyInit ==
    ASSUME Init
    PROVE  KeyOK
<1>1. EmptyRemote \in RemoteType /\ EmptyRemote.messages = {} /\ EmptyRemote.conversations = {}
  BY DEF EmptyRemote, RemoteType
<1>2. PICK startup \in Startups(EmptyRemote) :
         service = NewService(startup[1]) /\ remote = startup[2]
  BY DEF Init
<1>3. /\ startup[1] \in remote.spaces \cup {None}
      /\ remote.messages = {} /\ remote.conversations = {}
  BY <1>1, <1>2, KeyStartup
<1>4. ListedOK(store, remote)
  BY <1>3 DEF ListedOK
<1>5. \A c \in Calls : call[c] = IdleCall
  BY DEF Init
<1> QED  BY <1>2, <1>3, <1>4, <1>5, KeyFresh DEF KeyOK

LEMMA KeyStep ==
    ASSUME SyncOK, KeyOK, [Next]_vars
    PROVE  KeyOK'
<1>1. CASE UNCHANGED vars
  BY <1>1 DEF vars, KeyOK, ListedOK, OfOne, Known, Aimed, Replied
<1>2. CASE Next
  BY <1>2, KeyApplication, KeyTimer, KeyServe, KeyResume, KeyRestart DEF Next
<1> QED  BY <1>1, <1>2

(***************************************************************************)
(* What either implementation writes, the other reads, for all keys, ids,  *)
(* roles, contents and listings.  The one thing a reader does not get from *)
(* the message itself is the name of its parent, so most of the argument   *)
(* is that the parent's tag found in the listing is the parent the writer  *)
(* put into the associated data.  That the parent is in the listing is     *)
(* ListingOK below.                                                        *)
(***************************************************************************)

\* Remote ids identify the rows of a listing, and none is "undefined".
Identified(rows) ==
  /\ \A a, b \in rows : a.ID = b.ID => a = b
  /\ \A a \in rows : a.ID # 0

\* A parent's tag and remote id belong together: no parent, or a row of the listing.
ParentIn(rows, parent, parentRemoteId) ==
  \/ parent = 0 /\ parentRemoteId = 0
  \/ \E row \in rows : row.ID = parentRemoteId /\ row.MessageTag = parent

\* The reader finds the tag of the parent that the row names (sorting.ts:60-66,
\* conversion.ts:331-341).
LEMMA ParentFound ==
  ASSUME NEW rows, NEW row \in rows, NEW parent, Identified(rows),
         ParentIn(rows, parent, row.ParentID)
  PROVE  Wire!ParentTag(rows, row) = parent
<1>1. CASE parent = 0 /\ row.ParentID = 0
  BY <1>1 DEF Identified, Wire!ParentTag
<1>2. CASE \E other \in rows : other.ID = row.ParentID /\ other.MessageTag = parent
  <2>1. PICK other \in rows : other.ID = row.ParentID /\ other.MessageTag = parent
    BY <1>2
  <2>2. \A a \in rows : a.ID = row.ParentID => a = other
    BY <2>1 DEF Identified
  <2>3. (CHOOSE a \in rows : a.ID = row.ParentID) = other
    BY <2>1, <2>2
  <2> QED
    BY <2>1, <2>3 DEF Wire!ParentTag
<1> QED
  BY <1>1, <1>2 DEF ParentIn

\* A role survives the way to the server and back as the role in the associated data of
\* the fallback codec: the tables RoleToInt (sync-service.ts:18-24), RoleToApiInt
\* (encryption-codec.ts:23-29) and convertRoleFromApi() (conversion.ts:478-487) agree.
LEMMA FallbackRole ==
  ASSUME NEW role \in Wire!Role
  PROVE  Wire!convertRoleFromApi(Wire!RoleToInt(role)) = Wire!adRole(role)
BY DEF Wire!Role, Wire!convertRoleFromApi, Wire!RoleToInt, Wire!adRole, Wire!UserInt,
       Wire!AssistantInt

\* The same for the roles the vendored client sends.
LEMMA PrimaryRole ==
  ASSUME NEW role \in Wire!ConvertibleRole
  PROVE  Wire!convertRoleFromApi(Wire!convertRoleToApi(role)) = role
BY DEF Wire!ConvertibleRole, Wire!convertRoleFromApi, Wire!convertRoleToApi, Wire!UserInt,
       Wire!AssistantInt

\* What becomes of the row of a message on its way to the reader.
LEMMA RowRead ==
  ASSUME NEW key, NEW message, NEW parent, NEW parentRemoteId, NEW remoteId, NEW rows, NEW row,
         NEW read, message.role \in Wire!Role, Identified(rows),
         ParentIn(rows, parent, parentRemoteId), row \in rows,
         row = Wire!syncMessage(key, message, parent, parentRemoteId, remoteId),
         read = Wire!convertMessageFromApi(row, message.conversationId, Wire!ParentTag(rows, row))
  PROVE  /\ Wire!deserializeMessage(key, read) = {Wire!messagePrivate(message)}
         /\ Wire!LoadedMessage(key, read) = {Wire!messagePrivate(message)}
<1> DEFINE ad == [type |-> "message", id |-> message.id, role |-> Wire!adRole(message.role),
                  parentId |-> parent, conversationId |-> message.conversationId]
<1>1. /\ row.ParentID = parentRemoteId /\ row.MessageTag = message.id
      /\ row.Role = Wire!RoleToInt(message.role)
      /\ row.Encrypted = Wire!Seal(key, ad, Wire!messagePrivate(message))
  BY DEF Wire!syncMessage, Wire!encryptMessage
<1>2. Wire!ParentTag(rows, row) = parent
  BY <1>1, ParentFound
<1>3. /\ read.id = message.id /\ read.conversationId = message.conversationId
      /\ read.parentId = parent /\ read.role = Wire!adRole(message.role)
      /\ read.encrypted = Wire!Seal(key, ad, Wire!messagePrivate(message))
  BY <1>1, <1>2, FallbackRole DEF Wire!convertMessageFromApi
<1>4. Wire!Opened(key, ad, read.encrypted) = {Wire!messagePrivate(message)}
  BY <1>3 DEF Wire!Opened, Wire!Seal
<1>5. Wire!getMessageAd(read) = ad
  BY <1>3 DEF Wire!getMessageAd
<1> HIDE DEF ad
<1>6. Wire!deserializeMessage(key, read) = {Wire!messagePrivate(message)}
  BY <1>4, <1>5 DEF Wire!deserializeMessage
<1>7. Wire!LoadedMessage(key, read) = {Wire!messagePrivate(message)}
  BY <1>3, <1>4 DEF Wire!LoadedMessage, Wire!decryptMessage, ad
<1> QED
  BY <1>6, <1>7

\* FallbackMessagesReadable: a message that the fallback sync posted under a parent of the
\* listing is read by Proton's client and by /load, whatever its role
\* (encryption-codec.ts:144-188, sync-service.ts:238-288, serialization.ts:264-316).
THEOREM FallbackMessagesReadable ==
  ASSUME NEW key, NEW message, message.role \in Wire!Role, NEW parent, NEW parentRemoteId,
         NEW remoteId, NEW rows,
         Wire!syncMessage(key, message, parent, parentRemoteId, remoteId) \in rows,
         Identified(rows), ParentIn(rows, parent, parentRemoteId)
  PROVE  LET row == Wire!syncMessage(key, message, parent, parentRemoteId, remoteId)
             read == Wire!convertMessageFromApi(row, message.conversationId, Wire!ParentTag(rows, row))
         IN  /\ Wire!deserializeMessage(key, read) = {Wire!messagePrivate(message)}
             /\ Wire!LoadedMessage(key, read) = {Wire!messagePrivate(message)}
BY RowRead

\* PrimaryMessagesReadable: a message of the user or the assistant that the primary store
\* (or Proton's client) posted is read by /load and by the client
\* (serialization.ts:100-113, 243-262, conversion.ts:364-385, sync-service.ts:346-383).
THEOREM PrimaryMessagesReadable ==
  ASSUME NEW key, NEW message, message.role \in Wire!ConvertibleRole, NEW parentRemoteId,
         NEW remoteId, NEW rows,
         Wire!convertNewMessageToApi(Wire!serializeMessage(key, message), parentRemoteId, remoteId)
           \in rows,
         Identified(rows), ParentIn(rows, message.parentId, parentRemoteId)
  PROVE  LET serialized == Wire!serializeMessage(key, message)
             row == Wire!convertNewMessageToApi(serialized, parentRemoteId, remoteId)
             read == Wire!convertMessageFromApi(row, message.conversationId, Wire!ParentTag(rows, row))
         IN  /\ Wire!LoadedMessage(key, read) = {message.content}
             /\ Wire!deserializeMessage(key, read) = {message.content}
<1> DEFINE serialized == Wire!serializeMessage(key, message)
           row == Wire!convertNewMessageToApi(serialized, parentRemoteId, remoteId)
           read == Wire!convertMessageFromApi(row, message.conversationId, Wire!ParentTag(rows, row))
<1>1. /\ row.ParentID = parentRemoteId /\ row.MessageTag = message.id
      /\ row.Role = Wire!convertRoleToApi(message.role)
      /\ row.Encrypted = Wire!Seal(key, Wire!getMessageAd(message), message.content)
  BY DEF Wire!convertNewMessageToApi, Wire!serializeMessage
<1>2. Wire!ParentTag(rows, row) = message.parentId
  BY <1>1, ParentFound
<1>3. /\ read.id = message.id /\ read.conversationId = message.conversationId
      /\ read.parentId = message.parentId /\ read.role = message.role
      /\ read.encrypted = Wire!Seal(key, Wire!getMessageAd(message), message.content)
  BY <1>1, <1>2, PrimaryRole DEF Wire!convertMessageFromApi
<1>4. Wire!Opened(key, Wire!getMessageAd(message), read.encrypted) = {message.content}
  BY <1>3 DEF Wire!Opened, Wire!Seal
<1>5. Wire!getMessageAd(read) = Wire!getMessageAd(message)
  BY <1>3 DEF Wire!getMessageAd
<1> HIDE DEF read
<1>6. Wire!deserializeMessage(key, read) = {message.content}
  BY <1>4, <1>5 DEF Wire!deserializeMessage
<1>7. Wire!LoadedMessage(key, read) = {message.content}
  BY <1>3, <1>4 DEF Wire!LoadedMessage, Wire!decryptMessage, Wire!getMessageAd
<1> QED
  BY <1>6, <1>7 DEF read

\* ConversationsReadable: a conversation's title, written by either, is read by the other.
THEOREM ConversationsReadable ==
  ASSUME NEW key, NEW title, NEW id, NEW spaceId
  PROVE  /\ Wire!deserializeConversation(key, Wire!syncConversation(key, title, id, spaceId), spaceId)
              = {title}
         /\ Wire!LoadedTitle(key, Wire!convertNewConversationToApi(
                               Wire!serializeConversation(key, id, spaceId, title)), spaceId)
              = {title}
BY DEF Wire!deserializeConversation, Wire!syncConversation, Wire!encryptConversation,
       Wire!getConversationAd, Wire!LoadedTitle, Wire!convertNewConversationToApi,
       Wire!serializeConversation, Wire!decryptConversation,
       Wire!Seal, Wire!Opened

\* SpacesReadable: whoever has the master key finds the project's name in a space created
\* by either, and its key with it (space-manager.ts:112-160, 166-203,
\* serialization.ts:140-204).
THEOREM SpacesReadable ==
  ASSUME NEW masterKey, NEW spaceKey, NEW id, NEW name
  PROVE  /\ Wire!deserializeSpace(masterKey, Wire!createSpace(masterKey, spaceKey, id, name)) = {name}
         /\ Wire!ProjectName(masterKey, Wire!convertNewSpaceToApi(
                                     Wire!serializeSpace(masterKey, spaceKey, id, name))) = {name}
<1> DEFINE made == Wire!createSpace(masterKey, spaceKey, id, name)
           sent == Wire!convertNewSpaceToApi(Wire!serializeSpace(masterKey, spaceKey, id, name))
<1>1. Wire!Unwrapped(masterKey, made.SpaceKey) = {spaceKey}
  BY DEF Wire!createSpace, Wire!Wrap, Wire!Unwrapped
<1>2. Wire!Opened(Wire!deriveDataEncryptionKey(spaceKey), Wire!getSpaceAd(made.SpaceTag),
                  made.Encrypted) = {name}
  BY DEF Wire!createSpace, Wire!encryptSpace, Wire!getSpaceAd, Wire!Opened, Wire!Seal
<1>3. Wire!deserializeSpace(masterKey, made) = {name}
  BY <1>1, <1>2 DEF Wire!deserializeSpace
<1>4. Wire!Unwrapped(masterKey, sent.SpaceKey) = {spaceKey}
  BY DEF Wire!convertNewSpaceToApi, Wire!serializeSpace, Wire!Wrap, Wire!Unwrapped
<1>5. Wire!decryptSpace(Wire!deriveDataEncryptionKey(spaceKey), sent.Encrypted, sent.SpaceTag) = {name}
  BY DEF Wire!convertNewSpaceToApi, Wire!serializeSpace, Wire!getSpaceAd, Wire!decryptSpace,
         Wire!Opened, Wire!Seal
<1>6. Wire!ProjectName(masterKey, sent) = {name}
  BY <1>4, <1>5 DEF Wire!ProjectName
<1> QED
  BY <1>3, <1>6

(* What is listed with the key of its project, under a parent of it, can be read *)

LEMMA RemoteIdsDiffer ==
    ASSUME NEW space \in Nat, NEW m \in Nat \ {0}, NEW n \in Nat \ {0}
    PROVE  /\ RemoteId(space, m) # None /\ RemoteId(space, None) = None
           /\ RemoteId(space, m) = RemoteId(space, n) => m = n
<1> DEFINE base == space * (MaxMessages + 1)
<1>1. base \in Nat
  BY SyncAssumption DEF Store!StoreAssumption
<1>2. RemoteId(space, m) = base + m /\ RemoteId(space, n) = base + n
  BY DEF RemoteId, None
<1>3. RemoteId(space, None) = None
  BY DEF RemoteId
<1> HIDE DEF base
<1> QED  BY <1>1, <1>2, <1>3 DEF None

\* The messages of a listing: what the codec's theorem needs of them.
LEMMA ListingOK ==
    ASSUME SyncOK, KeyOK, NEW msg \in remote.messages, Whole(msg)
    PROVE  LET rows == Listing(msg.space, Conversation(msg.id))
           IN  /\ MessageRow(msg) \in rows /\ Identified(rows)
               /\ ParentIn(rows, msg.parent, RemoteId(msg.space, msg.parent))
               /\ RoleOf(msg.id) \in Wire!Role
<1> DEFINE space == msg.space
           id == Conversation(msg.id)
<1>1. ASSUME NEW m \in remote.messages
      PROVE  /\ m.space \in Nat /\ m.id \in Nat \ {0}
             /\ m.parent # None => Conversation(m.parent) = Conversation(m.id)
  <2>1. m.space \in Nat /\ m.id \in DOMAIN store.messages /\ OfOne(store, m)
    BY DEF SyncOK, ServerOK, RemoteType, KeyOK, ListedOK
  <2>2. DOMAIN store.messages \subseteq Nat \ {0}
    BY StoreParts DEF SyncOK
  <2> QED  BY <2>1, <2>2 DEF OfOne, Conversation
<1>2. ASSUME NEW m \in remote.messages
      PROVE  MessageRow(m).ID = RemoteId(m.space, m.id) /\ MessageRow(m).MessageTag = m.id
  BY DEF MessageRow, Wire!syncMessage, Content
<1>3. \A m, n \in remote.messages : m.space = n.space /\ m.id = n.id => m = n
  BY DEF KeyOK, ListedOK
<1>4. Identified(Listing(space, id))
  <2>1. ASSUME NEW a \in Listing(space, id), NEW b \in Listing(space, id), a.ID = b.ID
        PROVE  a = b
    <3>1. PICK m \in remote.messages : a = MessageRow(m) /\ m.space = space
      BY DEF Listing
    <3>2. PICK n \in remote.messages : b = MessageRow(n) /\ n.space = space
      BY DEF Listing
    <3>3. m.id = n.id
      BY <1>1, <1>2, <2>1, <3>1, <3>2, RemoteIdsDiffer
    <3> QED  BY <1>3, <3>1, <3>2, <3>3
  <2>2. ASSUME NEW a \in Listing(space, id) PROVE a.ID # 0
    <3>1. PICK m \in remote.messages : a = MessageRow(m)
      BY DEF Listing
    <3> QED  BY <1>1, <1>2, <3>1, RemoteIdsDiffer DEF None
  <2> QED  BY <2>1, <2>2 DEF Identified
<1>5. ASSUME NEW m \in remote.messages, m.space = space, Conversation(m.id) = id
      PROVE  MessageRow(m) \in Listing(space, id)
  BY <1>5 DEF Listing
<1>6. ParentIn(Listing(space, id), msg.parent, RemoteId(space, msg.parent))
  <2>1. CASE msg.parent = None
    BY <2>1 DEF ParentIn, RemoteId, None
  <2>2. CASE msg.parent # None
    <3>1. PICK other \in remote.messages : other.id = msg.parent /\ other.space = space
      BY <2>2 DEF Whole
    <3>2. Conversation(other.id) = id
      BY <1>1, <2>2, <3>1
    <3>3. MessageRow(other) \in Listing(space, id)
      BY <1>5, <3>1, <3>2
    <3> QED  BY <1>2, <3>1, <3>3 DEF ParentIn
  <2> QED  BY <2>1, <2>2
<1>7. RoleOf(msg.id) \in Wire!Role
  BY DEF RoleOf, Wire!Role
<1> QED  BY <1>4, <1>5, <1>6, <1>7

LEMMA TitlesRead ==
    ASSUME NEW conv, OfProject(conv)
    PROVE  LET key == Wire!deriveDataEncryptionKey(conv.space)
               row == ConversationRow(conv)
           IN  /\ Wire!deserializeConversation(key, row, conv.space) = {conv.title}
               /\ Wire!LoadedTitle(key, row, conv.space) = {conv.title}
<1>1. conv.key = conv.space
  BY DEF OfProject
<1> QED
  BY <1>1 DEF ConversationRow, Wire!deserializeConversation, Wire!syncConversation,
     Wire!encryptConversation, Wire!getConversationAd, Wire!LoadedTitle,
     Wire!decryptConversation, Wire!Seal, Wire!Opened

LEMMA MessagesRead ==
    ASSUME SyncOK, KeyOK, NEW msg \in remote.messages, Whole(msg)
    PROVE  LET key == Wire!deriveDataEncryptionKey(msg.space)
               written == {Wire!messagePrivate(Content(msg.id))}
           IN  /\ Wire!deserializeMessage(key, Listed(msg)) = written
               /\ Wire!LoadedMessage(key, Listed(msg)) = written
<1> DEFINE id == Conversation(msg.id)
           rows == Listing(msg.space, id)
           row == MessageRow(msg)
           key == Wire!deriveDataEncryptionKey(msg.space)
           message == Content(msg.id)
           tag == RemoteId(msg.space, msg.parent)
           remoteId == RemoteId(msg.space, msg.id)
           read == Listed(msg)
<1>1. row = Wire!syncMessage(key, message, msg.parent, tag, remoteId)
  BY DEF MessageRow, Whole, OfProject
<1>2. /\ row \in rows /\ Identified(rows) /\ ParentIn(rows, msg.parent, tag)
      /\ message.role \in Wire!Role /\ message.conversationId = id
  BY ListingOK DEF Content
<1>3. read = Wire!convertMessageFromApi(row, message.conversationId, Wire!ParentTag(rows, row))
  BY <1>2 DEF Listed
<1> HIDE DEF rows, row, key, message, tag, remoteId, id, read
<1>4. /\ Wire!deserializeMessage(key, read) = {Wire!messagePrivate(message)}
      /\ Wire!LoadedMessage(key, read) = {Wire!messagePrivate(message)}
  BY <1>1, <1>2, <1>3, RowRead
<1> QED  BY <1>4 DEF key, message, read

\* With one project all that is there is of it.
LEMMA AllOfOneProject ==
    ASSUME SyncOK, KeyOK, Cardinality(remote.spaces) <= 1
    PROVE  /\ \A conv \in remote.conversations : OfProject(conv)
           /\ \A msg \in remote.messages : Whole(msg)
<1>1. \A a, b \in remote.spaces : a = b
  <2>1. IsFiniteSet(remote.spaces) /\ Cardinality(remote.spaces) \in Nat
    BY CardinalitiesAreNat DEF SyncOK, ServerOK
  <2>2. Cardinality(remote.spaces) = 0 \/ Cardinality(remote.spaces) = 1
    BY <2>1
  <2>3. remote.spaces = {} \/ \E a : remote.spaces = {a}
    BY <2>1, <2>2, FS_EmptySet, FS_Singleton
  <2> QED  BY <2>3
<1>2. ListedOK(store, remote) /\ ServerOK(store, remote)
  BY DEF KeyOK, SyncOK
<1>3. \A conv \in remote.conversations : OfProject(conv)
  BY <1>1, <1>2 DEF ListedOK, OfProject
<1>4. ASSUME NEW msg \in remote.messages PROVE Whole(msg)
  <2>1. OfProject(msg)
    BY <1>1, <1>2 DEF ListedOK, OfProject
  <2>2. msg.parent # None => \E other \in remote.messages : other.id = msg.parent
    BY <1>2 DEF ServerOK, Uploaded
  <2>3. \A other \in remote.messages : other.space = msg.space
    BY <1>1, <1>2 DEF ListedOK
  <2> QED  BY <2>1, <2>2, <2>3 DEF Whole
<1> QED  BY <1>3, <1>4

\* Readable: whichever requests are refused or lose their answer, wherever the process crashes
\* and however many /save commands run beside auto-sync, what is on the server under the key
\* of its project and under a parent of its project can be read, and while there is one
\* project that is everything: the space that a conversation is mapped to, the one whose key
\* encrypts and the one the reader lists are the same, and the parent in the associated data
\* of a message is the parent that the listing names (encryption-codec.ts:7, 144-188;
\* sync-service.ts:44-58, 184, 248-280; space-manager.ts:142-146, 199-203).
THEOREM EverythingIsReadable == Spec => []Readable
<1>1. Init => KeyOK
  BY KeyInit
<1>2. SyncOK /\ KeyOK /\ [Next]_vars => KeyOK'
  BY KeyStep
<1>3. SyncOK /\ KeyOK => Readable
  BY TitlesRead, MessagesRead, AllOfOneProject DEF Readable
<1> QED  BY <1>1, <1>2, <1>3, SyncAlways, PTL DEF Spec
=============================================================================
