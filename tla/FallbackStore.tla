----------------------------- MODULE FallbackStore -----------------------------
(***************************************************************************)
(* FallbackStore (src/conversations/fallback/store.ts): the in-memory LRU  *)
(* cache of conversations.                                                 *)
(*                                                                         *)
(* A ConversationState is an object that callers keep a reference to while *)
(* the Map may drop it, or hold another object for the same id; so states  *)
(* and messages live in heaps and the Map holds references.  Message and   *)
(* title texts are abstracted; which incoming messages are new is the      *)
(* result of deduplication and is an input here.                           *)
(***************************************************************************)
EXTENDS Integers, Sequences, FiniteSetsExt

CONSTANTS
  ConversationId,
  Title,             \* conversation titles
  DefaultTitle,      \* 'New Conversation'
  MaxConversations,  \* MAX_CONVERSATIONS
  MaxStates,         \* bound: conversation states ever created
  MaxMessages        \* bound: messages ever created

ASSUME StoreAssumption ==
  /\ DefaultTitle \in Title
  /\ MaxConversations \in Nat /\ MaxConversations >= 2
  /\ MaxStates \in Nat /\ MaxMessages \in Nat

Absent == 0          \* no reference

VARIABLE store

State == [id : ConversationId, title : Title, messages : Seq(1 .. MaxMessages),
          dirty : BOOLEAN]
Message == [conversation : ConversationId, parent : 0 .. MaxMessages]

\* TypeOK: the store's maps and heaps have their types.
TypeOK ==
  /\ store.conversations \in [ConversationId -> 0 .. MaxStates]
  /\ store.accessOrder \in Seq(ConversationId)
  /\ store.states \in Seq(State) /\ Len(store.states) <= MaxStates
  /\ store.messages \in Seq(Message) /\ Len(store.messages) <= MaxMessages

EmptyStore ==
  [conversations |-> [id \in ConversationId |-> Absent], accessOrder |-> <<>>,
   states |-> <<>>, messages |-> <<>>]

Init == store = EmptyStore
-------------------------------------------------------------------------------
(***************************************************************************)
(* The operations, as functions of the store.                              *)
(***************************************************************************)
has(s, id) == s.conversations[id] # Absent
Live(s) == {id \in ConversationId : has(s, id)}
Current(s, id) == s.states[s.conversations[id]]
IsDirty(s, id) == has(s, id) /\ Current(s, id).dirty
getDirty(s) == {id \in ConversationId : IsDirty(s, id)}
LastOf(seq) == IF seq = <<>> THEN 0 ELSE seq[Len(seq)]

\* A list that has id at most once, without it.
Without(order, id) ==
  LET at == CHOOSE i \in DOMAIN order : order[i] = id
  IN  IF \A i \in DOMAIN order : order[i] # id THEN order
      ELSE SubSeq(order, 1, at - 1) \o SubSeq(order, at + 1, Len(order))

touchLRU(s, id) == [s EXCEPT !.accessOrder = Append(Without(@, id), id)]

\* The entry at position i leaves the Map; the entries before it were moved to
\* the end, one by one, on the way.
EvictAt(s, i) ==
  LET order == s.accessOrder
  IN  [s EXCEPT !.conversations[order[i]] = Absent,
                !.accessOrder = SubSeq(order, i + 1, Len(order)) \o SubSeq(order, 1, i - 1)]

CleanPositions(s) == {i \in DOMAIN s.accessOrder : ~IsDirty(s, s.accessOrder[i])}

\* Faulty variant: the least recently used conversation goes, dirty or not.
Evict_Head(s) == EvictAt(s, 1)

\* Faulty variant: when all are dirty, the most recently used one is forced out.
Evict_Newest(s) ==
  LET clean == CleanPositions(s)
  IN  EvictAt(s, IF clean = {} THEN Len(s.accessOrder) ELSE Min(clean))

\* The least recently used clean conversation goes.  When all are dirty, the head
\* is moved to the end and then the next one is forced out.
Evict(s) ==
  LET clean == CleanPositions(s)
  IN  EvictAt(s, IF clean = {} THEN 2 ELSE Min(clean))

evictIfNeeded(s) == IF Cardinality(Live(s)) <= MaxConversations THEN s ELSE Evict(s)

createEmptyState(id) ==
  [id |-> id, title |-> DefaultTitle, messages |-> <<>>, dirty |-> TRUE]

\* The state object getOrCreate(id) returns.
RefFor(s, id) == IF has(s, id) THEN s.conversations[id] ELSE Len(s.states) + 1

\* A new state is dirty, but nothing is notified of it.
getOrCreate(s, id) ==
  LET created == [s EXCEPT !.states = Append(@, createEmptyState(id)),
                           !.conversations[id] = Len(s.states) + 1]
  IN  evictIfNeeded(touchLRU(IF has(s, id) THEN s ELSE created, id))

get(s, id) == IF has(s, id) THEN touchLRU(s, id) ELSE s

markDirty(s, ref) == [s EXCEPT !.states[ref].dirty = TRUE]

\* Push n new messages, each chained to the one before it.
PushAll(s, ref, n) ==
  LET state == s.states[ref]
      last == Len(s.messages)
      parent(k) == IF k = 1 THEN LastOf(state.messages) ELSE last + k - 1
  IN  [s EXCEPT !.messages = @ \o [k \in 1 .. n |->
                  [conversation |-> state.id, parent |-> parent(k)]],
                !.states[ref].messages = @ \o [k \in 1 .. n |-> last + k]]

\* appendMessages() with n messages that are new.
appendMessages(s, id, n) ==
  LET ref == RefFor(s, id)
      cached == getOrCreate(s, id)
  IN  IF n = 0 THEN cached ELSE markDirty(PushAll(cached, ref, n), ref)

\* appendAssistantResponse() and appendUserMessage(): one message, unconditionally.
appendOne(s, id) == appendMessages(s, id, 1)

setTitle(s, id, title) ==
  IF has(s, id)
  THEN markDirty([get(s, id) EXCEPT !.states[s.conversations[id]].title = title],
                 s.conversations[id])
  ELSE s

createFromTurns(s, id, n, title) ==
  setTitle(appendMessages(getOrCreate(s, id), id, n), id, title)

markSynced(s, id) ==
  IF has(s, id) THEN [s EXCEPT !.states[s.conversations[id]].dirty = FALSE] ELSE s

markDirtyById(s, id) == IF has(s, id) THEN markDirty(s, s.conversations[id]) ELSE s

\* Faulty variant: the LRU list is not told.
deleteConversation_ListKept(s, id) ==
  IF has(s, id) THEN [s EXCEPT !.conversations[id] = Absent] ELSE s

deleteConversation(s, id) ==
  IF has(s, id)
  THEN [s EXCEPT !.conversations[id] = Absent,
                 !.accessOrder = Without(@, id)]
  ELSE s
-------------------------------------------------------------------------------
(***************************************************************************)
(* The store driven by arbitrary calls.                                    *)
(***************************************************************************)
\* Bounds: room for one more state and for n more messages.
Room(id, n) ==
  /\ has(store, id) \/ Len(store.states) < MaxStates
  /\ Len(store.messages) + n <= MaxMessages

\* Deduplication finds nothing new only against a conversation that has messages.
AppendMessages(id, n) ==
  /\ Room(id, n)
  /\ n = 0 => has(store, id) /\ Current(store, id).messages # <<>>
  /\ store' = appendMessages(store, id, n)

AppendOne(id) == Room(id, 1) /\ store' = appendOne(store, id)

SetTitle(id, title) == store' = setTitle(store, id, title)

CreateFromTurns(id, n, title) ==
  /\ Room(id, n)
  /\ n = 0 => has(store, id) /\ Current(store, id).messages # <<>>
  /\ store' = createFromTurns(store, id, n, title)

Get(id) == store' = get(store, id)
MarkSynced(id) == store' = markSynced(store, id)
MarkDirtyById(id) == store' = markDirtyById(store, id)
Delete(id) == store' = deleteConversation(store, id)

Next ==
  \E id \in ConversationId :
    \/ \E n \in 0 .. 2 : AppendMessages(id, n)
    \/ AppendOne(id)
    \/ \E title \in Title : SetTitle(id, title)
    \/ \E n \in 0 .. 2, title \in Title : CreateFromTurns(id, n, title)
    \/ Get(id)
    \/ MarkSynced(id)
    \/ MarkDirtyById(id)
    \/ Delete(id)

Spec == Init /\ [][Next]_store
-------------------------------------------------------------------------------
(***************************************************************************)
(* Properties.                                                             *)
(***************************************************************************)
\* OrderMatchesMap: the LRU list holds exactly the ids of the Map, each once.
\* (Eviction, touching and deletion each edit the Map and the list separately,
\* store.ts:378-385, 464-503.)
OrderMatchesMap ==
  /\ {store.accessOrder[i] : i \in DOMAIN store.accessOrder} = Live(store)
  /\ \A i, j \in DOMAIN store.accessOrder :
        store.accessOrder[i] = store.accessOrder[j] => i = j

\* The while loop of evictIfNeeded(), turn by turn, as the reference for the closed
\* form: run.store is the store so far, run.left says that the loop was left by break.
Goes(run) == ~run.left /\ Cardinality(Live(run.store)) > MaxConversations

Turn(run) ==
  LET s == run.store
      first == Head(s.accessOrder)
      moved == Append(Tail(s.accessOrder), first)
  IN  IF ~IsDirty(s, first)
      THEN [run EXCEPT !.store = [s EXCEPT !.conversations[first] = Absent,
                                           !.accessOrder = Tail(@)]]
      ELSE IF \A i \in DOMAIN moved : IsDirty(s, moved[i])
      THEN [store |-> [s EXCEPT !.conversations[Head(moved)] = Absent,
                                !.accessOrder = Tail(moved)],
            left |-> TRUE]
      ELSE [run EXCEPT !.store = [s EXCEPT !.accessOrder = moved]]

\* The loop from the store s: what one turn for each entry of the list makes of it.
EvictionLoop(s) ==
  LET after[n \in 0 .. Len(s.accessOrder)] ==
        IF n = 0 THEN [store |-> s, left |-> FALSE]
        ELSE IF Goes(after[n - 1]) THEN Turn(after[n - 1]) ELSE after[n - 1]
  IN  after[Len(s.accessOrder)]

\* EvictsAsTheLoop: on every store that getOrCreate() can hand to it, the loop of the
\* code ends within one turn of the list, and evictIfNeeded does what it does
\* (store.ts:474-503).
EvictsAsTheLoop ==
  \A id \in ConversationId \ Live(store) :
    Len(store.states) < MaxStates =>
      LET grown == touchLRU([store EXCEPT !.states = Append(@, createEmptyState(id)),
                                          !.conversations[id] = Len(store.states) + 1], id)
      IN  /\ ~Goes(EvictionLoop(grown))
          /\ EvictionLoop(grown).store = evictIfNeeded(grown)

\* DirtyEvictedLast: a dirty conversation leaves the Map, other than by delete(),
\* only when every conversation in the Map is dirty (store.ts:479-496).
DirtyEvictedLast ==
  [][\A id \in ConversationId :
       IsDirty(store, id) /\ ~has(store', id) /\ ~Delete(id)
         => Live(store) = getDirty(store)]_store

\* CreatedStays: the state a call creates and goes on to change is the one the Map
\* holds when the call returns; eviction makes room with another one, however
\* many entries it rotates past (store.ts:67-81, 474-503).
CreatedStays ==
  [][\A ref \in DOMAIN store'.states \ DOMAIN store.states :
       store'.conversations[store'.states[ref].id] = ref]_store
===============================================================================
