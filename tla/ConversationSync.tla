---------------------------- MODULE ConversationSync ----------------------------
(***************************************************************************)
(* The fallback persistence pipeline: FallbackStore, AutoSyncService,      *)
(* SyncService and SpaceManager, composed with the Lumo API.               *)
(*                                                                         *)
(* One step of a call runs to its next request to the API: Node runs it    *)
(* without interruption, and everything else may happen before the answer  *)
(* is handled.  What a request carries is read from the store when the     *)
(* step that sends it runs (the encryption awaited before the request only *)
(* makes the request later).  Time is abstracted: a timer that is set may  *)
(* fire at any moment.                                                     *)
(***************************************************************************)
EXTENDS Integers, Sequences, FiniteSetsExt

CONSTANTS
  ConversationId, Title, DefaultTitle, MaxConversations, MaxStates, MaxMessages,
  AutoCall,          \* the call of sync() that executeSync() makes
  SaveCalls,         \* calls of syncById() by concurrent /save commands
  Faults,            \* how a request may fail: {"refused", "lost"}
  StartOutcomes,     \* how the space lookup at startup may end: {"ready", "failed"}
  MayRestart,        \* whether the process may crash and start again
  Answers,           \* the messages that are the assistant's; the others are the user's
  MaxSpaces          \* bound: spaces ever created on the server

Calls == {AutoCall} \cup SaveCalls

VARIABLES
  store,             \* FallbackStore
  debounceTimer, maxDelayTimer, sinceLastSync,                       \* AutoSyncService
  pendingSync, isSyncing, firstDirty,
  service,           \* SyncService and SpaceManager
  call,              \* the calls of sync() and syncById() in progress
  remote             \* the Lumo API's spaces, conversations and messages

Store == INSTANCE FallbackStore
Scheduler == INSTANCE AutoSyncService WITH
          DEBOUNCE_MS <- 0, MIN_INTERVAL_MS <- 0, MAX_DELAY_MS <- 0

\* What is sent to the server and what a reader makes of it.
Wire == INSTANCE Codec WITH Absent <- 0

ASSUME SyncAssumption ==
  /\ Store!StoreAssumption
  /\ AutoCall \notin SaveCalls /\ IsFiniteSet(SaveCalls)
  /\ MaxSpaces \in Nat
  /\ Answers \subseteq 1 .. MaxMessages

autoVars ==
  <<debounceTimer, maxDelayTimer, sinceLastSync, pendingSync, isSyncing, firstDirty>>
vars == <<store, autoVars, service, call, remote>>

None == 0            \* no space, no conversation, no message

Request == [title : Title, message : 0 .. MaxMessages, parent : 0 .. MaxMessages,
            key : 0 .. MaxSpaces, update : BOOLEAN]
Reply == [status : {"none", "ok", "conflict", "error"}, space : 0 .. MaxSpaces]
Call == [pc : {"idle", "list", "create", "conversation", "message"},
         ref : 0 .. MaxStates, todo : SUBSET (1 .. MaxStates),
         space : 0 .. MaxSpaces, target : 0 .. MaxSpaces, from : Nat,
         sent : Request, reply : Reply, failed : BOOLEAN]
RemoteConversation == [space : 1 .. MaxSpaces, id : ConversationId, title : Title,
                       key : 1 .. MaxSpaces]
RemoteMessage == [space : 1 .. MaxSpaces, id : 1 .. MaxMessages,
                  parent : 0 .. MaxMessages, key : 1 .. MaxSpaces]

\* TypeOK: every component's state has its type.
TypeOK ==
  /\ Store!TypeOK
  /\ Scheduler!TimersOK /\ Scheduler!FlagsOK
  /\ service \in [space : 0 .. MaxSpaces, conversations : [ConversationId -> 0 .. MaxSpaces],
                  messages : SUBSET (1 .. MaxMessages)]
  /\ call \in [Calls -> Call]
  /\ remote.spaces \subseteq 1 .. MaxSpaces
  /\ remote.conversations \subseteq RemoteConversation
  /\ remote.messages \subseteq RemoteMessage

NoRequest == [title |-> DefaultTitle, message |-> None, parent |-> None,
              key |-> None, update |-> FALSE]
NoReply == [status |-> "none", space |-> None]
IdleCall == [pc |-> "idle", ref |-> Store!Absent, todo |-> {}, space |-> None,
             target |-> None, from |-> 1, sent |-> NoRequest, reply |-> NoReply,
             failed |-> FALSE]
EmptyRemote == [spaces |-> {}, conversations |-> {}, messages |-> {}]

WithSpace(r) == [r EXCEPT !.spaces = @ \cup {Cardinality(@) + 1}]

\* initializeSync(): look the project's space up, or create it, before auto-sync
\* is enabled; an error is only logged.  The result: the cached space and the server.
Startups(r) ==
     (IF "ready" \notin StartOutcomes THEN {}
      ELSE IF r.spaces # {} THEN {<<space, r>> : space \in r.spaces}
      ELSE {<<Cardinality(r.spaces) + 1, WithSpace(r)>>})
\cup (IF "failed" \notin StartOutcomes THEN {}
      ELSE {<<None, r>>} \cup (IF r.spaces = {} THEN {<<None, WithSpace(r)>>} ELSE {}))

NewService(space) ==
  [space |-> space, conversations |-> [id \in ConversationId |-> None], messages |-> {}]

\* A process that has started: an empty store, no mappings, nothing scheduled.
Init ==
  /\ Store!Init
  /\ Scheduler!NewScheduler
  /\ \E startup \in Startups(EmptyRemote) :
        service = NewService(startup[1]) /\ remote = startup[2]
  /\ call = [c \in Calls |-> IdleCall]
-------------------------------------------------------------------------------
(***************************************************************************)
(* Requests of the application.  markDirty() calls autoSync.notifyDirty(). *)
(***************************************************************************)
onDirty == Scheduler!notifyDirty

AppendMessages(id, n) ==
  /\ Store!AppendMessages(id, n)
  /\ IF n > 0 THEN onDirty ELSE UNCHANGED autoVars
  /\ UNCHANGED <<service, call, remote>>

SetTitle(id, title) ==
  /\ Store!has(store, id)
  /\ Store!SetTitle(id, title)
  /\ onDirty
  /\ UNCHANGED <<service, call, remote>>
-------------------------------------------------------------------------------
(***************************************************************************)
(* Steps of sync() and syncById(), as functions of the part of the state   *)
(* they change: w.store, w.service and w.call, the call's own state.       *)
(***************************************************************************)
World(c) == [store |-> store, service |-> service, call |-> call[c]]
StateOf(w) == w.store.states[w.call.ref]
Idle(w) == [w EXCEPT !.call = [IdleCall EXCEPT !.failed = w.call.failed]]

Send(w, pc, sent) ==
  [w EXCEPT !.call.pc = pc, !.call.sent = sent, !.call.reply = NoReply]

\* Faulty variant: the conversation is mapped when it is sent, not when it is created.
PushConversation_MappedEarly(w, ref) ==
  LET state == w.store.states[ref]
      mapped == w.service.conversations[state.id]
  IN  Send([w EXCEPT !.call.ref = ref, !.call.from = 1, !.call.target = w.call.space,
                     !.service.conversations[state.id] = w.call.space],
           "conversation",
           [NoRequest EXCEPT !.title = state.title, !.key = w.service.space,
                             !.update = mapped # None])

\* syncConversation(): create the conversation, or update it when it is mapped.
PushConversation(w, ref) ==
  LET state == w.store.states[ref]
      mapped == w.service.conversations[state.id]
  IN  Send([w EXCEPT !.call.ref = ref, !.call.from = 1,
                     !.call.target = IF mapped # None THEN mapped ELSE w.call.space],
           "conversation",
           [NoRequest EXCEPT !.title = state.title, !.key = w.service.space,
                             !.update = mapped # None])

\* Faulty variant: the parent is the message mapped last, of any conversation.
SyncedParent_Latest(w, message) ==
  IF w.service.messages = {} THEN None ELSE Max(w.service.messages)

\* findSyncedParent(): the nearest ancestor, of those in the conversation, that is mapped.
SyncedParent(w, message) ==
  LET parent(m) == w.store.messages[m].parent
      messageMap == {StateOf(w).messages[i] : i \in DOMAIN StateOf(w).messages}
      synced[m \in messageMap \cup {None}] ==
        IF m = None \/ m \in w.service.messages THEN m ELSE synced[parent(m)]
  IN  synced[parent(message)]

\* sync(): the next conversation of the snapshot, which has the order of the Map, that
\* in which the states were created.  syncById() has only one.
PushNext(c, w) ==
  LET next == Min(w.call.todo)
  IN  IF c # AutoCall \/ w.call.todo = {} THEN Idle(w)
      ELSE PushConversation([w EXCEPT !.call.todo = @ \ {next}], next)

\* All of a conversation is sent: sync() marks it synced, syncById() had done so before.
Pushed(c, w) ==
  PushNext(c, IF c = AutoCall
              THEN [w EXCEPT !.store = Store!markSynced(@, StateOf(w).id)] ELSE w)

\* Faulty variant: syncById() does not mark the conversation dirty again.
NotPushed_NotRestored(c, w) == PushNext(c, [w EXCEPT !.call.failed = TRUE])

\* A request failed: sync() logs it and goes on, syncById() marks dirty and throws.
NotPushed(c, w) ==
  PushNext(c, IF c = AutoCall THEN [w EXCEPT !.call.failed = TRUE]
              ELSE [w EXCEPT !.store = Store!markDirtyById(@, StateOf(w).id)])

\* The message loop iterates over the live array, so it meets messages pushed since
\* it began; mapped messages are skipped.
PushMessages(c, w) ==
  LET messages == StateOf(w).messages
      left == {i \in w.call.from .. Len(messages) : messages[i] \notin w.service.messages}
      next == Min(left)
  IN  IF left = {} THEN Pushed(c, w)
      ELSE Send([w EXCEPT !.call.from = next + 1], "message",
                [NoRequest EXCEPT !.message = messages[next],
                                  !.parent = SyncedParent(w, messages[next]),
                                  !.key = w.service.space])

\* The space is known: sync() takes the snapshot of dirty conversations,
\* syncById() marks its conversation synced early.
PushAll(c, w) ==
  IF c = AutoCall
  THEN LET dirty == {w.store.conversations[id] : id \in Store!getDirty(w.store)}
       IN  PushNext(c, [w EXCEPT !.call.todo = dirty])
  ELSE PushConversation([w EXCEPT !.store = Store!markSynced(@, StateOf(w).id)], w.call.ref)

\* getOrCreateSpace(): a cached space is used at once, otherwise the spaces are listed.
GetOrCreateSpace(c, w) ==
  IF w.service.space # None THEN PushAll(c, [w EXCEPT !.call.space = w.service.space])
  ELSE Send(w, "list", NoRequest)

Commit(c, w) ==
  /\ store' = w.store /\ service' = w.service
  /\ call' = [call EXCEPT ![c] = w.call]
  /\ UNCHANGED remote

\* AutoSync after a step of its call: executeSync() ends when sync() does.
AutoAfter(c, w, ok) ==
  IF c = AutoCall /\ w.call.pc = "idle"
  THEN IF ok THEN Scheduler!syncResolved ELSE Scheduler!syncRejected
  ELSE UNCHANGED autoVars
-------------------------------------------------------------------------------
(***************************************************************************)
(* Where calls begin.                                                      *)
(***************************************************************************)
\* A timer fires; executeSync() begins a sync unless one is running.
TimerFires ==
  /\ Scheduler!onDebounceTimer \/ Scheduler!onMaxDelayTimer
  /\ IF isSyncing' = isSyncing
     THEN UNCHANGED <<store, service, call, remote>>
     ELSE LET w == GetOrCreateSpace(AutoCall, [World(AutoCall) EXCEPT !.call = IdleCall])
          IN  Commit(AutoCall, w)

\* /save: the store as the command leaves it, then syncById().
BeginSave(c, id, saved) ==
  LET found == Store!get(saved, id)
      w == [World(c) EXCEPT !.store = found,
                            !.call = [IdleCall EXCEPT !.ref = found.conversations[id]]]
  IN  Commit(c, IF Store!IsDirty(found, id) THEN GetOrCreateSpace(c, w)
                ELSE [w EXCEPT !.call = IdleCall])

Save(c, id) ==
  /\ call[c].pc = "idle"
  /\ BeginSave(c, id, store)
  /\ UNCHANGED autoVars

SaveWithTitle(c, id, title) ==
  /\ call[c].pc = "idle" /\ Store!has(store, id)
  /\ BeginSave(c, id, Store!setTitle(store, id, title))
  /\ onDirty

SaveTurns(c, id, n, title) ==
  /\ call[c].pc = "idle" /\ Store!Room(id, n)
  /\ n = 0 => Store!has(store, id) /\ Store!Current(store, id).messages # <<>>
  /\ BeginSave(c, id, Store!createFromTurns(store, id, n, title))
  /\ onDirty
-------------------------------------------------------------------------------
(***************************************************************************)
(* The server handles a request.  A fault is a request refused without     *)
(* effect or an answer lost after it; a conversation or a message whose    *)
(* tag exists is answered with 409.                                        *)
(***************************************************************************)
Answer(c, status, space) ==
  call' = [call EXCEPT ![c].reply = [status |-> status, space |-> space]]

\* The effect of the request took place; the answer arrives or is lost.
Done(c, space) ==
  \/ Answer(c, "ok", space)
  \/ "lost" \in Faults /\ Answer(c, "error", None)

Waiting(c, pc) == call[c].pc = pc /\ call[c].reply.status = "none"
Unaffected == UNCHANGED <<store, autoVars, service>>

ServeList(c) ==
  /\ Waiting(c, "list")
  /\ IF remote.spaces = {} THEN Done(c, None)
     ELSE \E space \in remote.spaces : Done(c, space)
  /\ Unaffected /\ UNCHANGED remote

ServeCreate(c) ==
  /\ Waiting(c, "create") /\ Cardinality(remote.spaces) < MaxSpaces
  /\ remote' = WithSpace(remote)
  /\ Done(c, Cardinality(remote.spaces) + 1)
  /\ Unaffected

ServeConversation(c) ==
  LET request == call[c].sent
      id == store.states[call[c].ref].id
      there == {conv \in remote.conversations : conv.space = call[c].target /\ conv.id = id}
  IN  /\ Waiting(c, "conversation")
      /\ IF there # {} /\ ~request.update
         THEN Answer(c, "conflict", None) /\ UNCHANGED remote
         ELSE /\ remote' = [remote EXCEPT !.conversations =
                   (@ \ there) \cup {[space |-> call[c].target, id |-> id,
                                      title |-> request.title, key |-> request.key]}]
              /\ Done(c, None)
      /\ Unaffected

ServeMessage(c) ==
  LET request == call[c].sent
  IN  /\ Waiting(c, "message")
      /\ IF \E msg \in remote.messages :
              msg.space = call[c].target /\ msg.id = request.message
         THEN Answer(c, "conflict", None) /\ UNCHANGED remote
         ELSE /\ remote' = [remote EXCEPT !.messages = @ \cup
                   {[space |-> call[c].target, id |-> request.message,
                     parent |-> request.parent, key |-> request.key]}]
              /\ Done(c, None)
      /\ Unaffected

Refuse(c) ==
  /\ "refused" \in Faults
  /\ call[c].pc # "idle" /\ call[c].reply.status = "none"
  /\ Answer(c, "error", None)
  /\ Unaffected /\ UNCHANGED remote
-------------------------------------------------------------------------------
(***************************************************************************)
(* A call handles the answer to its request.                               *)
(***************************************************************************)
Answered(c, pc) == call[c].pc = pc /\ call[c].reply.status # "none"

\* Faulty variant: a failed listing counts as an empty one.
SpacesListed_ErrorIsEmpty(c) ==
  LET reply == call[c].reply
      w == World(c)
  IN  /\ Answered(c, "list")
      /\ LET after == IF reply.space = None THEN Send(w, "create", NoRequest)
                      ELSE PushAll(c, [w EXCEPT !.service.space = reply.space,
                                                !.call.space = reply.space])
         IN  Commit(c, after) /\ AutoAfter(c, after, TRUE)

\* findSpaceByName(): use a space of the project's name, or create one.
SpacesListed(c) ==
  LET reply == call[c].reply
      w == World(c)
  IN  /\ Answered(c, "list") /\ reply.status = "ok"
      /\ LET after == IF reply.space = None THEN Send(w, "create", NoRequest)
                      ELSE PushAll(c, [w EXCEPT !.service.space = reply.space,
                                                !.call.space = reply.space])
         IN  Commit(c, after) /\ AutoAfter(c, after, TRUE)

\* Faulty variant: the new space is used by this call but not cached.
SpaceCreated_NotCached(c) ==
  LET reply == call[c].reply
      after == PushAll(c, [World(c) EXCEPT !.call.space = reply.space])
  IN  /\ Answered(c, "create") /\ reply.status = "ok"
      /\ Commit(c, after) /\ AutoAfter(c, after, TRUE)

\* createSpace(): cache the new space.
SpaceCreated(c) ==
  LET reply == call[c].reply
      after == PushAll(c, [World(c) EXCEPT !.service.space = reply.space,
                                           !.call.space = reply.space])
  IN  /\ Answered(c, "create") /\ reply.status = "ok"
      /\ Commit(c, after) /\ AutoAfter(c, after, TRUE)

\* No space: sync() or syncById() throws.
SpaceFailed(c) ==
  /\ Answered(c, "list") \/ Answered(c, "create")
  /\ call[c].reply.status # "ok"
  /\ Commit(c, Idle(World(c))) /\ AutoAfter(c, Idle(World(c)), FALSE)

ConversationSent(c) ==
  LET w == World(c)
      after == PushMessages(c, [w EXCEPT
                 !.service.conversations[StateOf(w).id] = w.call.target])
  IN  /\ Answered(c, "conversation") /\ w.call.reply.status = "ok"
      /\ Commit(c, after) /\ AutoAfter(c, after, TRUE)

MessageSent(c) ==
  LET w == World(c)
      after == PushMessages(c, [w EXCEPT !.service.messages = @ \cup {w.call.sent.message}])
  IN  /\ Answered(c, "message") /\ w.call.reply.status = "ok"
      /\ Commit(c, after) /\ AutoAfter(c, after, TRUE)

PushFailed(c) ==
  LET w == World(c)
      after == NotPushed(c, w)
  IN  /\ Answered(c, "conversation") \/ Answered(c, "message")
      /\ w.call.reply.status # "ok"
      /\ Commit(c, after)
      /\ IF c # AutoCall /\ Store!has(store, StateOf(w).id) THEN onDirty
         ELSE AutoAfter(c, after, TRUE)

\* The process crashes and starts again; the store and all mappings are in memory.
Restart ==
  /\ MayRestart
  /\ store' = [store EXCEPT !.conversations = Store!EmptyStore.conversations,
                            !.accessOrder = <<>>]
  /\ debounceTimer' = Scheduler!Off /\ maxDelayTimer' = Scheduler!Off /\ sinceLastSync' = 0
  /\ pendingSync' = FALSE /\ isSyncing' = FALSE /\ firstDirty' = FALSE
  /\ \E startup \in Startups(remote) :
        service' = NewService(startup[1]) /\ remote' = startup[2]
  /\ call' = [c \in Calls |-> IdleCall]
-------------------------------------------------------------------------------
Application ==
  \/ \E id \in ConversationId, n \in 0 .. 2 : AppendMessages(id, n)
  \/ \E id \in ConversationId, title \in Title : SetTitle(id, title)
  \/ \E c \in SaveCalls, id \in ConversationId :
       \/ Save(c, id)
       \/ \E title \in Title : SaveWithTitle(c, id, title)
       \/ \E title \in Title, n \in 0 .. 2 : SaveTurns(c, id, n, title)

Serve(c) == ServeList(c) \/ ServeCreate(c) \/ ServeConversation(c) \/ ServeMessage(c)

Resume(c) ==
  \/ SpacesListed(c) \/ SpaceCreated(c) \/ SpaceFailed(c)
  \/ ConversationSent(c) \/ MessageSent(c) \/ PushFailed(c)

Next ==
  \/ Application
  \/ TimerFires
  \/ \E c \in Calls : Serve(c) \/ Refuse(c) \/ Resume(c)
  \/ Restart

Spec == Init /\ [][Next]_vars
-------------------------------------------------------------------------------
(***************************************************************************)
(* Properties.                                                             *)
(***************************************************************************)
Conversation(m) == store.messages[m].conversation

\* MapsSound: whatever a local id is mapped to exists on the server, so a skipped
\* message or an update instead of a creation never leaves a gap there, whichever
\* requests failed, lost their answer or ran concurrently
\* (sync-service.ts:186, 207, 244, 286).
MapsSound ==
  /\ \A id \in ConversationId : service.conversations[id] # None =>
       \E conv \in remote.conversations :
          conv.id = id /\ conv.space = service.conversations[id]
  /\ \A m \in service.messages : \E msg \in remote.messages : msg.id = m

\* ParentFirst: a message is on the server only after its parent, and names it;
\* interrupted and concurrent pushes leave no hole in a thread
\* (sync-service.ts:44-58, 227-232, 257-280).
ParentFirst ==
  \A msg \in remote.messages :
    LET parent == store.messages[msg.id].parent
    IN  /\ msg.parent = parent
        /\ parent # None => \E other \in remote.messages : other.id = parent

\* A call is at work on the state ref: it will send more of it or mark it dirty.
Pushing(c, ref) ==
  call[c].pc \in {"conversation", "message"} /\ call[c].ref = ref

\* CleanUploaded: a conversation that is not dirty and that no call is pushing has
\* all its messages on the server.  (The dirty flag is the only record of unsaved
\* work; it is cleared without looking at what changed since the push began,
\* sync-service.ts:121-122, 160, 230; store.ts:404-410.)
CleanUploaded ==
  \A id \in Store!Live(store) :
    LET ref == store.conversations[id]
    IN  ~store.states[ref].dirty /\ ~(\E c \in Calls : Pushing(c, ref)) =>
          \A i \in DOMAIN store.states[ref].messages :
             \E msg \in remote.messages : msg.id = store.states[ref].messages[i]

\* The rows of the server, as the upload made them.
RemoteId(space, m) == IF m = None THEN None ELSE space * (MaxMessages + 1) + m
RoleOf(m) == IF m \in Answers THEN "assistant" ELSE "user"
Content(m) == [id |-> m, role |-> RoleOf(m), content |-> m,
               conversationId |-> Conversation(m)]
MessageRow(msg) ==
  Wire!syncMessage(Wire!deriveDataEncryptionKey(msg.key), Content(msg.id), msg.parent,
                   RemoteId(msg.space, msg.parent), RemoteId(msg.space, msg.id))
ConversationRow(conv) ==
  Wire!syncConversation(Wire!deriveDataEncryptionKey(conv.key), conv.title, conv.id, conv.key)
Listing(space, id) ==
  {MessageRow(msg) : msg \in {m \in remote.messages : m.space = space /\ Conversation(m.id) = id}}
Listed(msg) ==
  LET id == Conversation(msg.id)
      row == MessageRow(msg)
  IN  Wire!convertMessageFromApi(row, id, Wire!ParentTag(Listing(msg.space, id), row))

\* Of a project: sealed with its key and, of a message, under a parent that it has.
OfProject(row) == row.key = row.space
Whole(msg) ==
  /\ OfProject(msg)
  /\ msg.parent # None =>
       \E other \in remote.messages : other.id = msg.parent /\ other.space = msg.space

\* Readable: whoever lists a project can read what was uploaded to it, Proton's client and
\* /load alike: every tag, role and parent that is part of the associated data is the one the
\* reader rebuilds from what the server lists, whichever uploads were interrupted.  In any
\* number of projects of the name, and with any number of /save commands beside auto-sync, all
\* that is lost to a reader is what was sealed with the key of another project or whose
\* parent went to another one, and while there is one project that is nothing
\* (encryption-codec.ts:7 "AD format must match Lumo WebClient", sync-service.ts:44-58,
\* 184, 248-280; space-manager.ts:142-146, 199-203).
Readable ==
  /\ Cardinality(remote.spaces) <= 1 =>
       /\ \A conv \in remote.conversations : OfProject(conv)
       /\ \A msg \in remote.messages : Whole(msg)
  /\ \A conv \in remote.conversations : OfProject(conv) =>
       LET key == Wire!deriveDataEncryptionKey(conv.space)
           row == ConversationRow(conv)
       IN  /\ Wire!deserializeConversation(key, row, conv.space) = {conv.title}
           /\ Wire!LoadedTitle(key, row, conv.space) = {conv.title}
  /\ \A msg \in remote.messages : Whole(msg) =>
       LET key == Wire!deriveDataEncryptionKey(msg.space)
           written == {Wire!messagePrivate(Content(msg.id))}
       IN  /\ Wire!deserializeMessage(key, Listed(msg)) = written
           /\ Wire!LoadedMessage(key, Listed(msg)) = written

\* ProjectsAreFew: there are never more projects of the name than calls that may look for one
\* at the same time: one while auto-sync runs alone, and one more for each /save command
\* that runs beside it, however many requests fail, lose their answer or are cut off by a
\* crash (docs/conversations.md:27 "Project name (created if doesn't exist)").  The calls
\* that all saw no project, before the first is created, each create one
\* (space-manager.ts:78-110).
ProjectsAreFew == Cardinality(remote.spaces) <= Cardinality(Calls)
================================================================================
