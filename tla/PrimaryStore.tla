----------------------------- MODULE PrimaryStore -----------------------------
(* The primary conversation store: initializeStore of                           *)
(* src/conversations/init.ts and the operations of ConversationStore            *)
(* (src/conversations/store.ts) over the sagas, with restarts of the program    *)
(* and another device that uses the same account.                               *)
EXTENDS Sagas

VARIABLES
    phase,   \* "starting" until findOrCreateSpace has run, then "up"
    space,   \* ConversationStore.spaceId
    blind    \* findOrCreateSpace once ran before the listing was processed

storeVars == <<phase, space, blind>>
vars == <<sagaVars, storeVars>>

RowType == [v : 0..Renamed, dirty : BOOLEAN, deleted : BOOLEAN, by : Slots \cup {"none"}]

TypeOK ==
    /\ redux \in [Ids -> 0..Renamed]
    /\ order \in Seq(Messages)
    /\ up \in [Conversations \cup Messages -> Spaces \cup Conversations \cup {NoId}]
    /\ parent \in [Messages -> Messages \cup {NoId}]
    /\ own \subseteq Ids
    /\ idmap \subseteq Ids /\ saving \subseteq Ids /\ saved \subseteq Ids
    /\ db \in [Ids -> RowType]
    /\ server \in [Ids -> [st : {"none", "live", "deleted"}, v : 0..Renamed,
                          in : Spaces \cup Conversations \cup {NoId}]]
    /\ task \in [Ids -> [Slots -> [pc : {"idle", "http", "clear"},
                                   op : {"none", "post", "put", "del"},
                                   v : 0..Renamed, n : 0..Attempts]]]
    /\ queue \in [Ids -> 0..MaxQueue] /\ retry \in [Ids -> 0..MaxRetry]
    /\ failed \subseteq Ids
    /\ \A r \in refresh : /\ r.id \in Ids /\ r.v \in 0..Renamed
                          /\ r.act \in {"refresh", "delete", "local"}
                          /\ r.pc \in {"start", "write"}
    /\ pulling \subseteq Conversations
    /\ listing \in {"asked", "done", "failed"}
    /\ left \in [{"faults", "crashes", "changes", "messages", "spaces", "projects"} -> Nat]
    /\ phase \in {"starting", "up"}
    /\ space \in Spaces \cup {NoId}
    /\ blind \in BOOLEAN

-----------------------------------------------------------------------------
(* loadReduxFromIdb: what can be decrypted, parents first.  The rows come in    *)
(* key order, and keys are random.                                              *)
Loadable ==
    LET spaces == {s \in Spaces : Live(db[s])}
        conversations == {c \in Conversations : Live(db[c]) /\ up[c] \in spaces}
        messages == {m \in Messages : Live(db[m]) /\ up[m] \in conversations}
    IN  spaces \cup conversations \cup messages

Orders(set) == {s \in SetToAllKPermutations(set) : Len(s) = Cardinality(set)}

pushDirtyResources == [id \in Ids |-> IF id \in findUnsyncedResources(db) THEN 1 ELSE 0]

(* initAppSaga: load, ask for the listing, request a push of every dirty row *)
Restart ==
    /\ Spend("crashes")
    /\ redux' = [id \in Ids |-> IF id \in Loadable THEN db[id].v ELSE 0]
    /\ order' \in Orders(Loadable \cap Messages)
    /\ own' = {id \in Loadable : db[id].dirty}
    /\ \E written \in SUBSET saving : saveIdMapToIdb(written)
    /\ idmap' = saved' /\ saving' = {}
    /\ db' = [id \in Ids |-> [db[id] EXCEPT !.by = "none"]]
    /\ task' = [id \in Ids |-> [slot \in Slots |-> Idle]]
    /\ queue' = pushDirtyResources
    /\ retry' = [id \in Ids |-> 0]
    /\ failed' = {} /\ refresh' = {} /\ pulling' = {}
    /\ listing' = "asked"
    /\ phase' = "starting" /\ space' = NoId
    /\ UNCHANGED <<up, parent, server, blind>>

Projects == {s \in Spaces : InRedux(s)}

Fresh(id) == ~InRedux(id) /\ ~Present(db[id]) /\ ~Known(id)

(* waitForRemoteSpaces wraps store.dispatch, which no saga uses: it ends after  *)
(* its 15 s, answered or not.  findOrCreateSpace takes a project of the name,   *)
(* or creates one.                                                              *)
FindSpace ==
    /\ phase = "starting" /\ phase' = "up"
    /\ blind' = (blind \/ listing # "done" \/ refresh # {})
    /\ space' \in Projects
    /\ UNCHANGED sagaVars

CreateSpace_Always ==
    /\ phase = "starting" /\ phase' = "up" /\ Spend("spaces")
    /\ blind' = (blind \/ listing # "done" \/ refresh # {})
    /\ \E s \in Spaces :
        /\ Fresh(s)
        /\ space' = s
        /\ redux' = [redux EXCEPT ![s] = Created]
        /\ own' = own \cup {s}
        /\ queue' = Requested(queue, s)
    /\ UNCHANGED <<order, up, parent, mapVars, db, server, task, retry, failed, pullVars>>

CreateSpace ==
    /\ phase = "starting" /\ phase' = "up"
    /\ blind' = (blind \/ listing # "done" \/ refresh # {})
    /\ Projects = {} /\ Spend("spaces")
    /\ \E s \in Spaces :
        /\ Fresh(s)
        /\ space' = s
        /\ redux' = [redux EXCEPT ![s] = Created]
        /\ own' = own \cup {s}
        /\ queue' = Requested(queue, s)
    /\ UNCHANGED <<order, up, parent, mapVars, db, server, task, retry, failed, pullVars>>

-----------------------------------------------------------------------------
(* Operations of ConversationStore, each one synchronous run of dispatches. *)

(* getOrCreate adds the conversation when Redux does not have it *)
WithConversation(c) == IF InRedux(c) THEN redux ELSE [redux EXCEPT ![c] = Created]

SpaceOf(c) == IF InRedux(c) THEN up[c] ELSE space

getOrCreate(c) ==
    /\ phase = "up"
    /\ ~InRedux(c)
    /\ redux' = WithConversation(c)
    /\ up' = [up EXCEPT ![c] = space]
    /\ own' = own \cup {c}
    /\ queue' = Requested(queue, c)
    /\ UNCHANGED <<order, parent, mapVars, db, server, task, retry, failed, pullVars, left,
                   storeVars>>

(* The last of the conversation's messages in the order Redux has them, which   *)
(* is not sorted by time *)
LastMessage(c) ==
    LET mine == SelectSeq(order, LAMBDA m : up[m] = c)
    IN  IF mine = <<>> THEN NoId ELSE Last(mine)

(* addMessage, finishMessage and pushMessageRequest for each message: each one  *)
(* hangs from the one before.                                                   *)
AddMessages(c, ms) ==
    /\ phase = "up"
    /\ left.messages >= Len(ms)
    /\ \A i \in DOMAIN ms : up[ms[i]] = NoId
    /\ up' = [k \in DOMAIN up |-> IF k \in Range(ms) THEN c ELSE IF k = c THEN SpaceOf(c) ELSE up[k]]
    /\ parent' = [m \in Messages |->
                    IF m \notin Range(ms) THEN parent[m]
                    ELSE LET i == CHOOSE j \in DOMAIN ms : ms[j] = m
                         IN  IF i = 1 THEN LastMessage(c) ELSE ms[i - 1]]
    /\ order' = order \o ms
    /\ UNCHANGED <<mapVars, db, server, task, retry, failed, pullVars, storeVars>>

RequestedAll(ids) == [id \in Ids |-> IF id \in ids THEN Requested(queue, id)[id] ELSE queue[id]]

NewMessages(c, ms) ==
    [id \in Ids |-> IF id \in Range(ms) THEN Created ELSE WithConversation(c)[id]]

Using(messages, changes) ==
    left' = [left EXCEPT !.messages = @ - messages, !.changes = @ - changes]

(* What findNewMessages leaves of a request, when it leaves something *)
appendMessages(c, ms) ==
    /\ AddMessages(c, ms)
    /\ redux' = NewMessages(c, ms)
    /\ own' = own \cup Range(ms) \cup (IF InRedux(c) THEN {} ELSE {c})
    /\ queue' = RequestedAll(Range(ms) \cup (IF InRedux(c) THEN {} ELSE {c}))
    /\ Using(Len(ms), 0)

appendUserMessage(c, m) == appendMessages(c, <<m>>)

(* It also ends the conversation's GENERATING status, which nothing pushes. *)
appendAssistantResponse(c, m) == appendMessages(c, <<m>>)

(* /save: the conversation, its turns and its title in one go *)
createFromTurns(c, ms) ==
    /\ left.changes > 0
    /\ AddMessages(c, ms)
    /\ redux' = [NewMessages(c, ms) EXCEPT ![c] = Titled]
    /\ own' = own \cup Range(ms) \cup {c}
    /\ queue' = RequestedAll(Range(ms) \cup {c})
    /\ Using(Len(ms), 1)

setTitle(c) ==
    /\ phase = "up"
    /\ Spend("changes")
    /\ InRedux(c) /\ redux[c] # Titled
    /\ redux' = [redux EXCEPT ![c] = Titled]
    /\ own' = own \cup {c}
    /\ queue' = Requested(queue, c)
    /\ UNCHANGED <<order, up, parent, mapVars, db, server, task, retry, failed, pullVars, storeVars>>

delete(c) ==
    /\ phase = "up"
    /\ Spend("changes")
    /\ InRedux(c)
    /\ refresh' = refresh \cup {Started(c, "local", 0)}
    /\ UNCHANGED <<localVars, mapVars, db, server, pushVars, pulling, listing, storeVars>>

-----------------------------------------------------------------------------
(* Another device of the same account. *)
OtherDevice ==
    /\ Spend("changes")
    /\ \/ \E c \in Conversations :
            /\ server[c].st = "live"
            /\ server' = [server EXCEPT ![c].v = Renamed]
       \/ \E id \in Spaces \cup Conversations : server[id].st = "live" /\ server' = Killed(id)
    /\ UNCHANGED <<localVars, mapVars, db, pushVars, pullVars, storeVars>>

Init ==
    /\ redux = [id \in Ids |-> 0]
    /\ order = <<>>
    /\ up = [k \in Conversations \cup Messages |-> NoId]
    /\ parent = [m \in Messages |-> NoId]
    /\ own = {}
    /\ idmap = {} /\ saving = {} /\ saved = {}
    /\ db = [id \in Ids |-> NoRow]
    /\ left \in Budgets
    /\ \E existing \in SUBSET Spaces :
        /\ Cardinality(existing) = left.projects
        /\ server = [id \in Ids |-> IF id \in existing THEN [Unknown EXCEPT !.st = "live", !.v = Created] ELSE Unknown]
    /\ task = [id \in Ids |-> [slot \in Slots |-> Idle]]
    /\ queue = [id \in Ids |-> 0] /\ retry = [id \in Ids |-> 0]
    /\ failed = {} /\ refresh = {} /\ pulling = {}
    /\ listing = "asked"
    /\ phase = "starting" /\ space = NoId /\ blind = FALSE

(* bound: a request brings at most two new messages *)
Batches == UNION {{s \in [1..n -> Messages] : IsInjective(s)} : n \in 1..2}

StoreStep ==
    \/ FindSpace
    \/ CreateSpace
    \/ \E c \in Conversations, ms \in Batches : appendMessages(c, ms) \/ createFromTurns(c, ms)
    \/ \E c \in Conversations, m \in Messages : appendUserMessage(c, m) \/ appendAssistantResponse(c, m)
    \/ \E c \in Conversations : getOrCreate(c) \/ setTitle(c) \/ delete(c)

Next ==
    \/ StoreStep
    \/ Restart
    \/ OtherDevice
    \/ (SagaStep \/ FaultStep) /\ UNCHANGED storeVars

Spec == Init /\ [][Next]_vars

(* A run of a push, a refresh, the pull of the listing and the start of the     *)
(* store go on by themselves: promises and timers that are due are served.      *)
Fairness ==
    /\ \A id \in Ids, slot \in Slots : WF_vars(PushStep(id, slot) /\ UNCHANGED storeVars)
    /\ \A id \in Ids : WF_vars((\E r \in refresh : r.id = id /\ RefreshStep(r)) /\ UNCHANGED storeVars)
    /\ WF_vars(pullSpaces /\ UNCHANGED storeVars)
    /\ \A c \in Conversations : WF_vars(pullConversation(c) /\ UNCHANGED storeVars)
    /\ WF_vars(FindSpace \/ CreateSpace)

FairSpec == Spec /\ Fairness

-----------------------------------------------------------------------------
(* A remote id is recorded, in Redux or in IndexedDB, only for a resource the   *)
(* server has, whatever was lost, retried, refreshed or restarted on the way.   *)
MapSound == idmap \cup saving \cup saved \subseteq {id \in Ids : Known(id)}

(* A request goes out only when the server has everything it names: the space   *)
(* of a conversation, the conversation and the parent of a message, and what an *)
(* edit or a deletion is about.                                                 *)
RequestsNameKnown ==
    \A id \in Ids, slot \in Slots :
        InHttp(id, slot) =>
            /\ \A a \in Awaited(id, task[id][slot].op) : Known(a)
            /\ task[id][slot].op # "post" => Known(id)

(* A row loses its dirty flag only when the server has the resource: a restart  *)
(* pushes dirty rows alone, so a clean row of unsent content would never go.    *)
CleanUploaded == \A id \in Ids : Present(db[id]) /\ ~db[id].dirty => Known(id) \/ db[id].deleted

Pending(id) ==
    \/ queue[id] > 0 \/ retry[id] > 0
    \/ \E slot \in Slots : task[id][slot] # Idle

(* Content this program wrote that the server does not have - its version is   *)
(* older, or it has none - is on its way: a push is queued, runs, or sleeps     *)
(* before a retry.  Otherwise its push was given up, or the resource is deleted.*)
NothingForgotten ==
    \A id \in Ids :
        id \in own /\ InRedux(id) /\ server[id].st # "deleted" /\ redux[id] > server[id].v
        => Pending(id) \/ id \in failed

(* What a message waits for before it is sent, itself included *)
Chain(m) ==
    IF up[m] = NoId THEN {m} ELSE {up[m], up[up[m]]} \cup {a \in Messages : up[a] = up[m]}

(* Every message of this program reaches the server, except when what it waits  *)
(* for was lost or deleted, here or by another device, or is on the server and  *)
(* the answer that told its remote id got lost.                                 *)
UploadedUnlessLost ==
    \A m \in Messages :
        InRedux(m) ~> \/ Known(m)
                      \/ \E a \in Chain(m) : \/ ~InRedux(a)
                                            \/ server[a].st = "deleted"
                                            \/ (Known(a) /\ a \notin idmap)

(* docs/conversations.md:71: sync is automatic.  Whatever call fails and however *)
(* often the program starts again, a message reaches the server in the end.     *)
EventuallyUploaded == \A m \in Messages : InRedux(m) ~> (Known(m) \/ ~InRedux(m))

(* The account has one project of the configured name, as long as the listing   *)
(* was processed within the time initializeStore waits.                         *)
OneProject == ~blind => Cardinality({s \in Spaces : server[s].st = "live"}) <= 1
=============================================================================
