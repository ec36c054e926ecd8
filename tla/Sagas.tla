-------------------------------- MODULE Sagas --------------------------------
(* The Redux sagas of packages/lumo/src/redux/sagas that keep spaces,           *)
(* conversations and messages in step between Redux, IndexedDB and the server.  *)
(* A push is a run of pushSpace, pushConversation or pushMessage in one of two  *)
(* slots: "q", the queue of noRaceSameId, and "r", a retry, which calls the     *)
(* worker directly.  It has three steps: begin (read, and save the dirty row),  *)
(* the HTTP call up to the read of clearDirtyIfUnchanged that follows it, and   *)
(* the write of clearDirtyIfUnchanged, which the code's own comment calls racy. *)
(* A refresh of a resource the server sent is two steps: decide, and write to   *)
(* IndexedDB.                                                                   *)
EXTENDS IndexedDb, Sequences, SequencesExt

CONSTANTS
    Spaces, Conversations, Messages,  \* local ids; the three kinds are disjoint
    NoId,            \* no parent, no space
    Attempts,        \* callWithRetry: maxRetries, 3 in the code
    MaxQueue,        \* bound: push requests waiting for one id
    MaxRetry,        \* bound: sleeping retries of one id
    Budgets          \* bound: how many faults, restarts, changes, new messages and
                     \* new spaces a behaviour has, and the projects the server has
                     \* before; one of these records is chosen at the start

Ids == Spaces \cup Conversations \cup Messages

ASSUME SagasAssumption ==
    /\ Spaces \cap Conversations = {}
    /\ Spaces \cap Messages = {}
    /\ Conversations \cap Messages = {}
    /\ NoId \notin Ids
    /\ Attempts \in Nat \ {0}
    /\ MaxQueue \in Nat \ {0} /\ MaxRetry \in Nat \ {0}
    /\ Budgets \subseteq [faults : Nat, crashes : Nat, changes : Nat, messages : Nat,
                          spaces : Nat, projects : Nat]

(* Versions of a content: as created, with the title this program set, with the *)
(* title another device set.                                                    *)
Created == 1
Titled  == 2
Renamed == 3

VARIABLES
    redux,     \* [Ids -> version], 0 when Redux has no such resource
    order,     \* the messages in Redux, in the order of the map's keys
    up,        \* [Conversations \cup Messages -> the space or conversation it is in]
    parent,    \* [Messages -> the parent message]
    own,       \* history: ids whose content in Redux this program wrote, since it
               \* started or before without sending it
    idmap,     \* ids with a remote id in Redux
    saving,    \* ids whose mapping considerSavingIdMapToIdb writes, or has written
    saved,     \* ids with a row in REMOTE_ID_STORE when the program started
    db,        \* [Ids -> row]
    server,    \* [Ids -> [st, v, in]]: what the server has under this tag (local id),
               \* and the space or conversation it was posted to
    task,      \* [Ids -> [Slots -> the run of a push in that slot]]
    queue,     \* [Ids -> push requests noRaceSameId has not started]
    retry,     \* [Ids -> retries that sleep RETRY_PUSH_EVERY_MS]
    failed,    \* history: ids whose push ended in a pushXFailure, was a no-op although
               \* Redux has the resource, or was cancelled with the retry watcher
    refresh,   \* refreshes and deletions of resources that are under way
    pulling,   \* conversations with a pullConversation under way
    listing,   \* "asked", "done", "failed": pullSpaces
    left       \* what is left of the budget

localVars == <<redux, order, up, parent, own>>
mapVars   == <<idmap, saving, saved>>
pushVars  == <<task, queue, retry, failed>>
pullVars  == <<refresh, pulling, listing>>
sagaVars  == <<localVars, mapVars, db, server, pushVars, pullVars, left>>

(* One fault, restart, change or message of the budget is used up. *)
Spend(what) == left[what] > 0 /\ left' = [left EXCEPT ![what] = @ - 1]


Slots == {"q", "r"}
Idle == [pc |-> "idle", op |-> "none", v |-> 0, n |-> 0]

Unknown == [st |-> "none", v |-> 0, in |-> NoId]
Known(id) == server[id].st # "none"

InRedux(id) == id # NoId /\ redux[id] # 0

(* Without its space, whose key wraps everything, nothing is encrypted. *)
serializeConversationSaga(c) == InRedux(up[c])

serializeMessageSaga(m) == InRedux(up[m]) /\ InRedux(up[up[m]])

-----------------------------------------------------------------------------
(* The HTTP calls. *)

(* The remote ids the request is made of *)
httpPostConversation(c) == {up[c]}

httpPostMessage(m) == {up[m]} \cup (IF parent[m] = NoId THEN {} ELSE {parent[m]})

Awaited(id, op) ==
    IF op = "del" \/ id \in Spaces THEN {}
    ELSE IF id \in Conversations THEN httpPostConversation(id)
    ELSE httpPostMessage(id)

waitForMapping_Skipped(id, op) == TRUE

(* waitForMapping, for every one of them *)
waitForMapping(id, op) == Awaited(id, op) \subseteq idmap

(* The server: a tag is unique, a resource is posted under a live parent, a     *)
(* deleted one is not edited, and deleting it again says "deleted".             *)
ServerAnswer(id, op) ==
    IF op = "post" /\ Known(id) THEN 409
    ELSE IF \/ op = "post" /\ \E a \in Awaited(id, op) : server[a].st # "live"
            \/ op = "put" /\ server[id].st # "live"
    THEN 422 ELSE 200

(* callPostJson: 409 is ConflictClientError, another 4xx ClientError *)
callPostJson(status) ==
    CASE status = 409 -> "conflict"
      [] status = 422 -> "client"
      [] OTHER -> "ok"

(* callPutJson: the body of a 422 is not awaited, so "deleted" is never         *)
(* returned and every failure is a plain Error.                                 *)
callPutJson(status) == IF status = 200 THEN "ok" ELSE "error"

(* callDelete: "deleted" (422, code 2501) is a success for the caller *)
callDelete(status) == "ok"

HttpResult(id, op) ==
    LET status == ServerAnswer(id, op)
    IN  CASE op = "post" -> callPostJson(status)
          [] op = "put" -> callPutJson(status)
          [] OTHER -> callDelete(status)

(* what lies in id, when above says what everything lies in *)
Within(id, above) ==
    LET children(k) == {c \in Conversations \cup Messages : above[c] = k}
    IN  children(id) \cup UNION {children(c) : c \in children(id)}

(* deleting a space or a conversation deletes what it holds *)
Killed(id) ==
    [k \in Ids |-> IF k \in {id} \cup Within(id, [c \in Conversations \cup Messages |-> server[c].in]) /\ server[k].st = "live"
                   THEN [server[k] EXCEPT !.st = "deleted"] ELSE server[k]]

Container(id) == IF id \in Spaces THEN NoId ELSE up[id]

ServerAfter(id, op, v) ==
    CASE op = "post" -> [server EXCEPT ![id] = [st |-> "live", v |-> v, in |-> Container(id)]]
      [] op = "put" -> [server EXCEPT ![id].v = v]
      [] OTHER -> Killed(id)

-----------------------------------------------------------------------------
(* Where the local part of a push ends: what it finds in IndexedDB, in Redux    *)
(* and in the id map decides it.                                                *)

PushDeletion(id) ==
    IF ~db[id].dirty THEN "noop"
    ELSE IF id \in Messages \/ id \notin idmap THEN "forget"
    ELSE "del"

pushSpace(s) ==
    IF db[s].deleted THEN PushDeletion(s)
    ELSE IF ~InRedux(s) THEN "needsRetry"
    ELSE IF s \in idmap THEN "put" ELSE "post"

pushConversation(c) ==
    IF db[c].deleted THEN PushDeletion(c)
    ELSE IF ~InRedux(c) \/ ~serializeConversationSaga(c) THEN "needsRetry"
    ELSE IF c \in idmap THEN "put" ELSE "post"

(* A message that has left Redux is an exception before the try block.  One the *)
(* server has is saved with the dirty flag and left so: pushMessageNoop.        *)
pushMessage(m) ==
    IF ~InRedux(m) THEN "throw"
    ELSE IF db[m].deleted THEN PushDeletion(m)
    ELSE IF ~serializeMessageSaga(m) THEN "needsRetry"
    ELSE IF m \in idmap THEN "saved" ELSE "post"

push(id) ==
    CASE id \in Spaces -> pushSpace(id)
      [] id \in Conversations -> pushConversation(id)
      [] OTHER -> pushMessage(id)

(* noRaceSameId starts the next request when the run before it has ended; a     *)
(* retry starts when its delay is over.                                         *)
Due(id, slot) ==
    /\ task[id][slot] = Idle
    /\ IF slot = "q" THEN queue[id] > 0 ELSE retry[id] > 0

NeedsRetry_Dropped(counts, id) == counts

NeedsRetry(counts, id) == [counts EXCEPT ![id] = IF @ < MaxRetry THEN @ + 1 ELSE @]

Requested(counts, id) == [counts EXCEPT ![id] = IF @ < MaxQueue THEN @ + 1 ELSE @]

Woken(slot, id) == IF slot = "r" THEN [retry EXCEPT ![id] = @ - 1] ELSE retry

BeginPush_MappedEarly(id, slot) ==
    LET d == push(id)
        run == [pc |-> IF d = "forget" THEN "clear" ELSE "http",
                op |-> IF d = "forget" THEN "del" ELSE d,
                v |-> IF d \in {"forget", "del"} THEN db[id].v ELSE redux[id],
                n |-> IF d = "forget" THEN 0 ELSE 1]
    IN  /\ Due(id, slot)
        /\ ~(d = "throw" /\ slot = "r")
        /\ queue' = IF slot = "q" THEN [queue EXCEPT ![id] = @ - 1] ELSE queue
        /\ retry' = IF d = "needsRetry" THEN NeedsRetry(Woken(slot, id), id) ELSE Woken(slot, id)
        /\ task' = IF d \in {"forget", "del", "put", "post"}
                   THEN [task EXCEPT ![id][slot] = run] ELSE task
        /\ db' = IF d \in {"put", "post", "saved"} THEN update(db, id, redux[id], TRUE, slot) ELSE db
        /\ idmap' = IF d = "post" THEN idmap \cup {id} ELSE idmap
        /\ failed' = IF d = "noop" /\ InRedux(id) THEN failed \cup {id} ELSE failed
        /\ UNCHANGED <<localVars, saving, saved, server, pullVars, left>>

(* pushSpace, pushConversation, pushMessage up to the HTTP call *)
BeginPush(id, slot) ==
    LET d == push(id)
        run == [pc |-> IF d = "forget" THEN "clear" ELSE "http",
                op |-> IF d = "forget" THEN "del" ELSE d,
                v |-> IF d \in {"forget", "del"} THEN db[id].v ELSE redux[id],
                n |-> IF d = "forget" THEN 0 ELSE 1]
    IN  /\ Due(id, slot)
        /\ ~(d = "throw" /\ slot = "r")
        /\ queue' = IF slot = "q" THEN [queue EXCEPT ![id] = @ - 1] ELSE queue
        /\ retry' = IF d = "needsRetry" THEN NeedsRetry(Woken(slot, id), id) ELSE Woken(slot, id)
        /\ task' = IF d \in {"forget", "del", "put", "post"}
                   THEN [task EXCEPT ![id][slot] = run] ELSE task
        /\ db' = IF d \in {"put", "post", "saved"} THEN update(db, id, redux[id], TRUE, slot) ELSE db
        /\ failed' = IF d = "noop" /\ InRedux(id) THEN failed \cup {id} ELSE failed
        /\ UNCHANGED <<localVars, mapVars, server, pullVars, left>>

(* The exception of pushMessage reaches the watcher of pushMessageNeedsRetry,   *)
(* which restarts: every retry of a message that sleeps or runs is cancelled.   *)
RetryWatcherCrash(m) ==
    /\ Due(m, "r") /\ push(m) = "throw"
    /\ retry' = [id \in Ids |-> IF id \in Messages THEN 0 ELSE retry[id]]
    /\ task' = [id \in Ids |-> IF id \in Messages THEN [task[id] EXCEPT !["r"] = Idle] ELSE task[id]]
    /\ failed' = failed \cup {id \in Messages : retry[id] > 0 \/ task[id]["r"] # Idle}
    /\ UNCHANGED <<localVars, mapVars, db, server, queue, pullVars, left>>

InHttp(id, slot) == task[id][slot].pc = "http" /\ waitForMapping(id, task[id][slot].op)

(* deleteConversation drops the conversation alone, and leaves its messages. *)
deleteSpaceCascadeInRedux(id) == {id} \cup (IF id \in Spaces THEN Within(id, up) ELSE {})

DropFromRedux(ids) ==
    /\ redux' = [k \in Ids |-> IF k \in ids THEN 0 ELSE redux[k]]
    /\ order' = SelectSeq(order, LAMBDA m : m \notin ids)
    /\ own' = own \ ids
    /\ UNCHANGED <<up, parent>>

(* The push of a deletion also deletes in Redux, whatever the comparison said. *)
EndPush(id, op) ==
    IF op = "del" THEN DropFromRedux(deleteSpaceCascadeInRedux(id)) ELSE UNCHANGED localVars

Unchanged(id, slot) ==
    IF task[id][slot].op = "del" THEN db[id].deleted
    ELSE ~db[id].deleted /\ db[id].by = slot

(* The call is answered.  A POST tells the remote id, recorded at once in Redux *)
(* and, by considerSavingIdMapToIdb, in IndexedDB.  Then clearDirtyIfUnchanged  *)
(* (markAsSynced for a space) reads the row: one that is not the snapshot any   *)
(* more makes the push start over.                                              *)
HttpOk(id, slot) ==
    LET t == task[id][slot]
        learnt == IF t.op = "post" THEN {id} ELSE {}
    IN  /\ InHttp(id, slot) /\ HttpResult(id, t.op) = "ok"
        /\ server' = ServerAfter(id, t.op, t.v)
        /\ idmap' = idmap \cup learnt
        /\ saving' = saving \cup (learnt \ saved)
        /\ IF Unchanged(id, slot)
           THEN /\ task' = [task EXCEPT ![id][slot] = [t EXCEPT !.pc = "clear", !.n = 0]]
                /\ UNCHANGED <<localVars, retry>>
           ELSE /\ task' = [task EXCEPT ![id][slot] = Idle]
                /\ retry' = NeedsRetry(retry, id)
                /\ EndPush(id, t.op)
        /\ UNCHANGED <<saved, db, queue, failed, pullVars, left>>

(* ... and puts the snapshot over the row in a second transaction. *)
ClearDirty(id, slot) ==
    LET t == task[id][slot]
    IN  /\ t.pc = "clear"
        /\ db' = putSynced(db, id, t.v, t.op = "del", "none")
        /\ task' = [task EXCEPT ![id][slot] = Idle]
        /\ EndPush(id, t.op)
        /\ UNCHANGED <<mapVars, server, queue, retry, failed, pullVars, left>>

(* callWithRetry tries a refusal as often as a failure, to the same answer: its *)
(* last attempt is the one modelled.  409 of a message pulls its conversation   *)
(* and tries again later; any other 4xx gives the push up.                      *)
HttpRefused(id, slot) ==
    LET result == HttpResult(id, task[id][slot].op)
        again == result = "error" \/ (result = "conflict" /\ id \in Messages)
    IN  /\ InHttp(id, slot) /\ result # "ok"
        /\ task' = [task EXCEPT ![id][slot] = Idle]
        /\ retry' = IF again THEN NeedsRetry(retry, id) ELSE retry
        /\ failed' = IF again THEN failed ELSE failed \cup {id}
        /\ pulling' = IF result = "conflict" /\ id \in Messages THEN pulling \cup {up[id]} ELSE pulling
        /\ UNCHANGED <<localVars, mapVars, db, server, queue, refresh, listing, left>>

HttpFault_Cleared(id, slot, executed) ==
    LET t == task[id][slot]
    IN  /\ Spend("faults")
        /\ InHttp(id, slot)
        /\ executed => HttpResult(id, t.op) = "ok"
        /\ server' = IF executed THEN ServerAfter(id, t.op, t.v) ELSE server
        /\ task' = [task EXCEPT ![id][slot] =
                        IF t.n < Attempts THEN [t EXCEPT !.n = t.n + 1] ELSE [t EXCEPT !.pc = "clear"]]
        /\ retry' = IF t.n < Attempts THEN retry ELSE NeedsRetry(retry, id)
        /\ UNCHANGED <<localVars, mapVars, db, queue, failed, pullVars>>

HttpFault_GivesUp(id, slot, executed) ==
    LET t == task[id][slot]
    IN  /\ Spend("faults")
        /\ InHttp(id, slot)
        /\ executed => HttpResult(id, t.op) = "ok"
        /\ server' = IF executed THEN ServerAfter(id, t.op, t.v) ELSE server
        /\ task' = [task EXCEPT ![id][slot] =
                        IF t.n < Attempts THEN [t EXCEPT !.n = t.n + 1] ELSE Idle]
        /\ UNCHANGED retry
        /\ UNCHANGED <<localVars, mapVars, db, queue, failed, pullVars>>

(* A call fails on the way there, or its answer is lost on the way back. *)
HttpFault(id, slot, executed) ==
    LET t == task[id][slot]
    IN  /\ Spend("faults")
        /\ InHttp(id, slot)
        /\ executed => HttpResult(id, t.op) = "ok"
        /\ server' = IF executed THEN ServerAfter(id, t.op, t.v) ELSE server
        /\ task' = [task EXCEPT ![id][slot] =
                        IF t.n < Attempts THEN [t EXCEPT !.n = t.n + 1] ELSE Idle]
        /\ retry' = IF t.n < Attempts THEN retry ELSE NeedsRetry(retry, id)
        /\ UNCHANGED <<localVars, mapVars, db, queue, failed, pullVars>>

(* considerSavingIdMapToIdb starts a transaction nobody waits for, and only a   *)
(* restart reads the store: which of the mappings in "saving" got there is      *)
(* settled then.                                                                *)
saveIdMapToIdb(entries) ==
    saved' = saved \cup UNION {addRemoteId(saved, id) : id \in entries}

-----------------------------------------------------------------------------
(* Remote to local. *)

Started(id, act, v) == [id |-> id, act |-> act, v |-> v, pc |-> "start"]

Ended(r) == refresh' = refresh \ {r}
Writes(r) == refresh' = (refresh \ {r}) \cup {[r EXCEPT !.pc = "write"]}

Received(id) ==
    IF server[id].st = "live" THEN Started(id, "refresh", server[id].v) ELSE Started(id, "delete", 0)

(* pullSpaces: every space and conversation the server has, deleted ones too;   *)
(* processPullSpacesPage starts one saga for each.                              *)
pullSpaces ==
    /\ listing = "asked"
    /\ listing' = "done"
    /\ refresh' = refresh \cup {Received(id) : id \in {k \in Spaces \cup Conversations : Known(k)}}
    /\ UNCHANGED <<localVars, mapVars, db, server, pushVars, pulling, left>>

pullSpacesFails ==
    /\ listing = "asked" /\ Spend("faults")
    /\ listing' = "failed"
    /\ UNCHANGED <<localVars, mapVars, db, server, pushVars, refresh, pulling>>

(* pullConversation and processPullConversationResult: without a remote id or a *)
(* conversation in Redux nothing is asked.                                      *)
pullConversation(c) ==
    /\ c \in pulling
    /\ pulling' = pulling \ {c}
    /\ refresh' = IF c \notin idmap \/ ~InRedux(c) THEN refresh
                  ELSE IF server[c].st # "live" THEN refresh \cup {Received(c)}
                  ELSE refresh \cup {Received(k) : k \in {c} \cup {m \in Messages : Known(m) /\ server[m].in = c}}
    /\ UNCHANGED <<localVars, mapVars, db, server, pushVars, listing, left>>

pullConversationFails(c) ==
    /\ c \in pulling /\ Spend("faults")
    /\ pulling' = pulling \ {c}
    /\ UNCHANGED <<localVars, mapVars, db, server, pushVars, refresh, listing>>

InRefresh(r, kind) == r \in refresh /\ r.act = "refresh" /\ r.pc = "start" /\ r.id \in kind

addSpaceToRedux(id, v) ==
    /\ redux' = [redux EXCEPT ![id] = v]
    /\ own' = own \ {id}
    /\ UNCHANGED <<order, up, parent>>

addConversationToRedux(id, v) ==
    /\ redux' = [redux EXCEPT ![id] = v]
    /\ up' = [up EXCEPT ![id] = server[id].in]
    /\ own' = own \ {id}
    /\ UNCHANGED <<order, parent>>

considerSavingIdMapToIdb(id) ==
    /\ idmap' = idmap \cup {id}
    /\ saving' = saving \cup ({id} \ saved)
    /\ UNCHANGED saved

(* Dirty in IndexedDB is newer than the server; a space that is only there goes *)
(* back to Redux, with its mapping and without a write.                         *)
refreshSpaceFromRemote(r) ==
    LET s == r.id
        kept == Live(db[s]) /\ db[s].dirty
    IN  /\ InRefresh(r, Spaces)
        /\ IF InRedux(s) /\ db[s].dirty
           THEN Ended(r) /\ UNCHANGED <<localVars, mapVars>>
           ELSE /\ addSpaceToRedux(s, IF kept THEN db[s].v ELSE r.v)
                /\ idmap' = IF InRedux(s) THEN idmap ELSE idmap \cup {s}
                /\ saving' = IF InRedux(s) \/ kept THEN saving ELSE saving \cup ({s} \ saved)
                /\ refresh' = (refresh \ {r}) \cup (IF kept THEN {} ELSE {[r EXCEPT !.pc = "write"]})
                /\ UNCHANGED saved
        /\ UNCHANGED <<db, server, pushVars, pulling, listing, left>>

(* The comparisons with Redux and IndexedDB include times that the server sets, *)
(* so an equal title may still compare as different: "same" is either.  First   *)
(* waitForSpace.                                                                *)
refreshConversationFromRemote(r, same) ==
    LET c == r.id
        equal == same /\ (redux[c] = r.v \/ (Present(db[c]) /\ ~db[c].deleted /\ db[c].v = r.v))
    IN  /\ InRefresh(r, Conversations)
        /\ InRedux(server[c].in)
        /\ same => equal
        /\ IF equal \/ db[c].dirty
           THEN Ended(r) /\ UNCHANGED <<localVars, mapVars>>
           ELSE addConversationToRedux(c, r.v) /\ considerSavingIdMapToIdb(c) /\ Writes(r)
        /\ UNCHANGED <<db, server, pushVars, pulling, listing, left>>

(* A listed message is shallow: it brings the mapping, and never replaces the   *)
(* filled row that was saved before the POST.                                   *)
refreshMessageFromRemote(r) ==
    LET m == r.id
    IN  /\ InRefresh(r, Messages)
        /\ considerSavingIdMapToIdb(m)
        /\ Writes(r)
        /\ UNCHANGED <<localVars, db, server, pushVars, pulling, listing, left>>

(* What a refresh writes to IndexedDB after it has decided *)
writeRefreshed(r) ==
    /\ r \in refresh /\ r.act = "refresh" /\ r.pc = "write"
    /\ r.id \in Messages => serializeMessageSaga(r.id)
    /\ db' = IF r.id \in Messages THEN putClean(db, r.id)
             ELSE update(db, r.id, r.v, FALSE, "none")
    /\ Ended(r)
    /\ UNCHANGED <<localVars, mapVars, server, pushVars, pulling, listing, left>>

(* softDeleteSpaceFromRemote, softDeleteConversationFromRemote and              *)
(* softDeleteConversationFromLocal: Redux at once, then IndexedDB.              *)
softDeleteInRedux(r) ==
    /\ r \in refresh /\ r.act # "refresh" /\ r.pc = "start"
    /\ DropFromRedux(deleteSpaceCascadeInRedux(r.id))
    /\ Writes(r)
    /\ UNCHANGED <<mapVars, db, server, pushVars, pulling, listing, left>>

softDeleteInIdb(r) ==
    /\ r \in refresh /\ r.act # "refresh" /\ r.pc = "write"
    /\ db' = IF r.id \in Spaces THEN softDeleteSpaceCascade(db, up, r.id, FALSE)
             ELSE softDeleteConversation(db, r.id, r.act = "local")
    /\ queue' = IF r.act = "local" THEN Requested(queue, r.id) ELSE queue
    /\ Ended(r)
    /\ UNCHANGED <<localVars, mapVars, server, task, retry, failed, pulling, listing, left>>

PushStep(id, slot) ==
    \/ BeginPush(id, slot)
    \/ HttpOk(id, slot)
    \/ HttpRefused(id, slot)
    \/ ClearDirty(id, slot)

RefreshStep(r) ==
    \/ refreshSpaceFromRemote(r)
    \/ \E same \in BOOLEAN : refreshConversationFromRemote(r, same)
    \/ refreshMessageFromRemote(r)
    \/ writeRefreshed(r)
    \/ softDeleteInRedux(r)
    \/ softDeleteInIdb(r)

SagaStep ==
    \/ \E id \in Ids, slot \in Slots : PushStep(id, slot)
    \/ \E m \in Messages : RetryWatcherCrash(m)
    \/ \E r \in refresh : RefreshStep(r)
    \/ pullSpaces
    \/ \E c \in pulling : pullConversation(c)

FaultStep ==
    \/ \E id \in Ids, slot \in Slots, executed \in BOOLEAN : HttpFault(id, slot, executed)
    \/ pullSpacesFails
    \/ \E c \in pulling : pullConversationFails(c)
=============================================================================
