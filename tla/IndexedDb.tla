------------------------------ MODULE IndexedDb ------------------------------
(* The object stores of packages/lumo/src/indexedDb/db.ts, as functions from   *)
(* local ids to rows.  A row keeps the version of its content (0 when there is  *)
(* no row), the two flags of LocalFlags, and who serialized the content: every  *)
(* serialization draws a fresh initialization vector, so two rows with the same *)
(* plain text are still different to the comparison of clearDirtyIfUnchanged.   *)
(* Every operator is one transaction; what takes two transactions in the code   *)
(* (markAsSynced, clearDirtyIfUnchanged) is two steps of Sagas.                 *)
EXTENDS Naturals, FiniteSets

NoRow == [v |-> 0, dirty |-> FALSE, deleted |-> FALSE, by |-> "none"]

Present(row) == row.v # 0

(* loadReduxFromIdb, pushX and refreshX all skip or special-case deleted rows *)
Live(row) == Present(row) /\ ~row.deleted

(* StoreOperations.update behind updateSpace, updateConversation and           *)
(* updateMessage: a put of the whole object, whatever the row said before -     *)
(* a deletion included.                                                        *)
update(db, id, v, dirty, by) ==
    [db EXCEPT ![id] = [v |-> v, dirty |-> dirty, deleted |-> FALSE, by |-> by]]

(* The put that markAsSynced and clearDirtyIfUnchanged end with: the snapshot   *)
(* the push took, deleted or not, without its dirty flag.                       *)
putSynced(db, id, v, deleted, by) ==
    [db EXCEPT ![id] = [v |-> v, dirty |-> FALSE, deleted |-> deleted, by |-> by]]

(* The put that clears the flag of a row read a moment ago (refreshMessage). *)
putClean(db, id) == [db EXCEPT ![id].dirty = FALSE]

(* softDeleteMessage, softDeleteConversation and softDeleteSpace of one row *)
softDelete(row, dirty) ==
    IF Present(row) THEN [row EXCEPT !.deleted = TRUE, !.dirty = dirty, !.by = "none"] ELSE row

softDeleteConversation(db, id, dirty) == [db EXCEPT ![id] = softDelete(@, dirty)]

getConversationsBySpaceId(db, up, spaceId) ==
    {c \in DOMAIN up : Present(db[c]) /\ up[c] = spaceId}

getMessagesByConversationId(db, up, conversationId) ==
    {m \in DOMAIN up : Present(db[m]) /\ up[m] = conversationId}

softDeleteSpaceCascade(db, up, spaceId, dirty) ==
    LET conversations == getConversationsBySpaceId(db, up, spaceId)
        messages == UNION {getMessagesByConversationId(db, up, c) : c \in conversations}
        doomed == {spaceId} \cup conversations \cup messages
    IN  IF ~Present(db[spaceId])
        THEN db
        ELSE [id \in DOMAIN db |-> IF id \in doomed THEN softDelete(db[id], dirty) ELSE db[id]]

findUnsyncedResources(db) == {id \in DOMAIN db : db[id].dirty}

(* One local id has one remote id here, so the duplicates addRemoteId refuses   *)
(* cannot arise: adding a known pair is the early return.                       *)
addRemoteId(saved, id) == saved \cup {id}
=============================================================================
