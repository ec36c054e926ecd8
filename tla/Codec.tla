--------------------------------- MODULE Codec ---------------------------------
(***************************************************************************)
(* How spaces, conversations and messages are encrypted for Proton, and    *)
(* read again.  Two implementations have to agree: EncryptionCodec of the  *)
(* fallback sync, and the serialization and conversion that the primary    *)
(* store shares with Proton's own client.  Text is sealed with a key and   *)
(* associated data (AD), and opens only with both; a reader rebuilds the   *)
(* AD from the clear fields of what the server lists.                      *)
(*                                                                         *)
(* What a reader gets is a set: its one element, or {} when it does not    *)
(* open.  Keys, ids and contents are uninterpreted.                        *)
(***************************************************************************)
CONSTANT Absent      \* undefined: no parent, no prefix

Role == {"user", "assistant", "system", "tool_call", "tool_result"}
UserInt == 1
AssistantInt == 2

\* AES-GCM, as both implementations use it.
Seal(key, ad, data) == [key |-> key, ad |-> ad, data |-> data]
Opened(key, ad, sealed) ==
  IF sealed.key = key /\ sealed.ad = ad THEN {sealed.data} ELSE {}

\* AES-KW: a space key wrapped with the master key; HKDF: its data encryption key.
Wrap(masterKey, spaceKey) == [by |-> masterKey, key |-> spaceKey]
Unwrapped(masterKey, wrapped) == IF wrapped.by = masterKey THEN {wrapped.key} ELSE {}
deriveDataEncryptionKey(spaceKey) == [dek |-> spaceKey]
-------------------------------------------------------------------------------
(***************************************************************************)
(* EncryptionCodec, SpaceManager and SyncService.                          *)
(***************************************************************************)
encryptSpace(key, data, spaceId) == Seal(key, [type |-> "space", id |-> spaceId], data)
decryptSpace(key, sealed, spaceId) ==
  Opened(key, [type |-> "space", id |-> spaceId], sealed)

encryptConversation(key, data, conversationId, spaceId) ==
  Seal(key, [type |-> "conversation", id |-> conversationId, spaceId |-> spaceId], data)
decryptConversation(key, sealed, conversationId, spaceId) ==
  Opened(key, [type |-> "conversation", id |-> conversationId, spaceId |-> spaceId], sealed)

\* RoleToApiInt: the AD has the role a reader will find.
adRole(role) == IF role \in {"assistant", "tool_call"} THEN "assistant" ELSE "user"

encryptMessage(key, data, message, effectiveParentId) ==
  Seal(key, [type |-> "message", id |-> message.id, role |-> adRole(message.role),
             parentId |-> effectiveParentId, conversationId |-> message.conversationId], data)
decryptMessage(key, sealed, messageId, conversationId, role, parentId) ==
  Opened(key, [type |-> "message", id |-> messageId, role |-> role, parentId |-> parentId,
               conversationId |-> conversationId], sealed)

RoleToInt(role) == IF role \in {"assistant", "tool_call"} THEN AssistantInt ELSE UserInt

\* The content of a message that is neither the user's nor the assistant's says so.
messagePrivate(message) ==
  [content |-> message.content,
   prefix |-> IF message.role \in {"user", "assistant"} THEN Absent ELSE message.role]

\* createSpace(), syncConversation() and syncMessage(): what is sent to the server.
createSpace(masterKey, spaceKey, id, name) ==
  [SpaceTag |-> id, SpaceKey |-> Wrap(masterKey, spaceKey),
   Encrypted |-> encryptSpace(deriveDataEncryptionKey(spaceKey), name, id)]
syncConversation(key, title, id, spaceId) ==
  [ConversationTag |-> id, Encrypted |-> encryptConversation(key, title, id, spaceId)]
syncMessage(key, message, effectiveParentId, parentRemoteId, remoteId) ==
  [ID |-> remoteId, MessageTag |-> message.id, Role |-> RoleToInt(message.role),
   ParentID |-> parentRemoteId,
   Encrypted |-> encryptMessage(key, messagePrivate(message), message, effectiveParentId)]
-------------------------------------------------------------------------------
(***************************************************************************)
(* serialization.ts and the conversion to the API.                         *)
(***************************************************************************)
getSpaceAd(id) == [type |-> "space", id |-> id]
getConversationAd(id, spaceId) == [type |-> "conversation", id |-> id, spaceId |-> spaceId]
getMessageAd(message) ==
  [type |-> "message", id |-> message.id, role |-> message.role,
   parentId |-> message.parentId, conversationId |-> message.conversationId]

serializeSpace(masterKey, spaceKey, id, priv) ==
  [id |-> id, wrappedSpaceKey |-> Wrap(masterKey, spaceKey),
   encrypted |-> Seal(deriveDataEncryptionKey(spaceKey), getSpaceAd(id), priv)]
serializeConversation(key, id, spaceId, title) ==
  [id |-> id, spaceId |-> spaceId,
   encrypted |-> Seal(key, getConversationAd(id, spaceId), title)]
serializeMessage(key, message) ==
  [message |-> message, encrypted |-> Seal(key, getMessageAd(message), message.content)]

convertNewSpaceToApi(space) ==
  [SpaceTag |-> space.id, SpaceKey |-> space.wrappedSpaceKey, Encrypted |-> space.encrypted]
convertNewConversationToApi(conversation) ==
  [ConversationTag |-> conversation.id, Encrypted |-> conversation.encrypted]

\* The roles that have a number; for another the conversion throws.
ConvertibleRole == {"user", "assistant"}
convertRoleToApi(role) == IF role = "user" THEN UserInt ELSE AssistantInt
convertNewMessageToApi(serialized, remoteParentId, remoteId) ==
  [ID |-> remoteId, MessageTag |-> serialized.message.id,
   Role |-> convertRoleToApi(serialized.message.role), ParentID |-> remoteParentId,
   Encrypted |-> serialized.encrypted]
-------------------------------------------------------------------------------
(***************************************************************************)
(* Reading what the server lists.                                          *)
(***************************************************************************)
convertRoleFromApi(int) == IF int = UserInt THEN "user" ELSE "assistant"

\* A message names its parent by its remote id, which may not be in the listing.
ParentTag(rows, row) ==
  IF \E parent \in rows : parent.ID = row.ParentID
  THEN (CHOOSE parent \in rows : parent.ID = row.ParentID).MessageTag
  ELSE Absent

convertMessageFromApi(row, conversationTag, parentId) ==
  [id |-> row.MessageTag, conversationId |-> conversationTag, parentId |-> parentId,
   role |-> convertRoleFromApi(row.Role), encrypted |-> row.Encrypted]
convertMessagesFromApi(rows, conversationTag) ==
  {convertMessageFromApi(row, conversationTag, ParentTag(rows, row)) : row \in rows}

\* deserializeSpace() unwraps the space key first.
deserializeSpace(masterKey, row) ==
  UNION {Opened(deriveDataEncryptionKey(spaceKey), getSpaceAd(row.SpaceTag), row.Encrypted) :
         spaceKey \in Unwrapped(masterKey, row.SpaceKey)}
deserializeConversation(key, row, spaceTag) ==
  Opened(key, getConversationAd(row.ConversationTag, spaceTag), row.Encrypted)
deserializeMessage(key, message) == Opened(key, getMessageAd(message), message.encrypted)

\* findSpaceByName(): the name of a listed space, or {} and the space is passed over.
ProjectName(masterKey, row) ==
  UNION {decryptSpace(deriveDataEncryptionKey(spaceKey), row.Encrypted, row.SpaceTag) :
         spaceKey \in Unwrapped(masterKey, row.SpaceKey)}

\* loadExistingConversation(): the title and the messages of /load.
LoadedTitle(key, row, spaceId) ==
  decryptConversation(key, row.Encrypted, row.ConversationTag, spaceId)
LoadedMessage(key, message) ==
  decryptMessage(key, message.encrypted, message.id, message.conversationId, message.role,
                 message.parentId)
===============================================================================
