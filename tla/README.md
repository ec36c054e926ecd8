# TLA+ models of lumo-tamer

lumo-tamer is a single-process Node program that exposes Proton Lumo as an
OpenAI-compatible API and as a command line client. It keeps conversations in
memory (and, in its primary store, in IndexedDB), and uploads them, encrypted,
to Proton's servers. This directory holds TLA+ models of its stateful parts,
the TLC configurations that check them, and TLAPS proofs.

Source paths below are relative to `src/src/`; `packages/...` is
`src/packages/...`, `docs/...` is `src/docs/...`.

## 1. The system

Everything runs on one event loop. Code between two `await`s is never
interrupted, so the unit of interleaving, and of a TLA+ action, is what a call
does from one `await` on external input (network, timer, file) to the next.

| Part | State it keeps | Operations | Talks to | Hard behaviour | Correct when |
|---|---|---|---|---|---|
| FallbackStore `conversations/fallback/store.ts` | Map of conversations, LRU list, dirty flags | append, title, create from turns, get, mark synced/dirty, delete, evict | routes and commands call it; it calls AutoSync | bounded cache with entries that must not be lost; references to evicted states | Map and list agree, unsaved entries go last, what was just created stays |
| AutoSyncService `conversations/fallback/sync/auto-sync.ts` | two timers, three flags, two times | notifyDirty, executeSync, stop | store's callback; calls SyncService | timers racing with a running sync, failures, endless activity | no change is forgotten, each is taken over in bounded time |
| SyncService `.../sync-service.ts` | message id map, calls in progress | sync, syncById, loadExistingConversation | store, SpaceManager, Lumo API | two pushes at once, changes during a push, lost answers | what is clean is on the server, parents before children |
| SpaceManager `.../space-manager.ts` | current space and its key, conversation id map | getOrCreateSpace, load ids | Lumo API | check-then-create, restart loses the maps | one space per project, its own key for its contents |
| EncryptionCodec, KeyManager `conversations/fallback/sync/*`, `conversations/key-manager.ts`; `packages/lumo/src/serialization.ts` | keys | encrypt, decrypt, derive | SpaceManager, sagas, Lumo API | two writers and one reader that rebuilds the associated data from stored fields | whatever is sealed is opened from the row it is stored in |
| Deduplication `conversations/deduplication.ts` | none (pure) | findNewMessages, isValidContinuation, detectBranching | store | repeated, edited and reordered messages | exactly the new suffix is appended |
| Primary store `conversations/store.ts`, `init.ts`; `packages/lumo/src/redux`, `indexedDb` | Redux slices, IndexedDB rows with dirty marks, id map | the store's interface; push and refresh sagas | Lumo API through the request scheduler | sagas racing, restart with dirty data, id maps in three places | local, persistent and remote copies converge |
| Request scheduler `packages/lumo/src/remote/scheduler.ts` | two queues, running count | schedule, run next | every API call | limit and priority | never more than the limit, urgent first |
| API server and queue `api/server.ts`, `queue.ts` | p-queue of concurrency one | routes | stores, LumoClient | requests of one conversation overlap outside the queue | one completion at a time |
| Responses route `api/routes/responses/*` | sequence numbers, output items | stream events | LumoClient, store | event protocol with text, tools and errors | events well formed and closed once |
| Chat route, shared helpers `api/routes/*` | stream state | chunks, persist | LumoClient, store | abort, late title | answer persisted once |
| Tool detection `api/tools/*` | parser state, pending text | processChunk, finalize | routes | chunk boundaries | the same result however the text is cut |
| LumoClient `lumo-client/*` | stream parser, title promise | chat, title, bounce | Lumo API | second request after a misrouted tool call | one answer, one title |
| Auth `auth/*` | tokens, refresh timer, vault file | refresh, 401 handling, logout, login | API factory, vault, keychain, key file | overlapping refreshes, two processes on one vault, refresh against logout, keys that differ between starts | the session is never lost, a logout lasts, the vault can be opened, the keys are the account's |
| CLI and local actions `cli/*` | prompt loop, code block detector | detect, confirm, apply | LumoClient, store | blocks split over chunks, failing edits | the blocks are those of the text, an edit does what it says and its result is reported |
| Configuration, logging, metrics, mocks, shims, scripts | - | - | - | - | - |

`PROJECT.json` lists these parts with their status and, under "hazards", the
places in the code where the hard behaviour bites.

## 2. Modules

| Module | Models | Uses |
|---|---|---|
| `FallbackStore` | the fallback store, as pure operators on a record `store`, and a system of arbitrary calls | - |
| `AutoSyncService` | the scheduler's state and its operations, no environment | - |
| `AutoSync` | the scheduler in real time with changes, failing syncs and `stop()` | extends `AutoSyncService` |
| `ConversationSync` | store + scheduler + SyncService + SpaceManager + Lumo API | instances `FallbackStore`, `AutoSyncService`, `Codec` |
| `Deduplication` | `findNewMessages()` on sequences of semantic ids | - |
| `RequestPipeline` | routes, queue, LumoClient with title and bounce, tool processor, persistence, stream events | extends `Deduplication`, instances `AnswerQueue` |
| `AnswerQueue` | what the API server promises to its clients, without the streams, titles, bounces and tool calls inside | - |
| `IndexedDb` | the rows of the local database and the operations the sagas make on them | - |
| `Sagas` | the Redux sagas that push, retry, refresh and delete, and the Lumo API | extends `IndexedDb` |
| `PrimaryStore` | `initializeStore()`, the primary store's operations, restarts, another device | extends `Sagas` |
| `Codec` | what is sealed under which key and associated data, by two writers, and what the readers open | - |
| `Vault` | the vault file, and its key in keychain, key file or memory | - |
| `AuthManager` | refresh, 401 handling and logout in several processes on one vault | extends `Vault` |
| `BrowserLogin` | `extractBrowserTokens()`, as a function from what a browser holds to what is saved | - |
| `Login` | logins of the three kinds, logouts, password changes, starts | extends `BrowserLogin` |
| `StreamText` | texts as sequences of characters | - |
| `ToolDetector` | the streaming tool detector and the JSON brace tracker | extends `StreamText` |
| `CodeBlockDetector` | the CLI's code block detector | extends `StreamText` |
| `LocalActions` | confirmation and the read, edit, create and execute handlers of the CLI | extends `StreamText` |
| `AnswerStream` | an answer from Lumo over the network to the API server or the CLI | extends `LocalActions`, instances the detectors |
| `*Proofs` | theorems, section 5 | extend the module they are about |
| `MC*` | TLC instances | - |

Each module has a `TypeOK` where it has state; where no run lists it, it documents
the types and is part of an inductive invariant or nothing more.

### FallbackStore

A `ConversationState` is a JavaScript object that callers hold on to while the
Map may drop it or hold a new object for the same id. So states live in a heap
(`store.states`), messages in another (`store.messages`), and the Map
(`store.conversations`) holds references. Each method is an operator from store
to store, each call an action. Texts are abstracted: which incoming messages
are new, and how many, is an input. `evictIfNeeded` is a closed form of the
code's loop; `EvictsAsTheLoop` compares it with the loop written out turn by turn
(`EvictionLoop`), in the run `store` and by a proof.

### AutoSyncService and AutoSync

A timer is the time it has left, `lastSyncTime` is the time since then, and
`firstDirtyTime` only matters as zero or not. `AutoSync` adds discrete time: a
timer that reached zero fires before time goes on, and a sync takes any time up to
the bound of the run. `waiting` and `picked` are history variables: the age of the
oldest change no sync has taken over, and of the oldest one the running sync took
over; `took` is how long the sync that ended last has taken. `enabled` is true (the service is only
constructed so). `syncNow()` has no caller and is left out.

### ConversationSync

A call of `sync()` (made by auto-sync) or `syncById()` (made by `/save`) is a
record `call[c]`: its program counter names the request it waits for. A `Serve*`
action is the server handling the request, the next action of the call is the
handling of the answer up to the next request. `Refuse` and lost answers are the
two ways a request fails; both reach the code as an exception. The steps are
operators on a "world" (store, service, call), because one step can finish one
conversation, mark it synced and send the first request of the next one. Time is
abstracted: a timer that is set may fire at any moment.

The title and the message of a request are those read when the request is
built; the key it is encrypted with is that of the codec read at that moment.
The server answers 409 to a conversation or message whose tag exists, as
`packages/lumo/src/remote/api.ts:160` expects; it is otherwise obedient. A crash
loses everything in memory; a request that was sent and not served is never
served.

### RequestPipeline

A request is a record `request[r]`; its step is what the handler does between two
waits: `Receive` (the route up to `queue.add()`, or a whole command), `StartJob`
(p-queue starts `chatWithHistory()`), `TextArrives`, `ReasoningArrives` and
`ToolCallArrives` (`processStream()`), `StreamEnds`, `StreamFails` and `TitleEnds`
(the rest of `chatWithHistory()`, and with its result the rest of the handler).
The title runs beside the answer: it may end before it, after it, or, when the
answer failed, be forgotten. A misrouted tool call starts the second completion
(`bounce`) in the same response.

The text is a sequence of pieces: prose, a code block, a JSON object, the JSON of a
tool call. The tool detector is abstracted to a buffer of pieces of which any number
is released with a chunk and all at the end. It does not keep everything: a code
block that is no tool call comes out without its language tag, as
`completeCodeFence()` writes it, and what stands between two JSON objects may be lost
(`Readings`), since the brace tracker drops it when one chunk completes both
(`ToolDetector` has the characters). Events are
grouped: a content part is announced and closed with its item. The two APIs are
one handler with a `profile`, since they differ only in their events, the reasoning
item, and in how a client's copy of a tool call is converted back.

The clients are external: each keeps the history of its conversation, sends all
of it, waits for the answer, runs the tools it is asked to run, and after a
failure may send the same again. Two requests of one conversation at once are not
modelled. The store is reduced to the semantic ids of a conversation's messages
and where its title came from; dirty flags and eviction are `FallbackStore`'s.

`AnswerQueue` is the abstract specification of all this: requests ask and wait in
line, the first in line is answered when nobody else is, what was said of an answer
is only added to, it is completed (and logged) or refused, and the client leaves.
Under the refinement mapping (`State`, `Topic`, `Said`, `Log`) a request that streams, that was
bounced or that waits for its title is "answering", what was said is its text
so far, and the log of a conversation is what is stored of it. `AnswersInOrder` says
that every step of the pipeline is then a step of the queue or none.

### IndexedDb, Sagas and PrimaryStore

A row of the local database is a version of its content (created, titled here,
titled elsewhere), the flags `dirty` and `deleted`, and `by`, who serialized it:
every serialization draws a new initialization vector, so the comparison of
`clearDirtyIfUnchanged()` tells two rows of the same text apart. Every operator of
`IndexedDb` is one transaction.

A push (`pushSpace`, `pushConversation`, `pushMessage`) runs in one of two slots
of its id: `q`, the queue of `noRaceSameId()`, and `r`, a retry, which calls the
worker directly and so may overlap the queue. Its three steps are: begin (wait for
the mappings it needs, write the dirty row, decide between POST, PUT and
DELETE), the HTTP call up to the read that follows it, and the clearing write.
`callWithRetry` retries at once; a failed push sleeps and comes back as a retry,
or, after a 409 or another refusal, is given up. A refresh of what the server
lists has two steps, the decision and the write. What the program reads at one
moment and another actor changes before it is used is thus visible.

`PrimaryStore` adds what the application does: `initializeStore()` waits for the
listing, finds the project or creates it; messages, titles and deletions come in
any order; `Restart` reloads Redux from the rows and keeps any subset of
the mappings that were being written; another device titles and deletes. A
remote id is abstracted to whether it is known, since the server knows a
resource by its tag, the local id. Two history variables serve `NothingForgotten`:
`own`, the ids whose content in Redux this program wrote (not a refresh), and
`failed`, the ids whose last push was given up, did nothing although Redux has the
resource, or was cancelled with the retry watcher. Both start anew with the
program: a restart pushes every dirty row again.

### Codec

Ciphertext is a record of key, associated data and plaintext and opens only
with the same key and data. Each writer is an operator from a resource to the
row the server stores, each reader one from the row to the set of what it can
open, empty when it cannot. The role of a message exists twice (as number in the
row, as name in the associated data) and its parent in three forms; that the
two tables agree is what the theorems say. `ConversationSync` seals with
the same operators, and `Readable` checks them beside faults and restarts.

### Vault and AuthManager

`Vault` holds the file and the two places its key may be in; `getVaultKey` and
`ensureVaultKey` are operators on what these contain, keys of the wrong length
included. `AuthManager` runs several processes. A token set is a session and how
often it was refreshed; the access token may expire at any moment. A process
loads the vault, refreshes when the set is expired, and is then up: its timer, its
API calls that met a 401, and a manual refresh each call `refreshNow()`, whose
steps are the exchange, its answer, and the write of the vault. A logout
revokes and deletes in two steps. Crashes, lost answers and failed writes are
spent from one budget. The server always rotates refresh tokens, the case the
code is written for (`auth/token-refresh.ts`).

### BrowserLogin and Login

What a browser holds (persisted and active sessions, cookies, each of
some account) is chosen freely by the environment, the extraction is a function
of it. A login or rclone authentication may fail to read an existing vault, because the
keychain is locked, the key is another or the file is damaged: the code swallows that
and goes on as if there were no vault. `Login` remembers which account's keys under which password the vault ends
up with, which store the next start opens with which key, and with which key
the rows of each local database were written.

### Answers

`AnswerStream` sends the characters of an answer in deltas of any of a few
sizes, each as a line of the event stream, and lets the network cut the lines.
The parser puts them together, and the detector of the program (server or CLI)
reads what comes. A character here is a token such as a word, a brace or a
backtick, which is what the patterns of the code tell apart; `KeepChars` and
`HoldMax` scale the detectors' own lengths. The CLI then asks about each
block, applies the confirmed ones to `Files`, reports the results and sends them
back as the next message.

## 3. Runs

| Run | Instance | Shows |
|---|---|---|
| `autosync` | delays 2, 4, 8; syncs of up to 3 units, failing at will; ages up to 14 | TypeOK, NeverStranded, LatencyBound, RetriedWhenQuiet |
| `autosync_forced` | the same, syncs of at most 1 unit | ForcedAfterMaxDelay fails |
| `store` | 4 ids, cache of 3, 5 states, 5 messages | OrderMatchesMap, EvictsAsTheLoop, DirtyEvictedLast, CreatedStays |
| `sync` | 2 conversations, 3 messages, auto-sync and a /save, refusals, lost answers, failing startup, crashes, in four scenarios | MapsSound, ParentFirst, CleanUploaded, Readable, ProjectsAreFew |
| `requests` | one agent on one conversation through both APIs (tools, reasoning, bounce, commands) beside one stateless client; or an agent without a conversation whose answers have up to 3 pieces | OneAtATime, StreamWellFormed, OutputAsAnnounced, LostBetweenObjects, StoreIsHistory, EveryRequestEnds, AnswersInOrder (implements `AnswerQueue`) |
| `requests_twice` | as `requests` | NothingStoredTwice fails |
| `persistence` | seven scenarios of faults, restarts, changes and messages | MapSound, RequestsNameKnown, CleanUploaded, NothingForgotten, OneProject |
| `persistence_live` | one thread of two messages, or one message with a fault or a restart, under fairness | UploadedUnlessLost |
| `persistence_stranded` | a fault and a restart, under fairness | EventuallyUploaded fails |
| `auth` | a server and a terminal, one session refreshed up to twice, one fault, three states of keychain and key file | OneRefresh, SessionKept, ApiMatchesVault, VaultReadable, LogoutSticks |
| `login` | 2 accounts, 2 passwords, 2 sets of local keys, a vault that may not be read | SyncKeysAreTheAccounts, LocalDataReadable, ReloginOpensStore |
| `answers` | answers with tool calls, code blocks and edits (failing ones, and replacements with the four patterns of `String.replace()`), cut into 1, 2, 4 or all characters | TextConserved, FencedCallsFound, NativeCallWhole, AppliedReported, EditsAsWritten, BlocksAsWritten |

Bounds.

* `autosync`: the scaled delays keep the order of the real ones (5, 30, 60 s) and
  leave room for several debounce delays within the throttle; a sync may be longer
  than a debounce delay, and as long or shorter; the age bound
  exceeds `MIN_INTERVAL_MS + MAX_DELAY_MS`, so the latency bound is met, not
  cut off (15,123 states).
* `store`: 5 states over a cache of 3 reach an all-dirty cache, an eviction behind
  dirty entries, and an id that is evicted and created again (58,253 states up to
  the symmetry of ids).
* `sync`: three messages over two conversations are the least that give a thread of
  two next to another conversation. Everything at once is out of reach, so a behaviour
  keeps to one scenario: `saves` (a /save beside auto-sync on two conversations, without
  faults), `crashes` (auto-sync alone, one conversation making room for the other, every
  fault), `refusals` (a /save beside auto-sync on one conversation, refused requests, a
  startup that may fail, so that both look for the project) and `races` (the same with
  lost answers, crashes and one message): 535,385 states up to the symmetry of
  conversations.
* `requests`: histories of four messages hold a question, an answer with text and
  a tool call, and its output (three for chat, whose clients send an answer with
  tool calls without its text). With a conversation a completion streams one piece, and
  the bounce streams a second one into the same response; without one it streams up to
  three, the least with something between two objects (643,603 states).
* `persistence`: a budget says how many faults, restarts, changes and new
  resources a behaviour has. All at once are too many states, so each scenario
  of `MCBudgets` is one combination: a fault with a restart, a fault with a
  change, a change or deletion beside a new message, a restart with a change, two
  changes, a thread of two messages with a fault, and a project that exists before
  the start (1,061,454 states up to the symmetry of messages and spaces). One waiting
  push and one sleeping retry per id are enough for a retry to overlap the
  queue; a second attempt of `callWithRetry` only repeats the first.
* `auth`: two processes are what overlapping refreshes need; three generations
  allow a refresh beside one that is not saved yet. The key sources are the three in
  which the first look-up fails differently (476,909 states).
* `login`: two accounts are needed for keys and tokens to be mixed, two passwords
  for keys that no longer open, two sets of local keys for a vault that is replaced
  because it could not be read (299,824 states).
* `answers`: two answers give the CLI one round of results; two lines in the
  network let a cut fall inside one while another waits; two answers
  end within the opening of a block and within a block. Of the edits, one has a second
  operation whose text the first made ambiguous, so that it fails half-way, and one
  replaces by `$$`, `$&`, ``$` `` and `$'` (562,594 states).

Deadlock checking is on except where the system really may stop: when the
budget of `persistence` is used up and every push is done, when every process of
`auth` is down and no login is left, when the conversation of `answers` has ended.

Fairness. `AutoSync`: weak for time and for timers, which is what the
event loop gives; strong for the success of a sync, "an API that is tried again
and again does not fail every time". No fairness is assumed of changes, of
`stop()` or of failures. `RequestPipeline`: weak for p-queue starting a job, and weak
for the end of the running completion, which is an HTTP exchange that ends or
breaks; the code itself sets no timeout, so a Lumo that neither answers nor
closes would hold the queue. Clients and Lumo owe nothing else. `PrimaryStore`:
weak for every step of a push and of a refresh, for the listing, and for
`initializeStore()` going on after its wait: a saga that can continue does, and an
HTTP call ends. Faults are bounded by the budget, so no fairness of success is
needed; users and other devices owe nothing.

Each module also holds faulty variants of some operators (named
`operator_Variant`). They are not part of a specification; each is a plausible
bug under which one of the properties fails, which shows that the property can.

## 4. What the runs and models show of the code

Three runs end in a violation:

* `autosync_forced` - `auto-sync.ts:7` and `:20` and `docs/conversations.md:122` say that a
  sync is forced after 60 s regardless of activity. The max-delay timer is started only by
  a change that finds `firstDirtyTime` unset (`auto-sync.ts:71`), so a change made while a
  sync runs does not start it; the next change after the sync does. With steady activity a
  change waits up to 90 s, `MIN_INTERVAL_MS + MAX_DELAY_MS`, although every sync succeeds at
  once; that bound is `LatencyBound`.
* `requests_twice` - an answer is stored as Lumo sent it and returned as the tool
  detector wrote it. When these differ (a code block with a language tag, or text
  before a bounce), the answer the client sends back does not match, and it is
  stored a second time (`client.ts:395`, `streaming-tool-detector.ts:171-186`),
  although `conversations/deduplication.ts:4-5` says that duplicates are avoided.
* `persistence_stranded` - `docs/conversations.md:71-75` says "sync is automatic
  via Redux sagas" and "Sync state persists across restarts". When the answer to
  the creation of a space or conversation is lost after the server executed it,
  every later POST is answered with 409, which is taken for final
  (`packages/lumo/src/redux/sagas/spaces.ts:341`). The mapping is never recorded, and
  what belongs to the resource waits for ever, also after a restart.

The following are observations of the same models, not runs.

Auto-sync and fallback sync. A debounce timer that fires during a sync is
dropped (`auto-sync.ts:130`) and a successful sync does not reschedule: after a sync
of 5 s or more that succeeded, a change made during it waits for the next change,
however long that takes. `NeverStranded` and `RetriedWhenQuiet` say that this is the only
such case (`Missed`). `executeSync()`
clears the max-delay timer and only a successful sync resets `firstDirtyTime`, so
after a failure the maximum delay is never armed again (`auto-sync.ts:71`,
against :30). A title set while its conversation is pushed is marked synced
without being sent (`sync-service.ts:122`). `sync()` swallows the error of every
conversation, so the rescheduling of `auto-sync.ts:174` does not happen for a failed
upload (`sync-service.ts:124`). A sync forced by the
max-delay timer leaves the debounce timer, so the next sync can undercut the 30 s
throttle (`auto-sync.ts:71, 91`). `syncById()` pushes a conversation that a
running `sync()` is pushing (`sync-service.ts:159`). After a failed startup two
callers can both miss the project and both create it (`space-manager.ts:93`), against
"Project name (created if doesn't exist)" of `docs/conversations.md:27`, and a push then
mixes two keys, since the codec is read again for every message (`sync-service.ts:248`).
`ProjectsAreFew` bounds the projects by the callers; `Readable` says that what was
sealed with another project's key, or whose parent went there, is all that cannot be
read. After a restart every sync of a conversation with a
derived id is answered with 409, because only `/load` reads the existing ids
(`space-manager.ts:241`). A conversation that is evicted while it is pushed and created
again under its id is marked synced by the old push (`store.ts:404`). Nothing syncs
on exit (`auto-sync.ts:208`, `docs/conversations.md:123`).

Requests. What Lumo streamed before a misrouted call has been passed on, so the
client sees it before the bounced answer (`client.ts:146`,
against `docs/custom-tools.md:221-226`). The items of
all tool calls of a stream carry the response's id and other ids in
`response.completed` (`request-handlers.ts:240, 105`). A reasoning item is announced
and closed but not listed when no reasoning came (`request-handlers.ts:197, 73`).
A title that outlives a failed answer runs beside the next job, next to
`server.ts:21` "Process one request at a time"; the second completion of a bounce
streams into the first one's response (`client.ts:388`). A chat client's tool call and
its output share one semantic id (`message-converter.ts:74, 94`). Whether a title is
wanted is read before the request waits, and written after the answer
(`shared.ts:67`).

Primary store. A crash between the clearing of a row and the write of its mapping
leaves children that wait for ever. `waitForRemoteSpaces()` wraps a `dispatch` no
saga uses, so it always waits its 15 s and goes on whatever came; a listing that
comes later leads to a second project (`OneProject` has the condition `~blind`). A
project that another device deletes while it is in use, and a resource deleted
locally before its first push, are retried without end; so is a PUT that is
answered with 422, whose body is not awaited
(`packages/lumo/src/remote/api.ts:247`). A conversation that is created again over
a deleted clean row is never persisted. A listing that is older than a deletion
can bring the deleted conversation back to Redux, where nothing pushes it. A title
set between the two steps of a refresh of a row marked deleted is not sent: its
push finds the deletion clean and does nothing. (In the first case the content is
not in `own`, in the second the id is in `failed`; both came out when
`NothingForgotten`, which the smaller scenarios satisfied without these
conditions, was to be proved.) A dirty row of a message that is already on the
server is never cleaned. A listing under way overwrites a newer title with an
older one (`sagas/conversations.ts:354`). A crash of the retry watcher cancels the
sleeping retries of all messages (`sagas/messages.ts:219`). Messages are reloaded
in the order of their random keys, so the next message after a restart may take
another parent (`conversations/store.ts:533`). `updateConversationStatus` is not
pushed.

Auth. A refresh that is skipped because another one runs counts as a success
(`manager.ts:128-132`): the request then repeats with the old token. The refusal of a
revocation is swallowed (`logout.ts:25-39`) although `api/routes/auth.ts` reports
"Logged out successfully. Session revoked and tokens deleted.", hence the "clean"
logouts of `LogoutSticks`. When the vault cannot be written the API stays on the
old token (`manager.ts:138-146`); when the answer of a rotation is lost, or the
program ends before it is saved, the session is lost, hence "without faults" in
`SessionKept`. A key from the keychain is cached before its length is checked. A
refresh has no timeout (`token-refresh.ts:39`). A running server overwrites the vault
after a new `tamer auth` (`provider.ts:215`).

Logins. A logout deletes the only copy of locally generated keys. A login after a
password change keeps the `userKeys` under the old password, and the program falls
back to the fallback store. A
login that cannot read the vault, for whatever reason, generates new keys and writes the
vault over (`login/authenticate.ts:35-39`, `rclone/authenticate.ts:77-81`), although the
comment at `login/authenticate.ts:17` says that it "Preserves sync data (userKeys,
masterKeys) from existing vault if present": the next start opens a new, empty database,
and the keys of the old one are gone when they were local ones. `ReloginOpensStore` allows
that and nothing else. A vault with `userKeys` and no `masterKeys` is not
healed by login or rclone, although the warning says "Re-authenticate to enable". A
browser login with `enableSync` false drops the keys; with the primary store,
`enableSync` false still syncs (`docs/conversations.md:26`).

Answers. Text between two raw JSON objects that one delta completes is dropped
(`json-brace-tracker.ts:89`), so an answer can lack it although the stored message has
it: `LostBetweenObjects` says that nothing else is; whether raw JSON is recognised depends on the deltas. A
closing fence that is split, with text after it in the same delta, is missed
(`streaming-tool-detector.ts:163`; the exception `CutsFence` of `FencedCallsFound`). A
word of more than 15 characters before a fence makes the CLI miss the block
(`code-block-detector.ts:117`). At the end of an answer the CLI prints held backticks
before an unfinished block and drops the opener of an empty one. A REPLACE without
DIVIDER takes the replacement of the operation before (`edit-applier.ts:60-107`);
`$$`, `$&`, ``$` `` and `$'` in a replacement are expanded, so that code which contains them
is not written as it stands (`edit-applier.ts:164`); "Edit failed" is reported
although earlier operations of the block were written (`edit-applier.ts:172`); overlapping occurrences
count once. A failed request leaves the user's message unanswered and forgets
the blocks. A chunk that cannot be decrypted is left out of the answer
(`lumo-client/client.ts:125-136`).

## 5. Proofs

TLAPS checks the following for every value of the constants.

`AutoSyncProofs`, for syncs of any length, every bound on ages, and all delays that
satisfy `DelayAssumption` (twice the debounce delay <= minimum interval <= maximum
delay, as 5, 30 and 60 s do):

* `TypeCorrect`: `Spec => []TypeOK`. It contains that no timer exceeds its
  maximum, which rests on the throttle being at most `MIN_INTERVAL_MS`.
* `ChangesNeverStranded`: `Spec => []NeverStranded`. Strengthening: `InFlightArmed`, a change
  made during a sync has a timer with at least `DEBOUNCE_MS` minus the sync's
  elapsed time, unless the sync has taken that long.
* `LatencyBounded`: `Spec => []LatencyBound`. `SinceItBegan` is the part about a running
  sync. For the rest, the invariant `Latency` splits
  waiting changes into those whose debounce timer runs (deadline
  `MIN_INTERVAL_MS`) and those for which a later change started the max-delay timer
  (deadline `MIN_INTERVAL_MS + MAX_DELAY_MS`). A failed sync, or one of `DEBOUNCE_MS` or
  more, breaks it, and the beginning of the next sync restores it, hence the conditions
  of `LatencyInv` (`~failed \/ isSyncing`, `Prompt`).

`FallbackStoreProofs`, for any number of conversations, any capacity of two or more and any
sequence of calls (`StoreAssumption`): `OrderIsTheMap`, `CleanEvictedFirst`,
`CreatedIsKept`. The invariant is `StoreOK`: the LRU list has the ids of the Map, each
once (`Lists`); the Map refers to states of its own ids (`Held`); each message
names the one before it as its parent (`Chained`); the Map is not larger than its
maximum (`Small`). Most of the work is in `evictIfNeeded`, which is analysed once for an
arbitrary store. `EvictionIsTheLoop` adds that this closed form is the `while` loop of the
code, which ends within one turn of the list: what `k` turns leave is the list rotated by
`k` entries (`TurnedOK`), and a function that obeys the equation of the loop is the
loop (`LoopIs`). Every operation has a lemma about what it keeps of
`StoreOK` and what it may do to the other states; `ConversationSyncProofs` cites
these for the store inside the composition.

`ConversationSyncProofs`, for any numbers of conversations, messages, spaces and
concurrent `/save` commands, with refusals, lost answers, failed startups
and crashes (`SyncAssumption`):

* `MappedIsThere` and `ThreadsAreWhole`. Neither is inductive. `SyncOK` adds to
  them `StoreOK` of the store and, for each call, `CallOK`: the message being sent is
  the one before the cursor, everything before it is mapped, its parent among it
  (`MessageOK`), and an answer that is there says what the server did (`ReplyOK`).
  That a conversation may grow during its push does not break it, since
  messages are only appended.
* `CleanIsUploaded`, if no conversation makes room for another one (`Roomy`: at
  most `MaxConversations` ids). The hypothesis is needed: a conversation that is evicted
  while it is pushed and then created again is marked synced by the old push,
  though nothing of the new state was sent (section 4). `CleanOK` says that
  the states being pushed are those of the Map and that a clean one is
  mapped unless a `/save` is pushing it, and that a `/save` that ends has mapped all.
* `ProjectsStayFew`. `FewOK`: the projects that are there and the calls that are about to
  create one (`Creators`) are together no more than the calls. A call becomes a creator
  only while the server has no project, so what it adds to the second number is paid for by
  its own place among the calls, until it is counted in the first. With auto-sync alone
  the bound is one.
* `EverythingIsReadable`. What makes an upload unreadable is a key or
  a parent that is not the one its reader rebuilds. `KeyOK` says that the cached space,
  the space a conversation is mapped to, the target of a request and the key it is
  encrypted with are projects that exist, through every step of a call
  (`Aims`), that a message and its parent are of one conversation, and that a project lists a
  message once (`ListedOK`). From there
  the rows of a listing satisfy the hypotheses of `RowRead` when they are of their
  project (`OfProject`, `Whole`), which gives what is read; with one project they all are.

`RequestPipelineProofs`, for any numbers of requests, conversations and kinds of
request, histories and answers of any length, and any way the detector releases its
pieces, from `BoundsOK` and `ProfilesOK`. It holds the lemmas on deduplication as well.
All steps are brought to one form first: a step of the system moves
one request (`Moves`) and does one of seven things to the queue (`Places`).

* Deduplication, for any sequences and ids: the loop's result exists and is
  characterised (`MatchedIsCount`, by the least unmatched position);
  `OnlyStoredDropped`, what is left out of a request is stored already;
  `ContinuationAppended`, a store that holds the beginning of a history becomes exactly
  that history, even with repeated messages.
* `TypeCorrect` and `AnsweredOneAtATime`, from `PipelineOK`: types, and `Waiting`,
  which says that the ids in the queue are different and are those of the waiting
  requests.
* `StoreIsTheHistory`. `StoresOK` covers what `StoreIsHistory` does not speak of: only
  one request of a conversation is there; between two requests, and after a failure or
  an answer with tool calls, the store holds the beginning of the history the client has
  then, which is where `ContinuationAppended` takes over at the next request.
* `AnswersAreWhole`. `Lossless`: at every moment what Lumo has streamed is a part the
  detector has read (`ReadSoFar`) and the pieces it holds; what was returned is the text and
  the calls of a reading of that part, preceded, after a bounce only, by what the first
  completion returned. Two lemmas make it independent of where the answer is cut:
  readings of two parts put together are a reading of the whole, and a reading of two
  completions ends with one of the second, whose first object may be in the first
  (`ReadingsRest`).
* `StreamsAreWellFormed` and `OutputIsAsAnnounced`. `Streamed`: while a request is
  answered, its events have announced exactly the reasoning, the message and its calls so
  far (`Open`), with calls closed and the others not; what a step adds may follow
  (`Follows`); what ends the answer closes what is open (`Closes`) or is an error. The
  lemma `OpenOn` puts the two together for sequences of any length.
* `ServerIsAnAnswerQueue`: `Spec => AnswersInOrder`, the refinement of `AnswerQueue`. A
  step of one request changes the four mapped functions in one place (`Mapped`);
  there is one lemma per action for the abstract step it is (`StartPromised`,
  `ReceivePromised`, `OnPromised`, `AnswerPromised`, `LeavePromised`). They rest on
  `PipelineOK` (who is first in line, that nobody else is answered), on `Lossless`
  (nothing is said before an answer begins), on `OutcomeKnown` (an answer that ended was completed or
  refused) and on `MovesSays`: a step leaves the text as it was or adds to its end.

The end of `ConversationSyncProofs` is about `Codec` alone, without assumptions on keys,
ids and contents: `FallbackMessagesReadable`, `PrimaryMessagesReadable`,
`ConversationsReadable` and `SpacesReadable`. The reader rebuilds the associated data from the row, so the
proofs come down to the two role tables and to the parent that is sealed being the
parent that is stored.

`AnswerStreamProofs`, for any answers, native tool calls, deltas, pieces of the network,
languages and blocks, from `AnswersAreText`, `StreamBounds` and, for the last theorem
only, `FilesAreText` and `IntendedIsRead`. The detectors
work in rounds, over chunks, over characters; every such loop is a recursive function,
and one lemma (`Recursion`) says that the function a loop defines exists.

* `EveryResultIsReported`. `ReportedOK`: what was applied is what the turns report
  followed by what the next one will, whatever the user skips.
* `NativeCallsAreWhole`. `StreamOK`: until the stream ends, what was handed on,
  followed by what the buffer and the network still hold, is what Lumo has sent, for text
  and for tool calls; lines and newlines alternate (`Alternates`), so that a line is
  handled when its newline comes, and the last one by `finalize()` if it has none.
* `EveryCharacterIsKept`. A detector has a weight, how often a character is in
  what it has emitted, keeps, dropped or lost (`ToolWeight`, `BlockWeight`), and
  `Weighed` says that the weight is what was handed on. Every branch of the two detectors
  is shown to keep the weight: the tracker of braces character by character
  (`FedStep`), a round in each state, a delta (`ToolChunk`, `BlockChunk`), the end
  (`ToolEnds`, `BlockEnds`). It rests on an invariant of the tool detector, `InObject`:
  in raw JSON the tracker is inside an object or at its brace, or else it would
  discard text. Not counted are the characters that detectors write (fences,
  newlines, `json`) and language tags.
* `EditsDoAsTheySay`, for any files and edit blocks, whether they succeed or fail.
  `Journalled` says of every entry of the journal that it was `AsWritten`. Under it lie the
  operators of `LocalActions`: an operation is done if and only if its text stands
  once, that is, all of its places overlap each other, and the operations are
  applied to what the ones before them left, the failed ones included. What is put in place is
  the replacement as written unless it has one of the four patterns of `String.replace()`
  (`Patterns`), which are expanded (edit-applier.ts:164). `IntendedIsRead` says that `Intended`
  lists what `parseEditBlock()` reads; TLC evaluates it on the instance.

`PrimaryStoreProofs`, for any numbers of spaces, conversations and messages, any
budget and both slots of pushes, from `SagasAssumption` (the three kinds of id
are disjoint, the bounds are positive numbers). The invariants build on each other.

1. `MappingsSound`, `RequestsSound`, `CleanRowsUploaded`. None of the three is
   inductive. A mapping may come from a refresh that was decided earlier, a clean row
   from a push whose answer arrived earlier, and both from another push of the same id.
   `Entitled` adds to `MapSound` the shape of the functions, that a push which is
   about to clear was answered (`RunsSound`), that a refresh under way is of a
   resource the server had (`RefreshesSound`), and that a present clean row is
   known or deleted (`RowsSound`). The argument that a step of the environment keeps
   all this is one fact, `Remembers`: the server never forgets a tag, deleted or not.
2. `NothingIsForgotten`. That a push is pending says nothing about what happens when it
   ends, so `Followed` says it of the runs: one that was answered leaves nothing
   newer behind unless another push follows it; and one whose snapshot is still the row
   carries the newest content, unless another push was requested. The second part
   is why the comparison of `clearDirtyIfUnchanged()` suffices although it is a read
   and a write in two transactions, with a retry that overlaps the queue: a run
   that finds another row starts over, one that finds its own has sent everything.
   `Contents` holds the versions and the shape of refreshes, among them that a
   deletion is only started for what the server has deleted. Steps that no push of an id
   takes part in are treated at once (`Frame`).
3. `ProjectIsOne`, if the account has at most one project to begin with and the
   space ids are finitely many. `Single` is about the spaces that are a project or may
   still become one (`Candidate`): unless the lookup was blind, there is at most one, and
   while the store starts, it is in Redux or comes with the listing or a refresh
   (`Seen`). A lost answer of the creation, a crash and a restart change neither.

`AuthManagerProofs`, for any numbers of processes,
requests, sessions, refreshes and faults and any state of keychain and key file,
from `AuthBounds`. The invariant is built in layers, each proved with the ones
below it.

1. Types (`TypeCorrect`).
2. `Alone`: one caller of a process refreshes at a time, and a starting process has
   no request under way. The flag `isRefreshing` alone is not inductive, since the
   caller clears it whatever others do, and the startup refresh does not set it.
   `RefreshesAlone` follows.
3. `Owned`: whatever token set anyone holds was given out by the server, and the
   one being saved is the one in memory.
4. `KeyAgreed`: the key a running process found is the one every later start
   finds. `VaultsOpen` follows: what is written can be read.
5. `Rotating`: tokens that were answered and not saved yet are the current ones of
   their session and nobody else has them, because a refresh token works once.
   `SessionsLast`: until a fault or a logout, the current refresh token is in the
   vault or on its way to it.
6. `Ended`: after a clean logout the session is revoked, nobody waits for an answer
   about it, and the vault does not hold it. `CleanLogoutsLast`: no step brings it back.

7. `BehindAlone`: tokens the API does not send yet, because their save is under way
   or failed, are known to their process only. `SavedTokensAreUsed` follows: it is
   never the vault's tokens that are not used.

`LoginProofs`, for any numbers of accounts, passwords and locally generated keys, from
`LoginBounds` and `AccountsAssumption`: `UploadsUnderOwnKey`,
`LocalDataOpens`, `ReloginsOpenStore`. The invariant is `KeysOK`: the master keys in
a vault that a browser login wrote are some of those of the vault's account
(`VaultOK`), the rows of a database are written under the key of its name (`DbOK`), and
the program uses a key of the account whose tokens it has (`AppOK`). That keys generated
for a vault that could not be read never meet an old database is the last part of `DbOK`:
no database is named after a pair that was not generated yet.

Only model-checked: the liveness properties, which are out of the prover's
reach; and `FencedCallsFound` and `BlocksAsWritten`, which compare what was found
in an answer with what was written into it, a list that only an instance has.

## 6. Not modelled

* Primary store and sagas: attachments, `pullSpace`, the deletion of all spaces and
  its handler, starred flags, status and ghost mode, placeholders, the removal of orphans, search
  and assets. They repeat the push and refresh scheme, or no caller of the program
  reaches them. A pull of a full message is the refresh of its conversation.
* The request scheduler of `packages/lumo/src/remote` only limits how many calls run at once;
  every call here may take any time anyway.
* `/load` (`loadExistingConversation()`), which replaces the messages of a conversation
  that a push may be iterating over, and two requests of one conversation at the
  same time: both are hazards without a property. Each multiplies the states of
  its composition by those of another actor.
* `syncNow()` and `deleteAllSpaces()` have no caller.
* Stream lines about usage, content filters and server tools, and the counters of
  `getHealth()`: nothing depends on them.
* What a command does to files, ciphers, the automation of the browser and the SRP
  exchange are external.
* Configuration, metrics, logging, mocks, shims and scripts keep no state a property
  is about.

What would come next: `/load` beside a running push.
