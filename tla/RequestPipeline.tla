----------------------------- MODULE RequestPipeline -----------------------------
(***************************************************************************)
(* A request to /v1/responses or /v1/chat/completions: its messages are    *)
(* persisted, it waits in the queue, LumoClient streams the answer (with a *)
(* title beside it, and a second completion when a tool call was           *)
(* misrouted), the streaming tool processor splits text from tool calls,   *)
(* the answer is persisted and the response is closed.                     *)
(*                                                                         *)
(* The steps are what Node runs between two waits.  The server and Lumo    *)
(* are as the code has them; the clients are external: each sends its      *)
(* whole history and waits for the answer, as OpenAI clients do.           *)
(***************************************************************************)
EXTENDS Integers, Sequences, FiniteSets, SequencesExt, Deduplication

CONSTANTS
  Slots,             \* requests the server may be handling at once
  Nobody,            \* no request
  Conversations,     \* conversations with an id; other requests are stateless
  Stateless,         \* the conversation of a request without an id
  ProfilesOf,        \* the kinds of request sent in each slot, and what Lumo may answer
  MaxTurns,          \* bound: messages in the history a client of each API sends
  MaxPieces          \* bound: what one completion streams

ASSUME BoundsOK == Nobody \notin Slots /\ MaxPieces \in Nat

(***************************************************************************)
(* What Lumo streams as text: prose, a fenced code block, the JSON of a    *)
(* custom tool call or of another object.  The detector writes a code      *)
(* block that is no tool call anew, without its language tag, and may lose *)
(* text.  "reply" is a command's answer.                                   *)
(***************************************************************************)
Piece == {"text", "block", "reblock", "object", "call", "lost",
          "reply", "question", "/title", "output"}
Message == [role : {"user", "assistant"}, content : Seq(Piece), call : Nat]
ProfileOK(p) ==
  /\ p.api \in {"responses", "chat"} /\ p.stream \in BOOLEAN
  /\ p.tools \in BOOLEAN /\ p.reasoning \in BOOLEAN
  /\ p.conversation \in Conversations \cup {Stateless}
  /\ p.answers \subseteq {"text", "block", "object", "call", "reasoning", "native", "misrouted"}

Profiles == UNION {ProfilesOf[r] : r \in Slots}
ASSUME ProfilesOK == Profiles # {} /\ \A p \in Profiles : ProfileOK(p)

VARIABLES
  request,           \* the requests in progress
  queue,             \* p-queue: the requests that wait for the one place
  running,           \* the request that has it
  stored,            \* the store: messages (semantic ids) and title
  history,           \* external: the history each client keeps
  reworded           \* ghost: an answer was stored otherwise than it was returned

vars == <<request, queue, running, stored, history, reworded>>

Event == [type : {"created", "added", "delta", "done", "completed", "error"},
          item : {"response", "reasoning", "message", "call"}, index : Nat]
Request ==
  [pc : {"idle", "queued", "message", "title", "ended"},
   profile : Profiles, turns : Seq(Message),
   bounce : BOOLEAN,                            \* the second completion is streamed
   content : Seq(Piece),                        \* of this completion
   firstTool : {"none", "native", "misrouted"}, \* its first native tool call
   thinking : BOOLEAN,                          \* reasoning was streamed
   title : {"none", "wanted", "running", "ready", "failed"},
   held : Seq(Piece),                           \* in the tool detector's buffers
   text : Seq(Piece), calls : Nat,              \* accumulatedText, toolCallsEmitted
   output : Seq({"reasoning", "message", "call"}),
   events : Seq(Event), outcome : {"none", "completed", "failed"}]

\* TypeOK: every variable has its type; the place in the queue is a request's.
TypeOK ==
  /\ request \in [Slots -> Request]
  /\ queue \in Seq(Slots) /\ running \in Slots \cup {Nobody}
  /\ stored \in [Conversations -> [messages : Seq(Message),
                                   title : {"untitled", "generated", "manual"}]]
  /\ history \in [Conversations -> Seq(Message)]
  /\ reworded \in [Conversations -> BOOLEAN]

User(content) == [role |-> "user", content |-> content, call |-> 0]
Assistant(content) == [role |-> "assistant", content |-> content, call |-> 0]
IdleRequest ==
  [pc |-> "idle", profile |-> CHOOSE p \in Profiles : TRUE, turns |-> <<>>,
   bounce |-> FALSE, content |-> <<>>, firstTool |-> "none", thinking |-> FALSE,
   title |-> "none", held |-> <<>>, text |-> <<>>, calls |-> 0, output |-> <<>>,
   events |-> <<>>, outcome |-> "none"]

Init ==
  /\ request = [r \in Slots |-> IdleRequest]
  /\ queue = <<>> /\ running = Nobody
  /\ stored = [c \in Conversations |-> [messages |-> <<>>, title |-> "untitled"]]
  /\ history = [c \in Conversations |-> <<>>]
  /\ reworded = [c \in Conversations |-> FALSE]

Stateful(q) == q.profile.conversation \in Conversations
-------------------------------------------------------------------------------
(***************************************************************************)
(* The events of a response.                                               *)
(***************************************************************************)
\* The reasoning item is announced only by a streamed /v1/responses.
HasReasoningItem(p) == p.api = "responses" /\ p.reasoning
MessageIndex(p) == IF HasReasoningItem(p) THEN 1 ELSE 0

Event1(type, item, index) == <<[type |-> type, item |-> item, index |-> index]>>
ReasoningItemEvent(p, type) ==
  IF HasReasoningItem(p) THEN Event1(type, "reasoning", 0) ELSE <<>>

\* A chat chunk with reasoning_content belongs to no item.
ChatReasoningDelta(p) == IF p.reasoning THEN Event1("delta", "reasoning", 0) ELSE <<>>
ReasoningDelta(p) ==
  IF p.api = "chat" THEN ChatReasoningDelta(p) ELSE ReasoningItemEvent(p, "delta")

\* Only a streamed response has events.
Emit(q, events) == IF q.profile.stream THEN q.events \o events ELSE q.events

\* A chat stream opens with its headers only.
ResponsesOpening(p) ==
  Event1("created", "response", 0) \o ReasoningItemEvent(p, "added")
  \o Event1("added", "message", MessageIndex(p))
Opening(p) == IF p.api = "chat" THEN <<>> ELSE ResponsesOpening(p)

ChatTextDelta(text) == IF text = <<>> THEN <<>> ELSE Event1("delta", "message", 0)
ResponsesTextDelta(p, text) ==
  IF text = <<>> THEN <<>> ELSE Event1("delta", "message", MessageIndex(p))
TextDelta(p, text) ==
  IF p.api = "chat" THEN ChatTextDelta(text) ELSE ResponsesTextDelta(p, text)

\* Faulty variant: the index does not allow for the reasoning item.
CallIndex_NoReasoning(p, i) == 1 + i

\* nextOutputIndex: calls follow the message.
CallIndex(p, i) == MessageIndex(p) + 1 + i

\* The n calls of an answer from the i-th on (from 0): each is one chunk of a chat, and an
\* item of a response, announced and closed at once.
ChatCallDeltas(i, n) ==
  [k \in 1 .. n |-> [type |-> "delta", item |-> "call", index |-> i + k - 1]]
ResponsesCallEvents(p, i, n) ==
  [k \in 1 .. 2 * n |-> [type |-> IF k % 2 = 1 THEN "added" ELSE "done",
                         item |-> "call", index |-> CallIndex(p, i + (k - 1) \div 2)]]

CallEvents(p, i, n) == IF p.api = "chat" THEN ChatCallDeltas(i, n) ELSE ResponsesCallEvents(p, i, n)

\* The items of an answer; reasoning is among them only if there was any.
OutputItems(q, calls) ==
  (IF q.profile.reasoning /\ q.thinking THEN <<"reasoning">> ELSE <<>>)
  \o <<"message">> \o [i \in 1 .. calls |-> "call"]

createCompletedResponse(q, calls) ==
  [q EXCEPT !.pc = "ended", !.outcome = "completed", !.output = OutputItems(q, calls)]

\* The items are closed in the order message, reasoning; calls are closed already.
ResponsesDone(p) ==
  Event1("done", "message", MessageIndex(p)) \o ReasoningItemEvent(p, "done")
  \o Event1("completed", "response", 0)
ResponsesClosing(q, calls) ==
  [createCompletedResponse(q, calls) EXCEPT !.events = Emit(q, ResponsesDone(q.profile))]

\* The last chunk of a chat, or its one object: choices[0].message has the text, the tool
\* calls and the reasoning.
ChatDone == Event1("completed", "response", 0)
ChatClosing(q, calls) ==
  [q EXCEPT !.pc = "ended", !.outcome = "completed", !.output = OutputItems(q, calls),
            !.events = Emit(q, ChatDone)]

Closing(q, calls) ==
  IF q.profile.api = "chat" THEN ChatClosing(q, calls) ELSE ResponsesClosing(q, calls)

ChatError == Event1("error", "response", 0)
ResponsesError == Event1("error", "response", 0)
Failing(q) ==
  [q EXCEPT !.pc = "ended", !.outcome = "failed",
            !.events = Emit(q, IF q.profile.api = "chat" THEN ChatError ELSE ResponsesError)]
-------------------------------------------------------------------------------
(***************************************************************************)
(* The streaming tool processor.  With custom tools text passes through    *)
(* the detector, which may hold any of it back; what one chunk releases is *)
(* emitted text first.                                                     *)
(***************************************************************************)
Rewritten(p) == IF p = "block" THEN "reblock" ELSE p
CountOf(pieces, kinds, i) == Cardinality({j \in 1 .. i : pieces[j] \in kinds})
TextKinds == Piece \ {"call", "lost"}
TextAt(pieces, n) ==
  CHOOSE i \in DOMAIN pieces : pieces[i] \in TextKinds /\ CountOf(pieces, TextKinds, i) = n
Texts(pieces) ==
  [n \in 1 .. CountOf(pieces, TextKinds, Len(pieces)) |-> Rewritten(pieces[TextAt(pieces, n)])]
CountCalls(pieces) == CountOf(pieces, {"call"}, Len(pieces))

\* What stands between two JSON objects that are not fenced; opened: one came before.
Objects == {"object", "call"}
BetweenObjects(pieces, opened) ==
  {i \in DOMAIN pieces : /\ pieces[i] \notin Objects
                         /\ opened \/ \E j \in 1 .. i - 1 : pieces[j] \in Objects
                         /\ \E j \in i + 1 .. Len(pieces) : pieces[j] \in Objects}

\* The brace tracker loses it when one chunk completes both objects; a chunk may end
\* between any two pieces, so each of these may be lost or not.
Readings(pieces, opened) ==
  {[i \in DOMAIN pieces |-> IF i \in lost THEN "lost" ELSE pieces[i]] :
     lost \in SUBSET BetweenObjects(pieces, opened)}

\* The first n of the pieces held are text and calls of the answer, read as these.
Release(q, n, pieces) ==
  [q EXCEPT !.held = SubSeq(@, n + 1, Len(@)), !.text = @ \o Texts(pieces),
            !.calls = @ + CountCalls(pieces),
            !.events = Emit(q, TextDelta(q.profile, Texts(pieces))
                               \o CallEvents(q.profile, q.calls, CountCalls(pieces)))]

\* The outcomes of onChunk(): the detector releases some of what it holds.
OnChunk(q, piece) ==
  IF q.profile.tools
  THEN LET fed == [q EXCEPT !.held = Append(@, piece)]
       IN  UNION {{Release(fed, n, pieces) : pieces \in Readings(SubSeq(fed.held, 1, n), FALSE)} :
                    n \in 0 .. Len(fed.held)}
  ELSE {[q EXCEPT !.text = Append(@, piece),
                  !.events = Emit(q, TextDelta(q.profile, <<piece>>))]}

\* Faulty variant: what the detector holds at the end of the stream is dropped.
Finalize_Dropped(q) == [q EXCEPT !.held = <<>>]

\* At the end no object is open but the last.
Finalize(q) == Release(q, Len(q.held), q.held)
-------------------------------------------------------------------------------
(***************************************************************************)
(* The clients.                                                            *)
(***************************************************************************)
CallId(q, i) == Len(q.turns) * (2 * MaxPieces) + i

\* How a client records an answer, as the server converts it back: a chat client sends
\* the tool calls of an answer only, with their ids; a call of /v1/responses loses its id.
Answer(q) ==
  LET calls == [i \in 1 .. q.calls |->
                  IF q.profile.api = "chat"
                  THEN [role |-> "assistant", content |-> <<"call">>, call |-> CallId(q, i)]
                  ELSE Assistant(<<"call">>)]
  IN  IF q.profile.api = "chat" /\ q.calls > 0 THEN calls
      ELSE <<Assistant(q.text)>> \o calls

\* The results of the tools a client has run; each carries the id of its call.
ToolOutputs(q) ==
  [i \in 1 .. q.calls |->
     [role |-> "user", content |-> <<"output">>, call |-> CallId(q, i)]]

\* What a client may send after its history: a new question or command, the outputs of
\* the tools it was asked to run (recorded at once), or an unanswered message again.
NextTurns(h) ==
  LET unanswered == h # <<>> /\ h[Len(h)].role = "user"
      outputs == unanswered /\ h[Len(h)].call # 0
  IN  (IF outputs THEN {}
       ELSE {Append(h, User(<<"question">>)), Append(h, User(<<"/title">>))})
      \cup (IF unanswered THEN {h} ELSE {})

TurnsOf(profile) ==
  IF profile.conversation \in Conversations THEN NextTurns(history[profile.conversation])
  ELSE {<<User(<<"question">>)>>}

\* The client has its response.  Without an answer it keeps its question.
ClientReads(r) ==
  LET q == request[r]
      c == q.profile.conversation
  IN  /\ q.pc = "ended"
      /\ request' = [request EXCEPT ![r] = IdleRequest]
      /\ history' = IF ~Stateful(q) THEN history
                    ELSE [history EXCEPT ![c] =
                            IF q.outcome = "completed"
                            THEN q.turns \o Answer(q) \o ToolOutputs(q) ELSE q.turns]
      /\ UNCHANGED <<queue, running, stored, reworded>>
-------------------------------------------------------------------------------
(***************************************************************************)
(* The route: persist the messages, then a command or the queue.           *)
(***************************************************************************)
\* The id of a tool message is its call's; of another message, its role and content.
SemanticId(m) ==
  IF m.call = 0 THEN m ELSE [m EXCEPT !.role = "assistant", !.content = <<>>]
SemanticIds(turns) == [i \in DOMAIN turns |-> SemanticId(turns[i])]

AppendMessages(c, turns) ==
  [stored EXCEPT ![c].messages =
     @ \o findNewMessages(SemanticIds(turns), @)]

IsCommand(turns) ==
  LET users == {i \in DOMAIN turns : turns[i].role = "user"}
      last == CHOOSE i \in users : \A j \in users : j <= i
  IN  turns[last].content = <<"/title">>

\* The title is asked for while the store has none, which is read before the request waits.
TitleWanted(profile) ==
  /\ profile.conversation \in Conversations
  /\ stored[profile.conversation].title = "untitled"

\* tryExecuteCommand() answers a command at once; it never waits.
AnswerCommand(r, open, after) ==
  LET c == open.profile.conversation
      reply == [open EXCEPT !.text = <<"reply">>,
                            !.events = Emit(open, TextDelta(open.profile, <<"reply">>))]
  IN  /\ request' = [request EXCEPT ![r] = Closing(reply, 0)]
      /\ stored' = IF Stateful(open) THEN [after EXCEPT ![c].title = "manual"] ELSE after
      /\ UNCHANGED queue

AddToQueue(r, open, after) ==
  /\ request' = [request EXCEPT ![r] =
       [open EXCEPT !.pc = "queued",
                    !.title = IF TitleWanted(open.profile) THEN "wanted" ELSE "none"]]
  /\ stored' = after
  /\ queue' = Append(queue, r)

\* Messages are persisted before the request waits, and so is a command.
Receive(r, profile, turns) ==
  LET q == [IdleRequest EXCEPT !.profile = profile, !.turns = turns]
      open == [q EXCEPT !.events = Emit(q, Opening(profile))]
      after == IF Stateful(q) THEN AppendMessages(profile.conversation, turns) ELSE stored
  IN  /\ request[r].pc = "idle" /\ Len(turns) <= MaxTurns[profile.api]
      /\ Stateful(q) => \A other \in Slots :
           \/ request[other].pc = "idle"
           \/ request[other].profile.conversation # profile.conversation
      /\ IF IsCommand(turns) THEN AnswerCommand(r, open, after) ELSE AddToQueue(r, open, after)
      /\ UNCHANGED <<running, history, reworded>>

\* The two routes differ in what names the conversation and in the conversion of messages.
ResponsesRequest(r) ==
  \E profile \in {p \in ProfilesOf[r] : p.api = "responses"} :
    \E turns \in TurnsOf(profile) : Receive(r, profile, turns)
ChatRequest(r) ==
  \E profile \in {p \in ProfilesOf[r] : p.api = "chat"} :
    \E turns \in TurnsOf(profile) : Receive(r, profile, turns)
-------------------------------------------------------------------------------
(***************************************************************************)
(* The queue, LumoClient and the end of the handler.                       *)
(***************************************************************************)
Update(r, q) == request' = [request EXCEPT ![r] = q]

\* Faulty variant: the request that came last is taken first.
StartJob_Newest ==
  /\ running = Nobody /\ queue # <<>>
  /\ running' = Last(queue) /\ queue' = Front(queue)
  /\ LET q == request[Last(queue)]
     IN  Update(Last(queue), [q EXCEPT !.pc = "message",
                                !.title = IF @ = "wanted" THEN "running" ELSE @])
  /\ UNCHANGED <<stored, history, reworded>>

\* chatWithHistory(): the title, if it is wanted, is a completion of its own.
StartJob ==
  /\ running = Nobody /\ queue # <<>>
  /\ running' = Head(queue) /\ queue' = Tail(queue)
  /\ LET q == request[Head(queue)]
     IN  Update(Head(queue), [q EXCEPT !.pc = "message",
                                !.title = IF @ = "wanted" THEN "running" ELSE @])
  /\ UNCHANGED <<stored, history, reworded>>

Streaming(r) == request[r].pc = "message"
Suppressed(q) == ~q.bounce /\ q.firstTool = "misrouted"

\* processStream(): a piece of the answer; after a misrouted call it is not passed on.
TextArrives(r, piece) ==
  LET q == [request[r] EXCEPT !.content = Append(@, piece)]
  IN  /\ Streaming(r) /\ Len(request[r].content) < MaxPieces
      /\ \E next \in (IF Suppressed(q) THEN {q} ELSE OnChunk(q, piece)) : Update(r, next)
      /\ UNCHANGED <<queue, running, stored, history, reworded>>

ReasoningArrives(r) ==
  LET q == request[r]
  IN  /\ Streaming(r) /\ q.profile.reasoning /\ ~q.thinking
      /\ Update(r, [q EXCEPT !.thinking = TRUE,
                             !.events = Emit(q, ReasoningDelta(q.profile))])
      /\ UNCHANGED <<queue, running, stored, history, reworded>>

\* feedToolCall(): only the first tool call of a completion counts.
ToolCallArrives(r, kind) ==
  /\ Streaming(r) /\ request[r].firstTool = "none"
  /\ Update(r, [request[r] EXCEPT !.firstTool = kind])
  /\ UNCHANGED <<queue, running, stored, history, reworded>>

\* Faulty variant: an answer with custom tool calls is stored as well.
PersistAssistantTurn_Always(s, q) ==
  IF ~Stateful(q) THEN s
  ELSE [s EXCEPT ![q.profile.conversation].messages = Append(@, Assistant(q.content))]

\* The client sends an answer with custom tool calls back, so it is not stored.
PersistAssistantTurn(s, q) ==
  IF ~Stateful(q) \/ q.calls > 0 THEN s
  ELSE [s EXCEPT ![q.profile.conversation].messages = Append(@, Assistant(q.content))]

PersistTitle(s, q) ==
  IF q.title # "ready" THEN s
  ELSE [s EXCEPT ![q.profile.conversation].title = "generated"]

\* Faulty variant: the tool calls are taken before the detector is flushed.
Finish_CallsEarly(r, q) ==
  \E final \in {Finalize(q)} :
      /\ Update(r, Closing(final, q.calls))
      /\ stored' = PersistAssistantTurn(PersistTitle(stored, final), final)
      /\ reworded' = IF Stateful(q) /\ final.calls = 0 /\ final.text # final.content
                     THEN [reworded EXCEPT ![q.profile.conversation] = TRUE] ELSE reworded
      /\ running' = Nobody
      /\ UNCHANGED <<queue, history>>

\* The job resolves: the place is free; flush, persist, close the response.
Finish(r, q) ==
  \E final \in {Finalize(q)} :
      /\ Update(r, Closing(final, final.calls))
      /\ stored' = PersistAssistantTurn(PersistTitle(stored, final), final)
      /\ reworded' = IF Stateful(q) /\ final.calls = 0 /\ final.text # final.content
                     THEN [reworded EXCEPT ![q.profile.conversation] = TRUE] ELSE reworded
      /\ running' = Nobody
      /\ UNCHANGED <<queue, history>>

\* Faulty variant: the second completion takes back what was said.
Bounced_TakenBack(q) ==
  [q EXCEPT !.bounce = TRUE, !.content = <<>>, !.firstTool = "none", !.text = <<>>,
            !.thinking = @ /\ q.profile.stream]

\* The call is asked for again: only the answer to that is the result.
Bounced(q) ==
  [q EXCEPT !.bounce = TRUE, !.content = <<>>, !.firstTool = "none",
            !.thinking = @ /\ q.profile.stream]

\* Faulty variant: the job does not wait for the title.
StreamEnds_TitleUnawaited(r) ==
  LET q == request[r]
  IN  /\ Streaming(r)
      /\ \/ /\ Suppressed(q)
            /\ Update(r, Bounced(q))
            /\ UNCHANGED <<queue, running, stored, history, reworded>>
         \/ /\ ~Suppressed(q) /\ q.title = "running"
            /\ Update(r, [q EXCEPT !.pc = "title"])
            /\ running' = Nobody
            /\ UNCHANGED <<queue, stored, history, reworded>>
         \/ /\ ~Suppressed(q) /\ q.title # "running"
            /\ Finish(r, q)

\* The completion is over: bounce a misrouted call, else wait for the title.
StreamEnds(r) ==
  LET q == request[r]
  IN  /\ Streaming(r)
      /\ \/ /\ Suppressed(q)
            /\ Update(r, Bounced(q))
            /\ UNCHANGED <<queue, running, stored, history, reworded>>
         \/ /\ ~Suppressed(q) /\ q.title = "running"
            /\ Update(r, [q EXCEPT !.pc = "title"])
            /\ UNCHANGED <<queue, running, stored, history, reworded>>
         \/ /\ ~Suppressed(q) /\ q.title # "running"
            /\ Finish(r, q)

\* The title arrives or fails, which only loses the title.
TitleEnds(r, result) ==
  LET q == [request[r] EXCEPT !.title = result]
  IN  /\ request[r].pc \in {"message", "title"} /\ request[r].title = "running"
      /\ IF q.pc = "title" THEN Finish(r, q)
         ELSE Update(r, q) /\ UNCHANGED <<queue, running, stored, history, reworded>>

\* Lumo answers with an error, or the connection breaks.  A title still running goes on,
\* beside the next job, and is used by nobody.
StreamFails(r) ==
  /\ Streaming(r)
  /\ Update(r, Failing(request[r]))
  /\ running' = Nobody
  /\ UNCHANGED <<queue, stored, history, reworded>>
-------------------------------------------------------------------------------
Arrives(r) ==
  LET answers == request[r].profile.answers
  IN  \/ \E piece \in answers \cap {"text", "block", "object", "call"} : TextArrives(r, piece)
      \/ "reasoning" \in answers /\ ReasoningArrives(r)
      \/ \E kind \in answers \cap {"native", "misrouted"} : ToolCallArrives(r, kind)

\* What ends a completion.
Ends(r) ==
  StreamFails(r) \/ StreamEnds(r) \/ \E result \in {"ready", "failed"} : TitleEnds(r, result)

Client(r) == ResponsesRequest(r) \/ ChatRequest(r) \/ ClientReads(r)

Next == StartJob \/ \E r \in Slots : Client(r) \/ Arrives(r) \/ Ends(r)

Spec == Init /\ [][Next]_vars

\* The queue starts jobs, and the completion of the running one ends or fails.
Fairness == WF_vars(StartJob) /\ WF_vars(\E r \in Slots : Ends(r))
FairSpec == Spec /\ Fairness
-------------------------------------------------------------------------------
(***************************************************************************)
(* Properties.                                                             *)
(***************************************************************************)
\* OneAtATime: exactly the request that has the place is being answered, until its title
\* is there as well, and exactly the requests in the queue wait, each once
\* (queue.ts:6-13, server.ts:21, client.ts:340-407).
OneAtATime ==
  /\ \A r \in Slots : request[r].pc \in {"message", "title"} <=> r = running
  /\ \A r \in Slots : request[r].pc = "queued" <=> r \in Ids(queue)
  /\ Cardinality(Ids(queue)) = Len(queue)

Terminal(event) == event.type \in {"completed", "error"}
Before(e, i, type) == {j \in 1 .. i - 1 : e[j].type = type /\ e[j].index = e[i].index}

\* StreamWellFormed: in a streamed response every item is announced once under an index of
\* its own, is written to only while it is open, and is closed when the response is
\* completed; nothing follows the end, whatever tools, reasoning, a bounce or an error
\* do to the stream (events.ts:38-274, request-handlers.ts:202-328).
StreamWellFormed ==
  \A r \in Slots :
    LET q == request[r]
        e == q.events
    IN  /\ \A i \in DOMAIN e : Terminal(e[i]) => i = Len(e)
        /\ q.pc = "ended" /\ q.profile.stream => e # <<>> /\ Terminal(e[Len(e)])
        /\ q.profile.api = "responses" => \A i \in DOMAIN e :
             /\ e[i].type = "added" => Before(e, i, "added") = {}
             /\ e[i].type \in {"delta", "done"} =>
                  /\ \E j \in Before(e, i, "added") : e[j].item = e[i].item
                  /\ Before(e, i, "done") = {}
             /\ e[i].type = "completed" => \A j \in 1 .. i : e[j].type = "added" =>
                  \E k \in j .. i : e[k].type = "done" /\ e[k].index = e[j].index

\* OutputAsAnnounced: the response object lists the items that were announced, each at its
\* output_index.  (Not claimed when reasoning was asked for and none came: its item is
\* announced but not listed.)  (request-handlers.ts:53-109, 192-217, 286-318)
OutputAsAnnounced ==
  \A r \in Slots :
    LET q == request[r]
        added == {i \in DOMAIN q.events : q.events[i].type = "added"}
    IN  q.outcome = "completed" /\ q.profile.api = "responses" /\ q.profile.stream
          /\ (HasReasoningItem(q.profile) => q.thinking) =>
        /\ Cardinality(added) = Len(q.output)
        /\ \A i \in added : q.output[q.events[i].index + 1] = q.events[i].item

\* LostBetweenObjects: a completed answer has returned all the tool calls Lumo streamed, and
\* all the text, in order, but for some that stood between two JSON objects, however long
\* the detector held them.  (When a call was misrouted the first of the two objects may be
\* one of the completion before.)
\* (streaming-processor.ts:60-75, json-brace-tracker.ts:53-95, request-handlers.ts:268)
LostBetweenObjects ==
  \A r \in Slots :
    LET q == request[r]
        readings == IF q.profile.tools
                    THEN {Texts(pieces) : pieces \in Readings(q.content, q.bounce)}
                    ELSE {q.content}
        calls == IF q.profile.tools THEN CountCalls(q.content) ELSE 0
    IN  q.outcome = "completed" /\ ~IsCommand(q.turns) =>
        /\ q.held = <<>>
        /\ \E texts \in readings : IsSuffix(texts, q.text) /\ (~q.bounce => texts = q.text)
        /\ q.calls >= calls
        /\ ~q.bounce => q.calls = calls

InProgress(q) == q.pc \in {"queued", "message", "title"}

\* StoreIsHistory: while a request is answered the store holds exactly the history the
\* client sent with it: failed answers, repeated requests, commands, answers with tool
\* calls (which are not stored) and tool outputs leave no gap and nothing twice.  (As long
\* as no answer was returned in other words than it was stored: see NothingStoredTwice.)
\* (responses/index.ts:140-146, shared.ts:81-111, deduplication.ts:60-96)
StoreIsHistory ==
  \A r \in Slots :
    LET q == request[r]
        c == q.profile.conversation
    IN  InProgress(q) /\ Stateful(q) /\ ~reworded[c] =>
          stored[c].messages = SemanticIds(q.turns)

\* EveryRequestEnds: a request that waits is answered or refused, whatever becomes of
\* those before it, their titles and their bounces (queue.ts:11-13, client.ts:374-421).
EveryRequestEnds == \A r \in Slots : request[r].pc = "queued" ~> request[r].pc = "ended"

\* What there is of the requests for those outside: a title and a bounce are not seen.
StateOf(q) ==
  CASE q.pc = "idle"   -> "free"
    [] q.pc = "queued" -> "waiting"
    [] q.pc = "ended"  -> q.outcome
    [] OTHER           -> "answering"
TopicOf(q) == IF q.pc = "idle" THEN Stateless ELSE q.profile.conversation
State == [r \in Slots |-> StateOf(request[r])]
Topic == [r \in Slots |-> TopicOf(request[r])]
Said == [r \in Slots |-> request[r].text]
Log == [c \in Conversations |-> stored[c].messages]

Promised == INSTANCE AnswerQueue WITH
  NoTopic <- Stateless, state <- State, topic <- Topic, said <- Said, line <- queue, log <- Log

\* AnswersInOrder: to its clients the server is an AnswerQueue, whatever streams, titles,
\* bounces, tool calls and errors go on inside: first come, first answered, one at a time;
\* nothing that was said is taken back; the store only grows, and by one message when an
\* answer is completed (queue.ts:6-13, request-handlers.ts:180-328, shared.ts:81-111).
AnswersInOrder == Promised!Spec

\* NothingStoredTwice: a message is not stored again when the client sends it back
\* (deduplication.ts:4-5 "OpenAI API sends full conversation history with each request. We
\* need to deduplicate to avoid storing duplicate messages.").
NothingStoredTwice ==
  \A r \in Slots :
    LET q == request[r]
    IN  InProgress(q) /\ Stateful(q) =>
          Len(stored[q.profile.conversation].messages) <= Len(q.turns)
================================================================================
