----------------------------- MODULE AnswerStream -----------------------------
(***************************************************************************)
(* An answer of Lumo on its way to the API server and to the CLI.          *)
(*                                                                         *)
(* Lumo sends the answer in deltas of any size, one line of the event      *)
(* stream each, and the network delivers the lines in pieces of any size.  *)
(* V2StreamProcessor (src/src/lumo-client/v2-stream.ts) puts the lines     *)
(* together again; the text then goes through the detector of custom tool  *)
(* calls (server) or of code blocks (CLI), which both look for patterns    *)
(* that deltas cut anywhere.  The CLI asks about every block, applies it   *)
(* and sends the results back, until an answer has no blocks               *)
(* (src/src/cli/client.ts, cli/local-actions).                             *)
(***************************************************************************)
EXTENDS LocalActions

CONSTANTS ServerAnswers, CliAnswers,  \* the answers: their text, and the fenced tool calls or
                                      \* the code blocks that stand in it
          Intended,                   \* from the edit blocks to the operations they describe
          DeltaSizes,                 \* how many characters a delta has; or all that is left
          ToolParts,                  \* the deltas of a native tool call: its name comes first
          NativeAnswers,              \* the answers that come with one
          KeepChars, HoldMax, WordChars, Languages,
          Files,                      \* the files at the beginning
          MaxWire,                    \* bound: lines on the wire
          MaxAnswers                  \* bound: answers in one run of the CLI

\* An answer, and a tool call, is a sequence of pieces of any kind.
ASSUME AnswersAreText ==
  /\ \A a \in ServerAnswers \cup CliAnswers : a.text \in Seq(Range(a.text))
  /\ ToolParts \in Seq(Range(ToolParts))
  /\ KeepChars \in Nat

\* A file is a sequence of lines.
ASSUME FilesAreText == Files \in [DOMAIN Files -> Seq(UNION {Range(Files[f]) : f \in DOMAIN Files})]

\* Intended tells what a block describes: that is what parseEditBlock() reads in it.
ASSUME IntendedIsRead ==
  \A content \in DOMAIN Intended :
    LET read == parseEditBlock(content)
        ops == Intended[content].operations
    IN  /\ Len(ops) = Len(read) /\ read # <<>>
        /\ \A n \in DOMAIN read :
             read[n] = [filename |-> Intended[content].file, search |-> ops[n][1],
                        replace |-> ops[n][2]]

ASSUME StreamBounds == MaxWire \in Nat \ {0} /\ MaxAnswers \in Nat \ {0} /\ DeltaSizes \subseteq Nat

Tools == INSTANCE ToolDetector
Blocks == INSTANCE CodeBlockDetector WITH Actionable <- Languages

VARIABLES program,   \* "server" or "cli"
          answer,    \* the answer that Lumo is sending, with what was sent of it
          wire,      \* the lines in the network
          reader,    \* the V2StreamProcessor and what it has handed on
          detector,  \* the detector of the program
          cli        \* the conversation of the CLI, its blocks and the files

vars == <<program, answer, wire, reader, detector, cli>>

-----------------------------------------------------------------------------
(* Lumo and the network. *)

Text(s) == [type |-> "text", content |-> s]
Tool(part) == [type |-> "tool", content |-> <<part>>]
Done == [type |-> "done", content |-> <<>>]
Newline == [type |-> "newline", content |-> <<>>]

NewAnswer(a, parts) ==
  [text |-> a.text, holds |-> a.holds, sent |-> 0, tools |-> parts, toolsSent |-> 0,
   closed |-> FALSE]

Open == cli.phase = "streaming" /\ ~answer.closed
Room == Len(wire) <= 2 * (MaxWire - 1)

SendText(n) ==
  /\ Open /\ Room /\ answer.sent + n <= Len(answer.text)
  /\ answer' = [answer EXCEPT !.sent = @ + n]
  /\ wire' = wire \o <<Text(SubSeq(answer.text, answer.sent + 1, answer.sent + n)), Newline>>
  /\ UNCHANGED <<program, reader, detector, cli>>

SendTool ==
  /\ Open /\ Room /\ answer.toolsSent < Len(answer.tools)
  /\ answer' = [answer EXCEPT !.toolsSent = @ + 1]
  /\ wire' = wire \o <<Tool(answer.tools[answer.toolsSent + 1]), Newline>>
  /\ UNCHANGED <<program, reader, detector, cli>>

\* The stream ends with [DONE] or without it, after a newline or not.
Close ==
  /\ Open /\ answer.sent = Len(answer.text) /\ answer.toolsSent = Len(answer.tools)
  /\ answer' = [answer EXCEPT !.closed = TRUE]
  /\ wire' \in {wire, wire \o <<Done, Newline>>, wire \o <<Done>>}
               \cup (IF wire # <<>> THEN {Front(wire)} ELSE {})
  /\ UNCHANGED <<program, reader, detector, cli>>

-----------------------------------------------------------------------------
(* v2-stream.ts and LumoClient.processStream(). *)

NewReader ==
  [buffer |-> <<>>, messages |-> <<>>, toolCall |-> <<>>, native |-> <<>>,
   handled |-> 0, cut |-> FALSE, done |-> FALSE]

\* handleLine(): the deltas of a tool call are put together, the rest is handed on.
handleLine(r, line) ==
  CASE line.type = "text" -> [r EXCEPT !.messages = Append(@, line.content)]
    [] line.type = "tool" -> [r EXCEPT !.toolCall = @ \o line.content]
    [] OTHER              -> [r EXCEPT !.done = TRUE]

handlePiece(r, piece) ==
  IF piece.type = "newline"
  THEN IF r.buffer = <<>> THEN r ELSE handleLine([r EXCEPT !.buffer = <<>>], r.buffer[1])
  ELSE [r EXCEPT !.buffer = <<piece>>]
processChunk(r, chunk) ==
  LET after[n \in 0 .. Len(chunk)] == IF n = 0 THEN r ELSE handlePiece(after[n - 1], chunk[n])
  IN  after[Len(chunk)]

\* finalize(): the last line may lack its newline; the tool call is complete now.
flushToolCalls(r) ==
  [r EXCEPT !.native = IF r.toolCall = <<>> THEN @ ELSE Append(@, r.toolCall), !.toolCall = <<>>]

\* Faulty variant: the buffered line is dropped.
finalizeStream_LineDropped(r) == flushToolCalls(r)

finalizeStream(r) ==
  flushToolCalls(IF r.buffer = <<>> THEN r
                 ELSE handleLine([r EXCEPT !.buffer = <<>>], r.buffer[1]))

\* What the program does with one delta of text.
onChunk(d, chunk) ==
  IF program = "server" THEN Tools!processChunk(d, chunk) ELSE Blocks!processChunk(d, chunk)

onChunks(d, chunks) ==
  LET after[n \in 0 .. Len(chunks)] == IF n = 0 THEN d ELSE onChunk(after[n - 1], chunks[n])
  IN  after[Len(chunks)]

onEnd(d) == IF program = "server" THEN Tools!finalize(d) ELSE Blocks!finalize(d)

\* Ghost: a delta cuts the text where the detectors are known to miss a fence.  For the tool
\* detector that is a delta that begins within a closing fence and goes on after it
\* (streaming-tool-detector.ts:163 looks at the end of its buffer only); for the block
\* detector, one that ends in a fence after a word too long to be held back with it
\* (code-block-detector.ts:117).
CutsFence(from, to) ==
  IF program = "server"
  THEN \E i \in Places(answer.text, Fence) : i < from /\ from <= i + 2 /\ to > i + 2
  ELSE LET start == Blocks!PartialFence(SubSeq(answer.text, 1, to))
       IN  /\ start # 0 /\ to - start + 1 > HoldMax
           /\ \A k \in start .. to : answer.text[k] \in WordChars \cup {Tick}

\* The messages have been handed on; how much text that was.
Delivered(r) ==
  LET From_(i) == r.handled + Len(FlattenSeq(SubSeq(r.messages, 1, i - 1))) + 1
  IN  [r EXCEPT !.messages = <<>>, !.handled = From_(Len(r.messages) + 1) - 1,
                !.cut = @ \/ \E i \in DOMAIN r.messages :
                                  CutsFence(From_(i), From_(i + 1) - 1)]

Read(k) ==
  /\ cli.phase = "streaming" /\ ~reader.done /\ k <= Len(wire)
  /\ wire' = SubSeq(wire, k + 1, Len(wire))
  /\ LET r == processChunk(reader, SubSeq(wire, 1, k))
     IN  /\ detector' = onChunks(detector, r.messages)
         /\ reader' = Delivered(r)
  /\ UNCHANGED <<program, answer, cli>>

-----------------------------------------------------------------------------
(* cli/client.ts *)

\* ghosts: applied, the results of the blocks that were applied; journal, the edits.
NewCli ==
  [phase |-> "prompt", turns |-> <<>>, blocks |-> <<>>, next |-> 1, results |-> <<>>,
   files |-> Files, answers |-> 0, applied |-> <<>>, journal |-> <<>>]

NewStream(a) ==
  /\ answer' = NewAnswer(a, <<>>)
  /\ wire' = <<>>
  /\ reader' = NewReader
  /\ detector' = IF program = "server" THEN Tools!NewDetector ELSE Blocks!NewBlockDetector

User(results) == [role |-> "user", results |-> results]
Assistant == [role |-> "assistant", results |-> <<>>]

\* handleUserInput(): a message; its answer is an input.
Ask(a) ==
  /\ program = "cli" /\ cli.phase = "prompt" /\ cli.answers < MaxAnswers
  /\ NewStream(a)
  /\ cli' = [cli EXCEPT !.phase = "streaming", !.turns = Append(@, User(<<>>)), !.answers = @ + 1]
  /\ UNCHANGED program

\* The stream has ended: what is buffered is handed on, then the answer is complete.
End ==
  /\ cli.phase = "streaming" /\ (reader.done \/ (answer.closed /\ wire = <<>>))
  /\ LET r == finalizeStream(reader)
     IN  /\ reader' = Delivered(r)
         /\ detector' = onEnd(onChunks(detector, r.messages))
  /\ cli' = IF program = "server" THEN [cli EXCEPT !.phase = "ended"]
            ELSE [cli EXCEPT !.turns = Append(@, Assistant), !.blocks = detector'.blocks,
                             !.next = 1, !.results = <<>>,
                             !.phase = IF detector'.blocks = <<>> THEN "prompt" ELSE "executing"]
  /\ wire' = <<>>
  /\ UNCHANGED <<program, answer>>

\* The request fails: the turn is over, its blocks are forgotten.
Fail ==
  /\ program = "cli" /\ cli.phase = "streaming"
  /\ cli' = [cli EXCEPT !.phase = "prompt", !.blocks = <<>>]
  /\ wire' = <<>> /\ answer' = [answer EXCEPT !.closed = TRUE]
  /\ UNCHANGED <<program, reader, detector>>

Block == cli.blocks[cli.next]

\* executeBlocks(): a read block at once, any other one if the user says yes.
ApplyBlock ==
  /\ cli.phase = "executing" /\ cli.next <= Len(cli.blocks)
  /\ \E done \in Applied(Block, cli.files) :
       LET result == [language |-> Block.language, success |-> done.success]
           edit == [content |-> Block.content, before |-> cli.files, after |-> done.files,
                    success |-> done.success]
       IN  cli' = [cli EXCEPT !.files = done.files, !.next = @ + 1,
                              !.results = Append(@, result), !.applied = Append(@, result),
                              !.journal = IF Block.language = <<"edit">> THEN Append(@, edit) ELSE @]
  /\ UNCHANGED <<program, answer, wire, reader, detector>>

SkipBlock ==
  /\ cli.phase = "executing" /\ cli.next <= Len(cli.blocks) /\ requiresConfirmation(Block)
  /\ cli' = [cli EXCEPT !.next = @ + 1]
  /\ UNCHANGED <<program, answer, wire, reader, detector>>

\* Faulty variant: "skip all" ends the turn.
SkipAll_TurnOver ==
  /\ cli.phase = "executing" /\ cli.next <= Len(cli.blocks) /\ requiresConfirmation(Block)
  /\ cli' = [cli EXCEPT !.phase = "prompt", !.results = <<>>]
  /\ UNCHANGED <<program, answer, wire, reader, detector>>

\* "s(kip all)": no further block is looked at; the results so far are kept.
SkipAll ==
  /\ cli.phase = "executing" /\ cli.next <= Len(cli.blocks) /\ requiresConfirmation(Block)
  /\ cli' = [cli EXCEPT !.next = Len(cli.blocks) + 1]
  /\ UNCHANGED <<program, answer, wire, reader, detector>>

NothingToReport ==
  /\ cli.phase = "executing" /\ cli.next > Len(cli.blocks) /\ cli.results = <<>>
  /\ cli' = [cli EXCEPT !.phase = "prompt", !.blocks = <<>>]
  /\ UNCHANGED <<program, answer, wire, reader, detector>>

SendResults(a) ==
  /\ cli.phase = "executing" /\ cli.next > Len(cli.blocks) /\ cli.results # <<>>
  /\ cli.answers < MaxAnswers
  /\ NewStream(a)
  /\ cli' = [cli EXCEPT !.phase = "streaming", !.turns = Append(@, User(cli.results)),
                        !.blocks = <<>>, !.results = <<>>, !.answers = @ + 1]
  /\ UNCHANGED program

-----------------------------------------------------------------------------

Init ==
  \/ /\ program = "server"
     /\ \E a \in ServerAnswers :
          \E parts \in IF a \in NativeAnswers THEN {<<>>, ToolParts} ELSE {<<>>} :
             answer = NewAnswer(a, parts)
     /\ cli = [NewCli EXCEPT !.phase = "streaming"]
     /\ detector = Tools!NewDetector /\ wire = <<>> /\ reader = NewReader
  \/ /\ program = "cli"
     /\ answer = [NewAnswer([text |-> <<>>, holds |-> <<>>], <<>>) EXCEPT !.closed = TRUE]
     /\ cli = NewCli
     /\ detector = Blocks!NewBlockDetector /\ wire = <<>> /\ reader = NewReader

Next ==
  \/ \E n \in DeltaSizes \cup {Len(answer.text) - answer.sent} : n > 0 /\ SendText(n)
  \/ SendTool
  \/ Close
  \/ \E k \in 1 .. Len(wire) : Read(k)
  \/ End
  \/ Fail
  \/ \E a \in CliAnswers : Ask(a) \/ SendResults(a)
  \/ ApplyBlock
  \/ SkipBlock
  \/ SkipAll
  \/ NothingToReport

Spec == Init /\ [][Next]_vars

-----------------------------------------------------------------------------
(* Properties. *)

Finished == cli.phase = "ended"
Handled == SubSeq(answer.text, 1, reader.handled)
Count(c, s) == Cardinality({i \in DOMAIN s : s[i] = c})
Characters == (UNION {Range(a.text) : a \in ServerAnswers \cup CliAnswers})
                \ ({Tick, NL, Json, "summary"} \cup UNION {Range(language) : language \in Languages})

TypeOK ==
  /\ program \in {"server", "cli"}
  /\ answer.sent \in 0 .. Len(answer.text) /\ answer.toolsSent \in 0 .. Len(answer.tools)
  /\ reader.handled \in 0 .. answer.sent /\ Len(reader.buffer) <= 1 /\ reader.messages = <<>>
  /\ Len(wire) <= 2 * MaxWire + 2
  /\ detector.state \in IF program = "server" THEN {"normal", "in_code_fence", "in_raw_json"}
                                              ELSE {"normal", "in_block"}
  /\ cli.phase \in {"prompt", "streaming", "executing", "ended"}
  /\ cli.next \in 1 .. Len(cli.blocks) + 1 \/ cli.phase # "executing"
  /\ DOMAIN Files \subseteq DOMAIN cli.files

\* What the detector has taken out of the text, and what it holds back.
Taken == IF program = "server" THEN FlattenSeq(detector.calls)
         ELSE FlattenSeq([i \in DOMAIN detector.blocks |-> detector.blocks[i].content])
Kept == IF program = "server" THEN Tools!Held(detector) \o detector.dropped
        ELSE detector.pending
               \o IF detector.state = "in_block" THEN detector.buffer \o detector.language
                  ELSE detector.lost

\* TextConserved: whatever the deltas, each character that a detector was given was
\* emitted exactly once, as text or in a tool call or block, or is held back; except for
\* the text between two JSON objects that end in one delta, which is dropped
\* (json-brace-tracker.ts:89), and the language of a block that nothing came after when the
\* answer ended (code-block-detector.ts:77).  Fences are written anew and do not count.
TextConserved ==
  \A c \in Characters :
    Count(c, Handled) = Count(c, detector.text) + Count(c, Taken) + Count(c, Kept)

\* FencedCallsFound: a tool call in a code fence is found wherever the deltas cut it,
\* but for the cuts of CutsFence (streaming-tool-detector.ts:145).
FencedCallsFound ==
  program = "server" /\ Finished /\ ~reader.cut =>
    \A call \in Range(answer.holds) : Count(call, detector.calls) >= Count(call, answer.holds)

\* NativeCallWhole: a native tool call is processed once, with all of its arguments, and
\* only when the stream has ended (v2-stream.ts:145).
NativeCallWhole ==
  reader.native = IF Finished /\ answer.tools # <<>> THEN <<answer.tools>> ELSE <<>>

\* BlocksAsWritten: the CLI acts on exactly the code blocks of the answer, in their order,
\* wherever the deltas cut them but for the cuts of CutsFence (code-block-detector.ts:40).
BlocksAsWritten ==
  [][cli.phase = "streaming" /\ cli'.turns # cli.turns /\ ~reader'.cut
       => cli'.blocks = answer.holds]_vars

\* AppliedReported: the result of every block that was applied is in a message to Lumo, or
\* is kept for the next one, once and in order, whatever was skipped (cli/client.ts:222).
AppliedReported ==
  cli.applied = FlattenSeq([i \in DOMAIN cli.turns |-> cli.turns[i].results]) \o cli.results

\* A text stands once in another if any two of its places overlap.
StandsOnce(text, search) ==
  /\ Places(text, search) # {}
  /\ \A p, q \in Places(text, search) : p < q => q < p + Len(search)

\* What is put at place i: the new text as written, unless it has a pattern of replace().
Inserted(text, i, search, replace) ==
  IF Range(replace) \cap Patterns = {} THEN replace
  ELSE FlattenSeq([k \in DOMAIN replace |-> Expanded(replace[k], text, i, search)])

Replacements(text, search, replace) ==
  {Before(text, i) \o Inserted(text, i, search, replace) \o From(text, i + Len(search)) :
     i \in Places(text, search)}

\* An operation is done if its text stands once, and left out otherwise.
Operated(e, search, replace) ==
  IF StandsOnce(e.text, search)
  THEN {[text |-> text, all |-> e.all] : text \in Replacements(e.text, search, replace)}
  ELSE {[text |-> e.text, all |-> FALSE]}

\* What the operations, one after the other, may make of a text, and whether all are done.
Edited(text, ops) ==
  LET after[n \in 0 .. Len(ops)] ==
        IF n = 0 THEN {[text |-> text, all |-> TRUE]}
        ELSE UNION {Operated(e, ops[n][1], ops[n][2]) : e \in after[n - 1]}
  IN  after[Len(ops)]

\* An edit changed its file, and no other, by the operations of its block; it is a success
\* if all of them were done.
AsWritten(edit) ==
  LET file == Intended[edit.content].file
  IN  IF file \in DOMAIN edit.before \ ReadOnly
      THEN /\ DOMAIN edit.after = DOMAIN edit.before
           /\ \A f \in DOMAIN edit.before \ {file} : edit.after[f] = edit.before[f]
           /\ [text |-> edit.after[file], all |-> edit.success]
                \in Edited(edit.before[file], Intended[edit.content].operations)
      ELSE edit.after = edit.before /\ ~edit.success

\* EditsAsWritten: an edit does the operations of its block in their order, each at the only
\* place where its text stands, leaves out those whose text does not stand once, changes
\* no other file, and is reported as a success exactly if it left out none; what it inserts
\* is the new text as written, but for the patterns of String.replace()
\* (edit-applier.ts:147-172).
EditsAsWritten ==
  \A i \in DOMAIN cli.journal :
    cli.journal[i].content \in DOMAIN Intended => AsWritten(cli.journal[i])
===============================================================================
