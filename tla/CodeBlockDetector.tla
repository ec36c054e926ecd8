-------------------------- MODULE CodeBlockDetector --------------------------
(***************************************************************************)
(* The detection of code blocks in the text that the CLI displays          *)
(* (src/src/cli/local-actions/code-block-detector.ts).  Characters are     *)
(* those of StreamText; a language tag, or a line of a block, is one       *)
(* character too.                                                          *)
(***************************************************************************)
EXTENDS StreamText

CONSTANTS WordChars,     \* the characters that \w matches
          HoldMax,       \* the longest text held back as a partial fence (15 in the code)
          Actionable     \* the languages that a block handler matches

NewBlockDetector ==
  [state |-> "normal", buffer |-> <<>>, language |-> <<>>, pending |-> <<>>,
   text |-> <<>>, blocks |-> <<>>, lost |-> <<>>]

\* Where an opening fence starts, with the newline that ends it.
Openers(s) ==
  {o \in (DOMAIN s) \X (DOMAIN s) :
     /\ o[2] > o[1] + 2 /\ SubSeq(s, o[1], o[1] + 2) = Fence /\ s[o[2]] = NL
     /\ \A k \in o[1] + 3 .. o[2] - 1 : s[k] \in WordChars}

\* The start of what may become an opening fence: the last backquotes, and the words and
\* backquotes right before them; 0 if there is none.
PartialFence(s) ==
  LET ticks == {i \in DOMAIN s : s[i] = Tick}
      last == CHOOSE i \in ticks : \A j \in ticks : j <= i
  IN  IF ticks = {} THEN 0
      ELSE Least({i \in 1 .. last : \A k \in i .. last : s[k] \in WordChars \cup {Tick}})

processNormal(d) ==
  LET s == d.pending
      openers == Openers(s)
      open == CHOOSE o \in openers : \A p \in openers : o[1] <= p[1]
      start == PartialFence(s)
  IN  IF openers # {}
      THEN [d EXCEPT !.text = @ \o Before(s, open[1]), !.buffer = <<>>, !.state = "in_block",
                     !.language = SubSeq(s, open[1] + 3, open[2] - 1),
                     !.pending = From(s, open[2] + 1)]
      ELSE IF start # 0 /\ Len(s) - start + 1 <= HoldMax
      THEN [d EXCEPT !.text = @ \o Before(s, start), !.pending = From(s, start)]
      ELSE [d EXCEPT !.text = @ \o s, !.pending = <<>>]

\* A block that a handler matches is collected and shown as a summary; another one is shown.
Closed(d, content) ==
  LET done == [d EXCEPT !.state = "normal", !.buffer = <<>>, !.language = <<>>]
  IN  IF d.language \in Actionable
      THEN [done EXCEPT !.text = Append(@, "summary"),
                        !.blocks = Append(@, [language |-> d.language, content |-> content])]
      ELSE [done EXCEPT !.text = @ \o Fence \o d.language \o <<NL>> \o content
                                   \o <<NL>> \o Fence]

\* a closing fence that is split between two chunks is not waited for.
TrailingTicks_None(s) == 0

\* How many backquotes at the end of s may be the beginning of the closing fence.
TrailingTicks(s) ==
  IF IsSuffix(<<Tick, Tick>>, s) THEN 2 ELSE IF IsSuffix(<<Tick>>, s) THEN 1 ELSE 0

processInBlock(d) ==
  LET s == d.pending
      ends == Places(s, Fence)
      keep == TrailingTicks(s)
  IN  IF ends # {}
      THEN Closed([d EXCEPT !.pending = From(s, Least(ends) + 3)],
                  Trim(d.buffer \o Before(s, Least(ends))))
      ELSE [d EXCEPT !.buffer = @ \o SubSeq(s, 1, Len(s) - keep),
                     !.pending = From(s, Len(s) - keep + 1)]

\* One state after the other, as long as there is progress: a round without progress
\* changes nothing, and any other one takes some of the pending text.
BlockRound(d) ==
  IF d.pending = <<>> THEN d ELSE IF d.state = "normal" THEN processNormal(d) ELSE processInBlock(d)
BlockRounds(d) ==
  LET round[n \in 0 .. Len(d.pending)] == IF n = 0 THEN d ELSE BlockRound(round[n - 1])
  IN  round[Len(d.pending)]

processChunk(d, chunk) == BlockRounds([d EXCEPT !.pending = @ \o chunk])

\* An opening fence that nothing came after is not shown; its language is lost (a ghost).
finalize(d) ==
  LET rest == IF d.state = "in_block" /\ d.buffer # <<>>
              THEN Fence \o d.language \o <<NL>> \o d.buffer ELSE <<>>
  IN  [d EXCEPT !.text = @ \o d.pending \o rest, !.pending = <<>>, !.buffer = <<>>,
                !.lost = IF d.state = "in_block" /\ d.buffer = <<>> THEN d.language ELSE <<>>,
                !.state = "normal"]
===============================================================================
