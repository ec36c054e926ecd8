----------------------------- MODULE ToolDetector -----------------------------
(***************************************************************************)
(* The detection of custom tool calls in streamed text                     *)
(* (src/src/api/tools/streaming-tool-detector.ts, json-brace-tracker.ts).  *)
(* A detector is a record; its text and its calls are all it has emitted.  *)
(***************************************************************************)
EXTENDS StreamText

CONSTANT KeepChars      \* what is held back of normal text (10 in the code)

-----------------------------------------------------------------------------
(* JsonBraceTracker. *)

NewTracker == [buffer |-> <<>>, depth |-> 0, inString |-> FALSE, escaped |-> FALSE]

TrackChar(t, c) ==
  IF t.inString
  THEN [t EXCEPT !.buffer = Append(@, c),
                 !.escaped = ~@ /\ c = Backslash,
                 !.inString = t.escaped \/ c # Quote]
  ELSE CASE c = Quote      -> [t EXCEPT !.buffer = Append(@, c), !.inString = TRUE,
                                          !.escaped = FALSE]
         [] c = OpenBrace  -> [t EXCEPT !.buffer = Append(@, c), !.depth = @ + 1]
         [] c = CloseBrace -> [t EXCEPT !.buffer = Append(@, c), !.depth = @ - 1]
         [] OTHER          -> IF t.depth > 0 THEN [t EXCEPT !.buffer = Append(@, c)] ELSE t

\* Character i of a chunk: f is what the ones before it were fed to.
FeedChar(f, chunk, i) ==
  LET t == TrackChar(f.tracker, chunk[i])
      complete == ~f.tracker.inString /\ chunk[i] = CloseBrace /\ t.depth = 0
      skipped == IF t = f.tracker THEN Append(f.skipped, chunk[i]) ELSE f.skipped
  IN  IF complete
      THEN [tracker |-> [t EXCEPT !.buffer = <<>>], results |-> Append(f.results, t.buffer),
            last |-> i, skipped |-> skipped, between |-> skipped]
      ELSE [f EXCEPT !.tracker = t, !.skipped = skipped]

\* The objects that are complete in this chunk, the text after the last of them, and
\* the text between them, which the code discards.
feedWithRemainder(tracker, chunk) ==
  LET fed[n \in 0 .. Len(chunk)] ==
        IF n = 0 THEN [tracker |-> tracker, results |-> <<>>, last |-> 0,
                       skipped |-> <<>>, between |-> <<>>]
        ELSE FeedChar(fed[n - 1], chunk, n)
      all == fed[Len(chunk)]
  IN  [tracker |-> all.tracker, results |-> all.results, between |-> all.between,
       remainder |-> IF all.last = 0 THEN <<>> ELSE From(chunk, all.last + 1)]

-----------------------------------------------------------------------------
(* tryParseToolCall: what JSON.parse accepts, cut down to an object of one key whose
   value is left out or is an object itself. *)

IsString(s) ==
  /\ Len(s) >= 2 /\ s[1] = Quote /\ NL \notin Range(s)
  /\ \A i \in 2 .. Len(s) :
       s[i] = Quote /\ (s[i - 1] # Backslash \/ i = 2) <=> i = Len(s)

Braces(s) == Len(s) >= 2 /\ s[1] = OpenBrace /\ Last(s) = CloseBrace
IsFlatObject(s) == Braces(s) /\ IsString(Trim(SubSeq(s, 2, Len(s) - 1)))

IsObject(s) ==
  \/ IsFlatObject(s)
  \/ /\ Braces(s)
     /\ LET inner == Trim(SubSeq(s, 2, Len(s) - 1))
        IN  \E i \in 2 .. Len(inner) : IsString(Before(inner, i)) /\ IsFlatObject(From(inner, i))

IsToolCall(s) == IsObject(s) /\ Name \in Range(s)

-----------------------------------------------------------------------------
(* StreamingToolDetector. *)

NewDetector ==
  [state |-> "normal", pending |-> <<>>, buffer |-> <<>>, tracker |-> NewTracker,
   text |-> <<>>, calls |-> <<>>, dropped |-> <<>>]

\* The end of the opener that starts at i: the fence, "json" and the blanks after it.
OpenerEnd(s, i) ==
  LET tag == IF i + 3 <= Len(s) /\ s[i + 3] = Json THEN i + 4 ELSE i + 3
  IN  FirstOr({j \in tag .. Len(s) : s[j] # NL}, Len(s) + 1)

\* Where a brace starts a line, or the pending text, and a quote follows it.
RawOpeners(s) ==
  {b \in DOMAIN s : /\ s[b] = OpenBrace
                    /\ b = 1 \/ s[b - 1] = NL
                    /\ LET q == FirstOr({j \in b + 1 .. Len(s) : s[j] # NL}, 0)
                       IN  q # 0 /\ s[q] = Quote}

processNormalState(d) ==
  LET s == d.pending
      fences == Places(s, Fence)
      openers == RawOpeners(s)
  IN  IF fences # {}
      THEN [d EXCEPT !.text = @ \o Before(s, Least(fences)), !.buffer = <<>>,
                     !.pending = From(s, OpenerEnd(s, Least(fences))), !.state = "in_code_fence"]
      ELSE IF openers # {}
      THEN [d EXCEPT !.text = @ \o Before(s, Least(openers)), !.tracker = NewTracker,
                     !.pending = From(s, Least(openers)), !.state = "in_raw_json"]
      ELSE IF Len(s) > KeepChars
      THEN [d EXCEPT !.text = @ \o SubSeq(s, 1, Len(s) - KeepChars),
                     !.pending = From(s, Len(s) - KeepChars + 1)]
      ELSE d

completeCodeFence(d) ==
  LET body == IF d.buffer # <<>> /\ d.buffer[1] = Json THEN Tail(d.buffer) ELSE d.buffer
      done == [d EXCEPT !.state = "normal", !.buffer = <<>>]
  IN  IF IsToolCall(Trim(body))
      THEN [done EXCEPT !.calls = Append(@, Trim(body))]
      ELSE [done EXCEPT !.text = @ \o Fence \o <<NL>> \o body \o Fence]

\* Faulty variant: the closing fence is only looked for in the new text.
processCodeFenceState_NewTextOnly(d) ==
  LET ends == Places(d.pending, Fence)
  IN  IF ends # {}
      THEN completeCodeFence([d EXCEPT !.buffer = @ \o Before(d.pending, Least(ends)),
                                       !.pending = From(@, Least(ends) + 3)])
      ELSE [d EXCEPT !.buffer = @ \o d.pending, !.pending = <<>>]

processCodeFenceState(d) ==
  LET ends == Places(d.pending, Fence)
      all == d.buffer \o d.pending
  IN  IF ends # {}
      THEN completeCodeFence([d EXCEPT !.buffer = @ \o Before(d.pending, Least(ends)),
                                       !.pending = From(@, Least(ends) + 3)])
      ELSE IF IsSuffix(Fence, all)
      THEN completeCodeFence([d EXCEPT !.buffer = SubSeq(all, 1, Len(all) - 3), !.pending = <<>>])
      ELSE [d EXCEPT !.buffer = all, !.pending = <<>>]

\* A tool call is emitted as a call, another object as text.
completeObject(d, json) ==
  IF IsToolCall(Trim(json)) THEN [d EXCEPT !.calls = Append(@, Trim(json))]
  ELSE [d EXCEPT !.text = @ \o json]
completeObjects(d, results) ==
  LET completed[n \in 0 .. Len(results)] ==
        IF n = 0 THEN d ELSE completeObject(completed[n - 1], results[n])
  IN  completed[Len(results)]

\* Faulty variant: the text after the last object is dropped with the text between them.
processRawJsonState_RestDropped(d) ==
  LET fed == feedWithRemainder(d.tracker, d.pending)
  IN  IF fed.results = <<>>
      THEN [d EXCEPT !.tracker = fed.tracker, !.pending = <<>>]
      ELSE [completeObjects(d, fed.results) EXCEPT !.pending = <<>>, !.state = "normal",
                                                   !.dropped = @ \o fed.between]

processRawJsonState(d) ==
  LET fed == feedWithRemainder(d.tracker, d.pending)
  IN  IF fed.results = <<>>
      THEN [d EXCEPT !.tracker = fed.tracker, !.pending = <<>>]
      ELSE [completeObjects(d, fed.results) EXCEPT
              !.tracker = fed.tracker, !.pending = fed.remainder, !.state = "normal",
              !.dropped = @ \o fed.between]

\* processChunk(): one state after the other, as long as there is progress.  A round that
\* takes no text leaves the normal state, and the next one takes some: after as many
\* rounds as these there is no progress.
Round(d) ==
  LET e == CASE d.state = "normal"        -> processNormalState(d)
             [] d.state = "in_code_fence" -> processCodeFenceState(d)
             [] d.state = "in_raw_json"   -> processRawJsonState(d)
  IN  IF d.pending = <<>> \/ (Len(e.pending) >= Len(d.pending) /\ e.state = d.state)
      THEN d ELSE e
Rounds(d) ==
  LET last == 2 * Len(d.pending) + 1
      round[n \in 0 .. last] == IF n = 0 THEN d ELSE Round(round[n - 1])
  IN  round[last]

processChunk(d, chunk) == Rounds([d EXCEPT !.pending = @ \o chunk])

finalize(d) ==
  LET e == [d EXCEPT !.text = @ \o d.pending, !.pending = <<>>, !.buffer = <<>>,
                     !.tracker = NewTracker, !.state = "normal"]
      raw == d.tracker.buffer
  IN  CASE d.state = "in_raw_json" /\ raw # <<>> ->
             IF IsToolCall(Trim(raw)) THEN [e EXCEPT !.calls = Append(@, Trim(raw))]
             ELSE [e EXCEPT !.text = @ \o raw]
        [] d.state = "in_code_fence" /\ d.buffer # <<>> ->
             [e EXCEPT !.text = @ \o Fence \o <<NL>> \o d.buffer]
        [] OTHER -> e

\* What the detector holds back.
Held(d) ==
  d.pending \o (CASE d.state = "in_code_fence" -> d.buffer
                  [] d.state = "in_raw_json"   -> d.tracker.buffer
                  [] OTHER                     -> <<>>)
===============================================================================
