------------------------------ MODULE StreamText ------------------------------
(***************************************************************************)
(* Text that Lumo streams, as a sequence of characters.  The word "json",  *)
(* the key of a tool call ("name") and a newline count as one character    *)
(* each, and a newline stands for every blank.                             *)
(***************************************************************************)
EXTENDS Naturals, Sequences, SequencesExt

Tick == "tick"
NL == "nl"
Json == "json"
Quote == "quote"
Backslash == "backslash"
Name == "name"
OpenBrace == "open"
CloseBrace == "close"
Fence == <<Tick, Tick, Tick>>

Least(S) == CHOOSE i \in S : \A j \in S : i <= j
FirstOr(S, i) == IF S = {} THEN i ELSE Least(S)
From(s, i) == SubSeq(s, i, Len(s))
Before(s, i) == SubSeq(s, 1, i - 1)

\* The places where s has the word w.
Places(s, w) == {i \in 1 .. Len(s) - Len(w) + 1 : SubSeq(s, i, i + Len(w) - 1) = w}

Trim(s) ==
  LET solid == {i \in DOMAIN s : s[i] # NL}
  IN  IF solid = {} THEN <<>>
      ELSE SubSeq(s, Least(solid), CHOOSE i \in solid : \A j \in solid : j <= i)
===============================================================================
