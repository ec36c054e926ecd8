------------------------------ MODULE Deduplication ------------------------------
(***************************************************************************)
(* Which messages of a request are new (conversations/deduplication.ts).   *)
(* A client sends its whole history with each request; a message is told   *)
(* by its semantic id, so both arguments are sequences of semantic ids.    *)
(***************************************************************************)
EXTENDS Integers, Sequences

Ids(s) == {s[i] : i \in DOMAIN s}

\* The comparison stops at the end of the shorter sequence.
Compared(incoming, stored) ==
  IF Len(incoming) < Len(stored) THEN Len(incoming) ELSE Len(stored)

\* Incoming messages are passed over as long as each is among the stored ones,
\* wherever it is stored.
MatchedCount(incoming, stored) ==
  CHOOSE n \in 0 .. Compared(incoming, stored) :
    /\ \A i \in 1 .. n : incoming[i] \in Ids(stored)
    /\ n < Compared(incoming, stored) => incoming[n + 1] \notin Ids(stored)

findNewMessages(incoming, stored) ==
  SubSeq(incoming, MatchedCount(incoming, stored) + 1, Len(incoming))
================================================================================
