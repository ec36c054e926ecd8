------------------------- MODULE RequestPipelineProofs -------------------------
(***************************************************************************)
(* What holds of requests for any number of them, any conversations and    *)
(* profiles, histories and answers of any length, and however Lumo's       *)
(* chunks are cut: the queue, the store, the text and the events.  First   *)
(* what deduplication does to histories of any length.                     *)
(***************************************************************************)
EXTENDS RequestPipeline, FiniteSetTheorems, WellFoundedInduction, TLAPS

-------------------------------------------------------------------------------
(* Deduplication *)

\* LeastNatural: a non-empty set of numbers has a least one.
LEMMA LeastNatural ==
  ASSUME NEW T \in SUBSET Nat, T # {}
  PROVE  \E least \in T : \A n \in T : least <= n
<1> DEFINE Less == OpToRel(<, Nat)
<1>1. IsWellFoundedOn(Less, Nat)
  BY NatLessThanWellFounded
<1>2. \A m, n \in Nat : <<m, n>> \in Less <=> m < n
  BY DEF OpToRel
<1> HIDE DEF Less
<1>3. PICK least \in T : \A n \in T : <<n, least>> \notin Less
  BY <1>1, WFMin
<1>4. \A n \in T : ~(n < least)
  BY <1>2, <1>3
<1> QED BY <1>4

\* MatchedIsCount: the loop of findNewMessages() has a result: a number of messages, within
\* both sequences, that are stored, up to the first that is not (deduplication.ts:79-92).
LEMMA MatchedIsCount ==
  ASSUME NEW S, NEW incoming \in Seq(S), NEW known \in Seq(S)
  PROVE  /\ MatchedCount(incoming, known) \in 0 .. Compared(incoming, known)
         /\ \A i \in 1 .. MatchedCount(incoming, known) : incoming[i] \in Ids(known)
         /\ MatchedCount(incoming, known) < Compared(incoming, known) =>
              incoming[MatchedCount(incoming, known) + 1] \notin Ids(known)
<1> DEFINE Limit == Compared(incoming, known)
           Stops(n) == /\ \A i \in 1 .. n : incoming[i] \in Ids(known)
                       /\ n < Limit => incoming[n + 1] \notin Ids(known)
           Unmatched == {i \in 1 .. Limit : incoming[i] \notin Ids(known)}
<1>1. Limit \in Nat
  BY DEF Compared
<1>2. \E n \in 0 .. Limit : Stops(n)
  <2> HIDE DEF Limit
  <2>1. CASE Unmatched = {}
    <3>1. Stops(Limit)
      BY <1>1, <2>1
    <3> QED BY <1>1, <3>1
  <2>2. CASE Unmatched # {}
    <3>1. Unmatched \subseteq Nat
      BY <1>1
    <3>2. PICK first \in Unmatched : \A i \in Unmatched : first <= i
      <4> HIDE DEF Unmatched
      <4> QED BY <2>2, <3>1, LeastNatural
    <3>3. first - 1 \in 0 .. Limit /\ (first - 1) + 1 = first
      BY <1>1, <3>2
    <3>4. Stops(first - 1)
      BY <1>1, <3>2, <3>3
    <3> QED BY <3>3, <3>4
  <2> QED BY <2>1, <2>2
<1> QED BY <1>2 DEF MatchedCount

\* OnlyStoredDropped: what findNewMessages() returns is the end of the request, in
\* order, and every message it leaves out is stored (deduplication.ts:60-96).
THEOREM OnlyStoredDropped ==
  ASSUME NEW S, NEW incoming \in Seq(S), NEW known \in Seq(S)
  PROVE  LET new == findNewMessages(incoming, known)
             dropped == Len(incoming) - Len(new)
         IN  /\ new = SubSeq(incoming, dropped + 1, Len(incoming))
             /\ \A i \in 1 .. dropped : incoming[i] \in Ids(known)
<1> DEFINE n == MatchedCount(incoming, known)
<1>1. n \in 0 .. Len(incoming)
  BY MatchedIsCount DEF Compared
<1>2. \A i \in 1 .. n : incoming[i] \in Ids(known)
  BY MatchedIsCount
<1>3. Len(findNewMessages(incoming, known)) = Len(incoming) - n
  <2> HIDE DEF n
  <2>1. Len(SubSeq(incoming, n + 1, Len(incoming))) = Len(incoming) - n
    BY <1>1
  <2> QED BY <2>1 DEF findNewMessages, n
<1>4. Len(incoming) - Len(findNewMessages(incoming, known)) = n
  <2> HIDE DEF n
  <2> QED BY <1>1, <1>3
<1> HIDE DEF n
<1> QED BY <1>2, <1>4 DEF findNewMessages, n

\* ContinuationAppended: when the store holds the beginning of the history a client sends,
\* appending the new messages makes it that history, repeated messages or not: nothing is
\* missing and nothing is stored twice (store.ts:108-184, deduplication.ts:60-96).
THEOREM ContinuationAppended ==
  ASSUME NEW S, NEW incoming \in Seq(S), NEW known \in Seq(S),
         Len(known) <= Len(incoming),
         \A i \in DOMAIN known : known[i] = incoming[i]
  PROVE  known \o findNewMessages(incoming, known) = incoming
<1> DEFINE n == MatchedCount(incoming, known)
<1>1. Compared(incoming, known) = Len(known)
  BY DEF Compared
<1>2. n = Len(known)
  <2>1. n \in 0 .. Len(known)
    BY <1>1, MatchedIsCount
  <2>2. n < Len(known) => incoming[n + 1] \notin Ids(known)
    BY <1>1, MatchedIsCount
  <2> HIDE DEF n
  <2>3. n < Len(known) => incoming[n + 1] \in Ids(known)
    BY <2>1 DEF Ids
  <2> QED BY <2>1, <2>2, <2>3
<1>3. findNewMessages(incoming, known) = SubSeq(incoming, Len(known) + 1, Len(incoming))
  BY <1>2 DEF findNewMessages
<1> DEFINE new == SubSeq(incoming, Len(known) + 1, Len(incoming))
<1>4. known \o new = incoming
  OBVIOUS
<1> QED BY <1>3, <1>4
-------------------------------------------------------------------------------
(* Types *)

LEMMA IdleType == IdleRequest \in Request /\ IdleRequest.pc = "idle"
<1>1. (CHOOSE p \in Profiles : TRUE) \in Profiles
  BY ProfilesOK
<1> QED  BY <1>1 DEF IdleRequest, Request

LEMMA Event1Type ==
  ASSUME NEW type \in {"created", "added", "delta", "done", "completed", "error"},
         NEW item \in {"response", "reasoning", "message", "call"}, NEW index \in Nat
  PROVE  Event1(type, item, index) \in Seq(Event)
<1>1. [type |-> type, item |-> item, index |-> index] \in Event
  BY DEF Event
<1> QED  BY <1>1 DEF Event1

LEMMA EventTypes ==
  ASSUME NEW p \in Profiles
  PROVE  /\ MessageIndex(p) \in 0 .. 1
         /\ ReasoningDelta(p) \in Seq(Event)
         /\ Opening(p) \in Seq(Event)
         /\ ResponsesDone(p) \in Seq(Event)
         /\ ChatDone \in Seq(Event) /\ ChatError \in Seq(Event) /\ ResponsesError \in Seq(Event)
         /\ \A text : TextDelta(p, text) \in Seq(Event)
<1>1. MessageIndex(p) \in 0 .. 1 /\ MessageIndex(p) \in Nat
  BY DEF MessageIndex
<1>2. /\ ReasoningItemEvent(p, "added") \in Seq(Event)
      /\ ReasoningItemEvent(p, "delta") \in Seq(Event)
      /\ ReasoningItemEvent(p, "done") \in Seq(Event)
  BY Event1Type DEF ReasoningItemEvent
<1>3. /\ Event1("delta", "reasoning", 0) \in Seq(Event)
      /\ Event1("delta", "message", 0) \in Seq(Event)
      /\ Event1("created", "response", 0) \in Seq(Event)
      /\ Event1("completed", "response", 0) \in Seq(Event)
      /\ Event1("error", "response", 0) \in Seq(Event)
      /\ Event1("added", "message", MessageIndex(p)) \in Seq(Event)
      /\ Event1("delta", "message", MessageIndex(p)) \in Seq(Event)
      /\ Event1("done", "message", MessageIndex(p)) \in Seq(Event)
  BY <1>1, Event1Type
<1>4. ReasoningDelta(p) \in Seq(Event)
  BY <1>2, <1>3 DEF ReasoningDelta, ChatReasoningDelta
<1>5. Opening(p) \in Seq(Event)
  BY <1>2, <1>3 DEF Opening, ResponsesOpening
<1>6. ResponsesDone(p) \in Seq(Event)
  BY <1>2, <1>3 DEF ResponsesDone
<1>7. ChatDone \in Seq(Event) /\ ChatError \in Seq(Event) /\ ResponsesError \in Seq(Event)
  BY <1>3 DEF ChatDone, ChatError, ResponsesError
<1>8. \A text : TextDelta(p, text) \in Seq(Event)
  BY <1>3 DEF TextDelta, ChatTextDelta, ResponsesTextDelta
<1> QED  BY <1>1, <1>4, <1>5, <1>6, <1>7, <1>8

LEMMA CallEventsType ==
  ASSUME NEW p \in Profiles, NEW i \in Nat, NEW n \in Nat
  PROVE  CallEvents(p, i, n) \in Seq(Event)
<1>1. ChatCallDeltas(i, n) \in Seq(Event)
  <2>1. \A k \in 1 .. n : [type |-> "delta", item |-> "call", index |-> i + k - 1] \in Event
    BY DEF Event
  <2> QED  BY <2>1 DEF ChatCallDeltas
<1>2. ResponsesCallEvents(p, i, n) \in Seq(Event)
  <2> DEFINE Item(k) == [type |-> IF k % 2 = 1 THEN "added" ELSE "done", item |-> "call",
                         index |-> CallIndex(p, i + (k - 1) \div 2)]
  <2>1. ASSUME NEW k \in 1 .. 2 * n PROVE Item(k) \in Event
    <3>1. (k - 1) \div 2 \in Nat
      OBVIOUS
    <3>2. CallIndex(p, i + (k - 1) \div 2) \in Nat
      <4> DEFINE m == MessageIndex(p)
                 j == (k - 1) \div 2
      <4>1. m \in 0 .. 1
        BY EventTypes
      <4>2. CallIndex(p, i + j) = m + 1 + (i + j)
        BY DEF CallIndex
      <4>3. j \in Nat
        BY <3>1
      <4> HIDE DEF m, j
      <4>4. CallIndex(p, i + j) \in Nat
        BY <4>1, <4>2, <4>3
      <4> QED  BY <4>4 DEF j
    <3> QED  BY <3>2 DEF Event
  <2>2. ResponsesCallEvents(p, i, n) = [k \in 1 .. 2 * n |-> Item(k)]
    BY DEF ResponsesCallEvents
  <2> HIDE DEF Item
  <2> QED  BY <2>1, <2>2
<1> QED  BY <1>1, <1>2 DEF CallEvents
-------------------------------------------------------------------------------
(* The texts and the calls of a sequence of pieces *)

LEMMA UpToStep ==
  ASSUME NEW S, NEW pieces \in Seq(S), NEW kinds, NEW n \in Nat
  PROVE  /\ CountOf(pieces, kinds, 0) = 0
         /\ CountOf(pieces, kinds, n) \in Nat
         /\ pieces[n + 1] \in kinds => CountOf(pieces, kinds, n + 1) = CountOf(pieces, kinds, n) + 1
         /\ pieces[n + 1] \notin kinds => CountOf(pieces, kinds, n + 1) = CountOf(pieces, kinds, n)
<1> DEFINE At(i) == {j \in 1 .. i : pieces[j] \in kinds}
<1>1. ASSUME NEW i \in Nat PROVE IsFiniteSet(At(i)) /\ Cardinality(At(i)) \in Nat
  <2>1. IsFiniteSet(1 .. i)
    BY FS_Interval
  <2>2. At(i) \in SUBSET (1 .. i)
    OBVIOUS
  <2> HIDE DEF At
  <2> QED  BY <2>1, <2>2, FS_Subset, FS_CardinalityType
<1>2. At(0) = {}
  OBVIOUS
<1>3. ASSUME NEW i \in Nat
      PROVE  /\ pieces[i + 1] \in kinds => Cardinality(At(i + 1)) = Cardinality(At(i)) + 1
             /\ pieces[i + 1] \notin kinds => Cardinality(At(i + 1)) = Cardinality(At(i))
  <2>1. CASE pieces[i + 1] \in kinds
    <3>1. At(i + 1) = At(i) \cup {i + 1} /\ i + 1 \notin At(i)
      BY <2>1
    <3> HIDE DEF At
    <3> QED  BY <1>1, <2>1, <3>1, FS_AddElement
  <2>2. CASE pieces[i + 1] \notin kinds
    <3>1. At(i + 1) = At(i)
      BY <2>2
    <3> HIDE DEF At
    <3> QED  BY <1>1, <2>2, <3>1
  <2> QED  BY <2>1, <2>2
<1>4. \A i : CountOf(pieces, kinds, i) = Cardinality(At(i))
  BY DEF CountOf
<1> HIDE DEF At
<1>5. /\ CountOf(pieces, kinds, n) = Cardinality(At(n)) /\ CountOf(pieces, kinds, 0) = 0
      /\ CountOf(pieces, kinds, n + 1) = Cardinality(At(n + 1))
  BY <1>2, <1>4, FS_EmptySet
<1> QED  BY <1>1, <1>3, <1>5

\* The numbers grow with the position.
LEMMA UpToGrows ==
  ASSUME NEW S, NEW pieces \in Seq(S), NEW kinds, NEW i \in Nat, NEW j \in Nat, i <= j
  PROVE  CountOf(pieces, kinds, i) <= CountOf(pieces, kinds, j)
<1> DEFINE Bad == {k \in Nat : i <= k /\ ~(CountOf(pieces, kinds, i) <= CountOf(pieces, kinds, k))}
<1>1. SUFFICES ASSUME Bad # {} PROVE FALSE
  OBVIOUS
<1>2. PICK k \in Bad : \A l \in Bad : k <= l
  <2>1. Bad \in SUBSET Nat
    OBVIOUS
  <2> HIDE DEF Bad
  <2> QED  BY <1>1, <2>1, LeastNatural
<1>3. k # i /\ k - 1 \in Nat /\ i <= k - 1 /\ k = (k - 1) + 1
  <2>1. CountOf(pieces, kinds, i) \in Nat
    BY UpToStep
  <2>2. CountOf(pieces, kinds, i) <= CountOf(pieces, kinds, i)
    BY <2>1
  <2> QED  BY <2>2
<1>4. CountOf(pieces, kinds, i) <= CountOf(pieces, kinds, k - 1)
  BY <1>2, <1>3
<1>5. CountOf(pieces, kinds, k - 1) <= CountOf(pieces, kinds, k)
  <2>1. /\ CountOf(pieces, kinds, k - 1) \in Nat
        /\ pieces[(k - 1) + 1] \in kinds => CountOf(pieces, kinds, (k - 1) + 1) = CountOf(pieces, kinds, k - 1) + 1
        /\ pieces[(k - 1) + 1] \notin kinds => CountOf(pieces, kinds, (k - 1) + 1) = CountOf(pieces, kinds, k - 1)
    BY <1>3, UpToStep
  <2> QED  BY <1>3, <2>1
<1>6. /\ CountOf(pieces, kinds, i) \in Nat /\ CountOf(pieces, kinds, k - 1) \in Nat
      /\ CountOf(pieces, kinds, k) \in Nat
  BY <1>3, UpToStep
<1> QED  BY <1>4, <1>5, <1>6

\* Each number up to the last has one place.
LEMMA TextPlace ==
  ASSUME NEW S, NEW pieces \in Seq(S), NEW n \in 1 .. CountOf(pieces, TextKinds, Len(pieces))
  PROVE  /\ TextAt(pieces, n) \in DOMAIN pieces
         /\ pieces[TextAt(pieces, n)] \in TextKinds
         /\ CountOf(pieces, TextKinds, TextAt(pieces, n)) = n
         /\ \A i \in DOMAIN pieces :
              pieces[i] \in TextKinds /\ CountOf(pieces, TextKinds, i) = n => i = TextAt(pieces, n)
<1> DEFINE Place(i) == pieces[i] \in TextKinds /\ CountOf(pieces, TextKinds, i) = n
           Far == {i \in Nat : n <= CountOf(pieces, TextKinds, i)}
<1>1. n \in Nat /\ n >= 1 /\ Len(pieces) \in Far
  BY UpToStep
<1>2. PICK first \in Far : \A i \in Far : first <= i
  <2>1. Far \in SUBSET Nat
    OBVIOUS
  <2> HIDE DEF Far
  <2> QED  BY <1>1, <2>1, LeastNatural
<1>3. first # 0
  BY <1>1, UpToStep
<1>4. first - 1 \in Nat /\ first = (first - 1) + 1 /\ first - 1 \notin Far
  BY <1>2, <1>3
<1>5. /\ CountOf(pieces, TextKinds, first - 1) \in Nat
      /\ pieces[(first - 1) + 1] \in TextKinds => CountOf(pieces, TextKinds, (first - 1) + 1) = CountOf(pieces, TextKinds, first - 1) + 1
      /\ pieces[(first - 1) + 1] \notin TextKinds => CountOf(pieces, TextKinds, (first - 1) + 1) = CountOf(pieces, TextKinds, first - 1)
  BY <1>4, UpToStep
<1>6. Place(first)
  BY <1>1, <1>4, <1>5
<1>7. first \in DOMAIN pieces
  BY <1>1, <1>2, <1>3
<1>8. ASSUME NEW i \in DOMAIN pieces, NEW j \in DOMAIN pieces, Place(i), Place(j), i < j
      PROVE  FALSE
  <2>1. j - 1 \in Nat /\ i \in Nat /\ i <= j - 1 /\ j = (j - 1) + 1
    BY <1>8
  <2>2. CountOf(pieces, TextKinds, i) <= CountOf(pieces, TextKinds, j - 1)
    BY <2>1, UpToGrows
  <2>3. /\ CountOf(pieces, TextKinds, j - 1) \in Nat
        /\ pieces[(j - 1) + 1] \in TextKinds => CountOf(pieces, TextKinds, (j - 1) + 1) = CountOf(pieces, TextKinds, j - 1) + 1
        /\ pieces[(j - 1) + 1] \notin TextKinds => CountOf(pieces, TextKinds, (j - 1) + 1) = CountOf(pieces, TextKinds, j - 1)
    BY <2>1, UpToStep
  <2>4. CountOf(pieces, TextKinds, j) = CountOf(pieces, TextKinds, j - 1) + 1
    BY <1>8, <2>1, <2>3
  <2> QED  BY <1>1, <1>8, <2>2, <2>3, <2>4
<1>9. \A i, j \in DOMAIN pieces : Place(i) /\ Place(j) => i = j
  <2> HIDE DEF Place
  <2> QED  BY <1>8
<1>10. TextAt(pieces, n) = CHOOSE i \in DOMAIN pieces : Place(i)
  BY DEF TextAt
<1> HIDE DEF Place
<1>11. TextAt(pieces, n) \in DOMAIN pieces /\ Place(TextAt(pieces, n))
  BY <1>6, <1>7, <1>10
<1>12. \A i \in DOMAIN pieces : Place(i) => i = TextAt(pieces, n)
  BY <1>9, <1>11
<1> QED  BY <1>11, <1>12 DEF Place

LEMMA TextsType ==
  ASSUME NEW pieces \in Seq(Piece)
  PROVE  /\ Texts(pieces) \in Seq(Piece)
         /\ Len(Texts(pieces)) = CountOf(pieces, TextKinds, Len(pieces))
<1> DEFINE total == CountOf(pieces, TextKinds, Len(pieces))
<1>1. total \in Nat
  BY UpToStep
<1>2. \A n \in 1 .. total : Rewritten(pieces[TextAt(pieces, n)]) \in Piece
  BY TextPlace DEF Rewritten, Piece
<1>3. Texts(pieces) = [n \in 1 .. total |-> Rewritten(pieces[TextAt(pieces, n)])]
  BY DEF Texts
<1> HIDE DEF total
<1>4. Texts(pieces) \in Seq(Piece) /\ Len(Texts(pieces)) = total
  BY <1>1, <1>2, <1>3
<1> QED  BY <1>4 DEF total

LEMMA CallsType ==
  ASSUME NEW S, NEW pieces \in Seq(S)
  PROVE  CountCalls(pieces) \in Nat
<1>1. Len(pieces) \in Nat
  OBVIOUS
<1> QED  BY <1>1, UpToStep DEF CountCalls

\* Sequences with the same elements are the same.
LEMMA SameElements ==
  ASSUME NEW S, NEW s \in Seq(S), NEW t \in Seq(S), Len(s) = Len(t),
         \A i \in 1 .. Len(s) : s[i] = t[i]
  PROVE  s = t
<1>1. s \in [1 .. Len(s) -> S] /\ t \in [1 .. Len(s) -> S]
  OBVIOUS
<1>2. s = [i \in 1 .. Len(s) |-> s[i]] /\ t = [i \in 1 .. Len(s) |-> t[i]]
  BY <1>1
<1> QED  BY <1>2, Zenon

LEMMA IsConcat ==
  ASSUME NEW S, NEW u \in Seq(S), NEW v \in Seq(S), NEW w \in Seq(S),
         Len(w) = Len(u) + Len(v),
         \A k \in 1 .. Len(u) : w[k] = u[k],
         \A k \in 1 .. Len(v) : w[Len(u) + k] = v[k]
  PROVE  w = u \o v
<1>1. ASSUME NEW k \in 1 .. Len(w) PROVE w[k] = (u \o v)[k]
  <2>1. CASE k <= Len(u)
    BY <2>1
  <2>2. CASE k > Len(u)
    <3>1. k - Len(u) \in 1 .. Len(v) /\ k = Len(u) + (k - Len(u))
      BY <2>2
    <3> QED  BY <2>2, <3>1
  <2> QED  BY <2>1, <2>2
<1>2. u \o v \in Seq(S) /\ Len(w) = Len(u \o v)
  OBVIOUS
<1> QED  BY <1>1, <1>2, SameElements

LEMMA UpToConcat ==
  ASSUME NEW S, NEW s \in Seq(S), NEW t \in Seq(S), NEW kinds
  PROVE  /\ \A i \in 0 .. Len(s) : CountOf(s \o t, kinds, i) = CountOf(s, kinds, i)
         /\ \A i \in 0 .. Len(t) :
              CountOf(s \o t, kinds, Len(s) + i) = CountOf(s, kinds, Len(s)) + CountOf(t, kinds, i)
<1>1. /\ s \o t \in Seq(S) /\ Len(s \o t) = Len(s) + Len(t)
      /\ \A i \in 1 .. Len(s) : (s \o t)[i] = s[i]
      /\ \A i \in 1 .. Len(t) : (s \o t)[Len(s) + i] = t[i]
  OBVIOUS
<1>2. \A i \in 0 .. Len(s) : CountOf(s \o t, kinds, i) = CountOf(s, kinds, i)
  <2>1. ASSUME NEW i \in 0 .. Len(s)
        PROVE  {j \in 1 .. i : (s \o t)[j] \in kinds} = {j \in 1 .. i : s[j] \in kinds}
    BY <1>1
  <2> QED  BY <2>1 DEF CountOf
<1>3. ASSUME NEW k \in 0 .. Len(t),
             CountOf(s \o t, kinds, Len(s) + k) # CountOf(s, kinds, Len(s)) + CountOf(t, kinds, k)
      PROVE  FALSE
  <2> DEFINE Bad == {i \in Nat : i <= Len(t) /\ CountOf(s \o t, kinds, Len(s) + i)
                                                 # CountOf(s, kinds, Len(s)) + CountOf(t, kinds, i)}
  <2>1. PICK i \in Bad : \A l \in Bad : i <= l
    <3>1. Bad \in SUBSET Nat /\ k \in Bad
      BY <1>3
    <3> HIDE DEF Bad
    <3> QED  BY <3>1, LeastNatural
  <2>2. i # 0
    <3>1. CountOf(s, kinds, Len(s)) \in Nat /\ CountOf(t, kinds, 0) = 0
      BY UpToStep
    <3>2. CountOf(s \o t, kinds, Len(s)) = CountOf(s, kinds, Len(s))
      BY <1>2
    <3> QED  BY <2>1, <3>1, <3>2
  <2> DEFINE l == i - 1
  <2>3. l \in Nat /\ i = l + 1 /\ i <= Len(t) /\ l < i /\ Len(s) + i = (Len(s) + l) + 1
    BY <2>1, <2>2
  <2>4. l \notin Bad
    BY <2>1, <2>3
  <2>5. CountOf(s \o t, kinds, Len(s) + l) = CountOf(s, kinds, Len(s)) + CountOf(t, kinds, l)
    BY <2>3, <2>4
  <2>6. CountOf(s \o t, kinds, Len(s) + i) # CountOf(s, kinds, Len(s)) + CountOf(t, kinds, i)
    BY <2>1
  <2> HIDE DEF l, Bad
  <2>7. (s \o t)[(Len(s) + l) + 1] = t[l + 1]
    BY <1>1, <2>3
  <2> DEFINE st == s \o t
             at == Len(s) + l
  <2>8. st \in Seq(S) /\ at \in Nat /\ st[at + 1] = t[l + 1]
    BY <1>1, <2>3, <2>7
  <2>9. CountOf(st, kinds, at) = CountOf(s, kinds, Len(s)) + CountOf(t, kinds, l)
        /\ CountOf(st, kinds, at + 1) # CountOf(s, kinds, Len(s)) + CountOf(t, kinds, l + 1)
    BY <2>3, <2>5, <2>6
  <2> HIDE DEF st, at
  <2>10. /\ st[at + 1] \in kinds => CountOf(st, kinds, at + 1) = CountOf(st, kinds, at) + 1
         /\ st[at + 1] \notin kinds => CountOf(st, kinds, at + 1) = CountOf(st, kinds, at)
    BY <2>8, UpToStep
  <2>11. /\ t[l + 1] \in kinds => CountOf(t, kinds, l + 1) = CountOf(t, kinds, l) + 1
         /\ t[l + 1] \notin kinds => CountOf(t, kinds, l + 1) = CountOf(t, kinds, l)
    BY <2>3, UpToStep
  <2>12. CountOf(t, kinds, l) \in Nat /\ CountOf(s, kinds, Len(s)) \in Nat
    <3>1. Len(s) \in Nat
      OBVIOUS
    <3> QED  BY <2>3, <3>1, UpToStep
  <2> QED  BY <2>8, <2>9, <2>10, <2>11, <2>12
<1> QED  BY <1>2, <1>3

LEMMA TextsConcat ==
  ASSUME NEW s \in Seq(Piece), NEW t \in Seq(Piece)
  PROVE  Texts(s \o t) = Texts(s) \o Texts(t)
<1> DEFINE m == CountOf(s, TextKinds, Len(s))
           n == CountOf(t, TextKinds, Len(t))
<1>1. m \in Nat /\ n \in Nat
  BY UpToStep
<1>2. /\ s \o t \in Seq(Piece) /\ Len(s \o t) = Len(s) + Len(t)
      /\ \A i \in 1 .. Len(s) : (s \o t)[i] = s[i]
      /\ \A i \in 1 .. Len(t) : (s \o t)[Len(s) + i] = t[i]
  OBVIOUS
<1>3. CountOf(s \o t, TextKinds, Len(s \o t)) = m + n
  BY <1>2, UpToConcat
<1>4. /\ Texts(s) \in Seq(Piece) /\ Len(Texts(s)) = m
      /\ Texts(t) \in Seq(Piece) /\ Len(Texts(t)) = n
      /\ Texts(s \o t) \in Seq(Piece) /\ Len(Texts(s \o t)) = m + n
  BY <1>2, <1>3, TextsType
<1>5. /\ Texts(s) = [k \in 1 .. m |-> Rewritten(s[TextAt(s, k)])]
      /\ Texts(t) = [k \in 1 .. n |-> Rewritten(t[TextAt(t, k)])]
      /\ Texts(s \o t) = [k \in 1 .. m + n |-> Rewritten((s \o t)[TextAt(s \o t, k)])]
  BY <1>3 DEF Texts
<1>6. ASSUME NEW k \in 1 .. m PROVE (s \o t)[TextAt(s \o t, k)] = s[TextAt(s, k)]
  <2> DEFINE i == TextAt(s, k)
  <2>1. i \in DOMAIN s /\ s[i] \in TextKinds /\ CountOf(s, TextKinds, i) = k
    BY TextPlace
  <2> HIDE DEF i
  <2>2. /\ i \in DOMAIN (s \o t) /\ (s \o t)[i] = s[i]
        /\ CountOf(s \o t, TextKinds, i) = k
    BY <1>2, <2>1, UpToConcat
  <2>3. k \in 1 .. CountOf(s \o t, TextKinds, Len(s \o t))
    BY <1>1, <1>3
  <2>4. i = TextAt(s \o t, k)
    BY <1>2, <2>1, <2>2, <2>3, TextPlace
  <2> QED  BY <2>2, <2>4 DEF i
<1>7. ASSUME NEW k \in 1 .. n PROVE (s \o t)[TextAt(s \o t, m + k)] = t[TextAt(t, k)]
  <2> DEFINE i == TextAt(t, k)
  <2>1. i \in DOMAIN t /\ t[i] \in TextKinds /\ CountOf(t, TextKinds, i) = k
    BY TextPlace
  <2> HIDE DEF i
  <2>2. /\ Len(s) + i \in DOMAIN (s \o t) /\ (s \o t)[Len(s) + i] = t[i]
        /\ CountOf(s \o t, TextKinds, Len(s) + i) = m + k
    BY <1>2, <2>1, UpToConcat
  <2>3. m + k \in 1 .. CountOf(s \o t, TextKinds, Len(s \o t))
    BY <1>1, <1>3
  <2>4. Len(s) + i = TextAt(s \o t, m + k)
    BY <1>2, <2>1, <2>2, <2>3, TextPlace
  <2> QED  BY <2>2, <2>4 DEF i
<1> DEFINE st == s \o t
<1> HIDE DEF m, n, st
<1>8. ASSUME NEW k \in 1 .. m PROVE Texts(st)[k] = Texts(s)[k]
  <2>1. k \in 1 .. m + n
    BY <1>1
  <2>2. Texts(st)[k] = Rewritten(st[TextAt(st, k)]) /\ Texts(s)[k] = Rewritten(s[TextAt(s, k)])
    BY <1>5, <2>1 DEF st
  <2> QED  BY <1>6, <2>2 DEF st
<1>9. ASSUME NEW k \in 1 .. n PROVE Texts(st)[m + k] = Texts(t)[k]
  <2>1. m + k \in 1 .. m + n
    BY <1>1
  <2>2. /\ Texts(st)[m + k] = Rewritten(st[TextAt(st, m + k)])
        /\ Texts(t)[k] = Rewritten(t[TextAt(t, k)])
    BY <1>5, <2>1 DEF st
  <2> QED  BY <1>7, <2>2 DEF st
<1>10. /\ Texts(st) \in Seq(Piece) /\ Len(Texts(st)) = Len(Texts(s)) + Len(Texts(t))
       /\ \A k \in 1 .. Len(Texts(s)) : Texts(st)[k] = Texts(s)[k]
       /\ \A k \in 1 .. Len(Texts(t)) : Texts(st)[Len(Texts(s)) + k] = Texts(t)[k]
  BY <1>4, <1>8, <1>9 DEF st
<1>11. Texts(st) = Texts(s) \o Texts(t)
  BY <1>4, <1>10, IsConcat
<1> QED  BY <1>11 DEF st

LEMMA CallsConcat ==
  ASSUME NEW S, NEW s \in Seq(S), NEW t \in Seq(S)
  PROVE  CountCalls(s \o t) = CountCalls(s) + CountCalls(t)
<1>1. Len(s \o t) = Len(s) + Len(t) /\ Len(t) \in 0 .. Len(t)
  OBVIOUS
<1> QED  BY <1>1, UpToConcat DEF CountCalls

LEMMA NoTexts == Texts(<<>>) = <<>> /\ CountCalls(<<>>) = 0
<1>1. <<>> \in Seq(Piece) /\ Len(<<>>) = 0
  OBVIOUS
<1>2. CountOf(<<>>, TextKinds, Len(<<>>)) = 0
  BY <1>1, UpToStep
<1>3. Texts(<<>>) \in Seq(Piece) /\ Len(Texts(<<>>)) = 0
  BY <1>1, <1>2, TextsType
<1>4. CountCalls(<<>>) = 0
  BY <1>1, UpToStep DEF CountCalls
<1> QED  BY <1>3, <1>4

\* Reading some text as lost leaves the calls.
LEMMA ReadingsType ==
  ASSUME NEW pieces \in Seq(Piece), NEW opened, NEW s \in Readings(pieces, opened)
  PROVE  s \in Seq(Piece) /\ Len(s) = Len(pieces) /\ CountCalls(s) = CountCalls(pieces)
<1>1. PICK lost \in SUBSET BetweenObjects(pieces, opened) :
        s = [i \in DOMAIN pieces |-> IF i \in lost THEN "lost" ELSE pieces[i]]
  BY DEF Readings
<1>2. s \in Seq(Piece) /\ Len(s) = Len(pieces)
  <2>1. \A i \in 1 .. Len(pieces) : (IF i \in lost THEN "lost" ELSE pieces[i]) \in Piece
    BY DEF Piece
  <2>2. s = [i \in 1 .. Len(pieces) |-> IF i \in lost THEN "lost" ELSE pieces[i]]
    BY <1>1
  <2> QED  BY <2>1, <2>2
<1>3. \A i \in 1 .. Len(pieces) : s[i] \in {"call"} <=> pieces[i] \in {"call"}
  BY <1>1 DEF BetweenObjects, Objects
<1>4. {j \in 1 .. Len(pieces) : s[j] \in {"call"}} = {j \in 1 .. Len(pieces) : pieces[j] \in {"call"}}
  BY <1>3
<1> QED  BY <1>2, <1>4 DEF CountCalls, CountOf
-------------------------------------------------------------------------------
(* The steps of one request *)

Titles == {"none", "wanted", "running", "ready", "failed"}

Opened(p, turns) ==
  LET q == [IdleRequest EXCEPT !.profile = p, !.turns = turns]
  IN  [q EXCEPT !.events = Emit(q, Opening(p))]

Commands(x) ==
  \E p \in Profiles, turns \in Seq(Message) :
    /\ IsCommand(turns)
    /\ x = Closing([Opened(p, turns) EXCEPT
                      !.text = <<"reply">>,
                      !.events = Emit(Opened(p, turns), TextDelta(p, <<"reply">>))], 0)
Queues(x) ==
  \E p \in Profiles, turns \in Seq(Message), title \in Titles :
    x = [Opened(p, turns) EXCEPT !.pc = "queued", !.title = title]
Starts(q, x) ==
  q.pc = "queued" /\ \E title \in Titles : x = [q EXCEPT !.pc = "message", !.title = title]
Feeds(q, x) ==
  /\ q.pc = "message"
  /\ \E piece \in Piece :
       LET fed == [q EXCEPT !.content = Append(@, piece)]
       IN  x \in IF Suppressed(fed) THEN {fed} ELSE OnChunk(fed, piece)
Thinks(q, x) ==
  /\ q.pc = "message" /\ q.profile.reasoning
  /\ x = [q EXCEPT !.thinking = TRUE, !.events = Emit(q, ReasoningDelta(q.profile))]
CallsTool(q, x) ==
  /\ q.pc = "message" /\ q.firstTool = "none"
  /\ \E kind \in {"native", "misrouted"} : x = [q EXCEPT !.firstTool = kind]
Bounces(q, x) == q.pc = "message" /\ Suppressed(q) /\ x = Bounced(q)
AwaitsTitle(q, x) == q.pc = "message" /\ ~Suppressed(q) /\ x = [q EXCEPT !.pc = "title"]
GetsTitle(q, x) ==
  q.pc \in {"message", "title"} /\ \E title \in Titles : x = [q EXCEPT !.title = title]
Completes(q, x) ==
  /\ q.pc \in {"message", "title"} /\ (q.pc = "message" => ~Suppressed(q))
  /\ \E title \in Titles :
       LET final == Finalize([q EXCEPT !.title = title])
       IN  x = Closing(final, final.calls)
Breaks(q, x) == q.pc = "message" /\ x = Failing(q)
Clears(q, x) == q.pc = "ended" /\ x = IdleRequest

Moves(q, x) ==
  \/ x = q \/ (q.pc = "idle" /\ (Commands(x) \/ Queues(x)))
  \/ Starts(q, x) \/ Feeds(q, x) \/ Thinks(q, x) \/ CallsTool(q, x) \/ Bounces(q, x)
  \/ AwaitsTitle(q, x) \/ GetsTitle(q, x) \/ Completes(q, x) \/ Breaks(q, x) \/ Clears(q, x)

LEMMA EmitType ==
  ASSUME NEW q \in Request, NEW events \in Seq(Event)
  PROVE  Emit(q, events) \in Seq(Event)
<1>1. q.events \in Seq(Event)
  BY DEF Request
<1> QED  BY <1>1 DEF Emit

LEMMA ReleasedType ==
  ASSUME NEW q \in Request, NEW held \in Seq(Piece), NEW text \in Seq(Piece), NEW calls \in Nat,
         NEW events \in Seq(Event)
  PROVE  [q EXCEPT !.held = held, !.text = text, !.calls = calls, !.events = events] \in Request
<1>1. [q EXCEPT !.held = held, !.text = text] \in Request
  BY DEF Request
<1> DEFINE x == [q EXCEPT !.held = held, !.text = text]
<1>2. [q EXCEPT !.held = held, !.text = text, !.calls = calls, !.events = events]
        = [x EXCEPT !.calls = calls, !.events = events]
  BY DEF Request
<1> HIDE DEF x
<1>3. [x EXCEPT !.calls = calls, !.events = events] \in Request
  BY <1>1 DEF Request, x
<1> QED  BY <1>2, <1>3

LEMMA ReleaseType ==
  ASSUME NEW q \in Request, NEW n \in 0 .. Len(q.held), NEW pieces \in Seq(Piece)
  PROVE  Release(q, n, pieces) \in Request
<1> DEFINE rest == SubSeq(q.held, n + 1, Len(q.held))
           events == TextDelta(q.profile, Texts(pieces))
                       \o CallEvents(q.profile, q.calls, CountCalls(pieces))
           sent == Emit(q, events)
           text == q.text \o Texts(pieces)
           calls == q.calls + CountCalls(pieces)
<1>1. q.held \in Seq(Piece) /\ q.text \in Seq(Piece) /\ q.calls \in Nat /\ q.profile \in Profiles
  BY DEF Request
<1>2. rest \in Seq(Piece)
  BY <1>1
<1>3. Texts(pieces) \in Seq(Piece) /\ CountCalls(pieces) \in Nat
  BY TextsType, CallsType
<1>4. events \in Seq(Event)
  <2>1. TextDelta(q.profile, Texts(pieces)) \in Seq(Event)
    BY <1>1, EventTypes
  <2>2. CallEvents(q.profile, q.calls, CountCalls(pieces)) \in Seq(Event)
    BY <1>1, <1>3, CallEventsType
  <2> QED  BY <2>1, <2>2
<1> HIDE DEF events
<1>5. sent \in Seq(Event)
  BY <1>4, EmitType
<1>6. text \in Seq(Piece) /\ calls \in Nat
  BY <1>1, <1>3
<1>7. Release(q, n, pieces) = [q EXCEPT !.held = SubSeq(@, n + 1, Len(@)), !.text = @ \o Texts(pieces),
                                        !.calls = @ + CountCalls(pieces), !.events = Emit(q, events)]
  BY DEF Release, events
<1>8. Release(q, n, pieces) = [q EXCEPT !.held = rest, !.text = text, !.calls = calls, !.events = sent]
  BY <1>7 DEF Request
<1> HIDE DEF rest, text, calls, sent
<1>9. [q EXCEPT !.held = rest, !.text = text, !.calls = calls, !.events = sent] \in Request
  BY <1>2, <1>5, <1>6, ReleasedType
<1> QED  BY <1>8, <1>9

LEMMA ClosingType ==
  ASSUME NEW q \in Request, NEW calls \in Nat
  PROVE  Closing(q, calls) \in Request
<1> DEFINE Items == {"reasoning", "message", "call"}
<1>1. q.profile \in Profiles
  BY DEF Request
<1>2. OutputItems(q, calls) \in Seq(Items)
  <2>1. [i \in 1 .. calls |-> "call"] \in Seq(Items)
    OBVIOUS
  <2>2. <<"message">> \in Seq(Items) /\ <<"reasoning">> \in Seq(Items) /\ <<>> \in Seq(Items)
    OBVIOUS
  <2> DEFINE first == IF q.profile.reasoning /\ q.thinking THEN <<"reasoning">> ELSE <<>>
             rest == [i \in 1 .. calls |-> "call"]
  <2>3. first \in Seq(Items) /\ rest \in Seq(Items)
    BY <2>1, <2>2
  <2>4. OutputItems(q, calls) = first \o <<"message">> \o rest
    BY DEF OutputItems
  <2> HIDE DEF first, rest
  <2> QED  BY <2>2, <2>3, <2>4
<1>3. Emit(q, ChatDone) \in Seq(Event) /\ Emit(q, ResponsesDone(q.profile)) \in Seq(Event)
  BY <1>1, EventTypes, EmitType
<1>4. ChatClosing(q, calls) \in Request
  BY <1>2, <1>3 DEF ChatClosing, Request
<1>5. ResponsesClosing(q, calls) \in Request
  BY <1>2, <1>3 DEF ResponsesClosing, createCompletedResponse, Request
<1> QED  BY <1>4, <1>5 DEF Closing

LEMMA OpenedBase ==
  ASSUME NEW p \in Profiles, NEW turns \in Seq(Message)
  PROVE  [IdleRequest EXCEPT !.profile = p, !.turns = turns] \in Request
BY IdleType DEF Request

LEMMA OpenedType ==
  ASSUME NEW p \in Profiles, NEW turns \in Seq(Message)
  PROVE  Opened(p, turns) \in Request
<1> DEFINE q == [IdleRequest EXCEPT !.profile = p, !.turns = turns]
<1>1. q \in Request
  BY OpenedBase
<1>2. Opened(p, turns) = [q EXCEPT !.events = Emit(q, Opening(p))]
  BY DEF Opened
<1> HIDE DEF q
<1>3. Emit(q, Opening(p)) \in Seq(Event)
  BY <1>1, EventTypes, EmitType
<1>4. Opened(p, turns) \in Request
  BY <1>1, <1>2, <1>3 DEF Request
<1> QED  BY <1>4

\* What the detector is given.
LEMMA FedType ==
  ASSUME NEW q \in Request, NEW piece \in Piece
  PROVE  /\ [q EXCEPT !.content = Append(@, piece)] \in Request
         /\ [q EXCEPT !.held = Append(@, piece)] \in Request
         /\ [q EXCEPT !.text = Append(@, piece)] \in Request
<1>1. /\ Append(q.content, piece) \in Seq(Piece) /\ Append(q.held, piece) \in Seq(Piece)
      /\ Append(q.text, piece) \in Seq(Piece)
  BY DEF Request
<1> QED  BY <1>1 DEF Request

LEMMA ChunkReleases ==
  ASSUME NEW q \in Request, NEW piece \in Piece, NEW x \in OnChunk(q, piece), q.profile.tools
  PROVE  LET fed == [q EXCEPT !.held = Append(@, piece)]
         IN  \E n \in 0 .. Len(fed.held), pieces \in Seq(Piece) :
               /\ x = Release(fed, n, pieces)
               /\ pieces \in Readings(SubSeq(fed.held, 1, n), FALSE)
<1> DEFINE fed == [q EXCEPT !.held = Append(@, piece)]
<1>1. PICK n \in 0 .. Len(fed.held) : \E pieces \in Readings(SubSeq(fed.held, 1, n), FALSE) :
        x = Release(fed, n, pieces)
  BY DEF OnChunk
<1>2. fed.held \in Seq(Piece)
  BY FedType DEF Request
<1> HIDE DEF fed
<1>3. SubSeq(fed.held, 1, n) \in Seq(Piece)
  BY <1>2
<1>4. \E pieces \in Seq(Piece) : /\ x = Release(fed, n, pieces)
                                 /\ pieces \in Readings(SubSeq(fed.held, 1, n), FALSE)
  BY <1>1, <1>3, ReadingsType
<1> QED  BY <1>4 DEF fed

LEMMA OnChunkType ==
  ASSUME NEW q \in Request, NEW piece \in Piece, NEW x \in OnChunk(q, piece)
  PROVE  x \in Request
<1>1. CASE q.profile.tools
  <2> DEFINE fed == [q EXCEPT !.held = Append(@, piece)]
  <2>1. PICK n \in 0 .. Len(fed.held), pieces \in Seq(Piece) :
          /\ x = Release(fed, n, pieces)
          /\ pieces \in Readings(SubSeq(fed.held, 1, n), FALSE)
    BY <1>1, ChunkReleases
  <2>2. fed \in Request
    BY FedType
  <2> HIDE DEF fed
  <2> QED  BY <2>1, <2>2, ReleaseType
<1>2. CASE ~q.profile.tools
  <2> DEFINE events == TextDelta(q.profile, <<piece>>)
  <2>1. x = [q EXCEPT !.text = Append(@, piece), !.events = Emit(q, events)]
    BY <1>2 DEF OnChunk
  <2>2. events \in Seq(Event)
    BY EventTypes DEF Request
  <2> HIDE DEF events
  <2>3. Emit(q, events) \in Seq(Event)
    BY <2>2, EmitType
  <2>4. [q EXCEPT !.text = Append(@, piece)] \in Request
    BY FedType
  <2> QED  BY <2>1, <2>3, <2>4 DEF Request
<1> QED  BY <1>1, <1>2

LEMMA MovesType ==
  ASSUME NEW q \in Request, NEW x, Moves(q, x)
  PROVE  x \in Request
<1>1. q.profile \in Profiles /\ q.held \in Seq(Piece)
  BY DEF Request
<1>2. ASSUME Commands(x) PROVE x \in Request
  <2>1. PICK p \in Profiles, turns \in Seq(Message) :
          x = Closing([Opened(p, turns) EXCEPT
                         !.text = <<"reply">>,
                         !.events = Emit(Opened(p, turns), TextDelta(p, <<"reply">>))], 0)
    BY <1>2 DEF Commands
  <2>2. Opened(p, turns) \in Request
    BY OpenedType
  <2>3. Emit(Opened(p, turns), TextDelta(p, <<"reply">>)) \in Seq(Event)
    BY <2>2, EventTypes, EmitType
  <2>4. <<"reply">> \in Seq(Piece)
    BY DEF Piece
  <2>5. [Opened(p, turns) EXCEPT
           !.text = <<"reply">>,
           !.events = Emit(Opened(p, turns), TextDelta(p, <<"reply">>))] \in Request
    BY <2>2, <2>3, <2>4 DEF Request
  <2> QED  BY <2>1, <2>5, ClosingType
<1>3. ASSUME Queues(x) PROVE x \in Request
  <2>1. PICK p \in Profiles, turns \in Seq(Message), title \in Titles :
          x = [Opened(p, turns) EXCEPT !.pc = "queued", !.title = title]
    BY <1>3 DEF Queues
  <2>2. Opened(p, turns) \in Request
    BY OpenedType
  <2> QED  BY <2>1, <2>2 DEF Request, Titles
<1>4. ASSUME Starts(q, x) \/ CallsTool(q, x) \/ AwaitsTitle(q, x) \/ GetsTitle(q, x)
      PROVE  x \in Request
  <2>1. CASE Starts(q, x)
    <3>1. PICK title \in Titles : x = [q EXCEPT !.pc = "message", !.title = title]
      BY <2>1 DEF Starts
    <3> QED  BY <3>1 DEF Request, Titles
  <2>2. CASE CallsTool(q, x)
    <3>1. PICK kind \in {"native", "misrouted"} : x = [q EXCEPT !.firstTool = kind]
      BY <2>2 DEF CallsTool
    <3> QED  BY <3>1 DEF Request
  <2>3. CASE AwaitsTitle(q, x)
    <3>1. x = [q EXCEPT !.pc = "title"]
      BY <2>3 DEF AwaitsTitle
    <3> QED  BY <3>1 DEF Request
  <2>4. CASE GetsTitle(q, x)
    <3>1. PICK title \in Titles : x = [q EXCEPT !.title = title]
      BY <2>4 DEF GetsTitle
    <3> QED  BY <3>1 DEF Request, Titles
  <2> QED  BY <1>4, <2>1, <2>2, <2>3, <2>4
<1>5. ASSUME Bounces(q, x) PROVE x \in Request
  <2>1. x = Bounced(q) /\ (q.thinking /\ q.profile.stream) \in BOOLEAN /\ <<>> \in Seq(Piece)
    BY <1>5 DEF Bounces
  <2> QED  BY <2>1 DEF Bounced, Request
<1>6. ASSUME Feeds(q, x) PROVE x \in Request
  <2>1. PICK piece \in Piece :
          LET fed == [q EXCEPT !.content = Append(@, piece)]
          IN  x \in IF Suppressed(fed) THEN {fed} ELSE OnChunk(fed, piece)
    BY <1>6 DEF Feeds
  <2> DEFINE fed == [q EXCEPT !.content = Append(@, piece)]
  <2>2. fed \in Request
    BY FedType
  <2>3. x = fed \/ x \in OnChunk(fed, piece)
    BY <2>1
  <2> HIDE DEF fed
  <2> QED  BY <2>2, <2>3, OnChunkType
<1>7. ASSUME Thinks(q, x) PROVE x \in Request
  <2>1. Emit(q, ReasoningDelta(q.profile)) \in Seq(Event)
    BY <1>1, EventTypes, EmitType
  <2> QED  BY <1>7, <2>1 DEF Thinks, Request
<1>8. ASSUME Completes(q, x) PROVE x \in Request
  <2>1. PICK title \in Titles :
          LET final == Finalize([q EXCEPT !.title = title]) IN x = Closing(final, final.calls)
    BY <1>8 DEF Completes
  <2> DEFINE titled == [q EXCEPT !.title = title]
  <2>2. titled \in Request
    BY DEF Request, Titles
  <2>3. x = Closing(Finalize(titled), Finalize(titled).calls)
    BY <2>1
  <2> HIDE DEF titled
  <2>4. titled.held \in Seq(Piece)
    BY <2>2 DEF Request
  <2>5. Len(titled.held) \in 0 .. Len(titled.held)
    BY <2>4
  <2>6. Finalize(titled) \in Request
    BY <2>2, <2>4, <2>5, ReleaseType DEF Finalize
  <2>7. Finalize(titled).calls \in Nat
    BY <2>6 DEF Request
  <2> QED  BY <2>3, <2>6, <2>7, ClosingType
<1>9. ASSUME Breaks(q, x) PROVE x \in Request
  <2>1. /\ Emit(q, ChatError) \in Seq(Event) /\ Emit(q, ResponsesError) \in Seq(Event)
    BY <1>1, EventTypes, EmitType
  <2> QED  BY <1>9, <2>1 DEF Breaks, Failing, Request
<1> QED  BY <1>2, <1>3, <1>4, <1>5, <1>6, <1>7, <1>8, <1>9, IdleType DEF Moves, Clears
-------------------------------------------------------------------------------
(* The steps of the system are steps of one request; the queue *)

LEMMA TurnsType ==
  ASSUME TypeOK, NEW profile \in Profiles, NEW turns \in TurnsOf(profile)
  PROVE  turns \in Seq(Message) /\ turns # <<>>
<1>1. /\ User(<<"question">>) \in Message /\ User(<<"/title">>) \in Message
  <2>1. <<"question">> \in Seq(Piece) /\ <<"/title">> \in Seq(Piece)
    BY DEF Piece
  <2> QED  BY <2>1 DEF User, Message
<1>2. CASE profile.conversation \in Conversations
  <2> DEFINE h == history[profile.conversation]
  <2>1. h \in Seq(Message)
    BY <1>2 DEF TypeOK
  <2>2. turns \in NextTurns(h)
    BY <1>2 DEF TurnsOf
  <2> HIDE DEF h
  <2>3. \/ turns = Append(h, User(<<"question">>)) \/ turns = Append(h, User(<<"/title">>))
        \/ turns = h /\ h # <<>>
    BY <2>2 DEF NextTurns
  <2>4. /\ Append(h, User(<<"question">>)) \in Seq(Message)
        /\ Append(h, User(<<"/title">>)) \in Seq(Message)
    BY <1>1, <2>1
  <2>5. Append(h, User(<<"question">>)) # <<>> /\ Append(h, User(<<"/title">>)) # <<>>
    <3>1. \A m : Len(Append(h, m)) = Len(h) + 1
      BY <2>1
    <3>2. Len(h) + 1 # 0 /\ Len(<<>>) = 0
      BY <2>1
    <3> QED  BY <3>1, <3>2
  <2> QED  BY <2>1, <2>3, <2>4, <2>5
<1>3. CASE profile.conversation \notin Conversations
  <2>1. turns = <<User(<<"question">>)>>
    BY <1>3 DEF TurnsOf
  <2> QED  BY <1>1, <2>1
<1> QED  BY <1>2, <1>3

LEMMA AnswerType ==
  ASSUME NEW q \in Request
  PROVE  /\ Answer(q) \in Seq(Message) /\ ToolOutputs(q) \in Seq(Message)
         /\ q.turns \o Answer(q) \o ToolOutputs(q) \in Seq(Message)
<1>1. q.turns \in Seq(Message) /\ q.calls \in Nat /\ q.text \in Seq(Piece)
  BY DEF Request
<1>2. \A i \in 1 .. q.calls : CallId(q, i) \in Nat
  <2>1. Len(q.turns) \in Nat
    BY <1>1
  <2> DEFINE l == Len(q.turns)
  <2> HIDE DEF l
  <2>2. 2 * MaxPieces \in Nat
    BY BoundsOK
  <2>3. \A m, n \in Nat : m * n \in Nat
    OBVIOUS
  <2>4. l * (2 * MaxPieces) \in Nat
    BY <2>1, <2>2, <2>3 DEF l
  <2> QED  BY <2>4 DEF CallId, l
<1>3. <<"call">> \in Seq(Piece) /\ <<"output">> \in Seq(Piece)
  BY DEF Piece
<1>4. ToolOutputs(q) \in Seq(Message)
  <2>1. \A i \in 1 .. q.calls :
          [role |-> "user", content |-> <<"output">>, call |-> CallId(q, i)] \in Message
    BY <1>2, <1>3 DEF Message
  <2> QED  BY <1>1, <2>1 DEF ToolOutputs
<1> DEFINE Item(i) == IF q.profile.api = "chat"
                      THEN [role |-> "assistant", content |-> <<"call">>, call |-> CallId(q, i)]
                      ELSE Assistant(<<"call">>)
           calls == [i \in 1 .. q.calls |-> Item(i)]
<1>5. calls \in Seq(Message)
  <2>1. \A i \in 1 .. q.calls : Item(i) \in Message
    BY <1>2, <1>3 DEF Message, Assistant
  <2> HIDE DEF Item
  <2> QED  BY <1>1, <2>1
<1>6. Answer(q) = IF q.profile.api = "chat" /\ q.calls > 0 THEN calls
                  ELSE <<Assistant(q.text)>> \o calls
  BY DEF Answer
<1> HIDE DEF calls
<1>7. Assistant(q.text) \in Message
  BY <1>1 DEF Assistant, Message
<1>8. Answer(q) \in Seq(Message)
  BY <1>5, <1>6, <1>7
<1> QED  BY <1>1, <1>4, <1>8

LEMMA SemanticIdsType ==
  ASSUME NEW turns \in Seq(Message)
  PROVE  SemanticIds(turns) \in Seq(Message) /\ Len(SemanticIds(turns)) = Len(turns)
<1>1. ASSUME NEW m \in Message PROVE SemanticId(m) \in Message
  <2>1. <<>> \in Seq(Piece)
    OBVIOUS
  <2> QED  BY <2>1 DEF SemanticId, Message
<1>2. \A i \in DOMAIN turns : SemanticId(turns[i]) \in Message
  BY <1>1
<1>3. SemanticIds(turns) = [i \in 1 .. Len(turns) |-> SemanticId(turns[i])]
  BY DEF SemanticIds
<1> QED  BY <1>2, <1>3

LEMMA NewMessagesType ==
  ASSUME NEW incoming \in Seq(Message), NEW known \in Seq(Message)
  PROVE  known \o findNewMessages(incoming, known) \in Seq(Message)
<1>1. MatchedCount(incoming, known) \in 0 .. Len(incoming)
  BY MatchedIsCount DEF Compared
<1>2. findNewMessages(incoming, known) \in Seq(Message)
  BY <1>1 DEF findNewMessages
<1> QED  BY <1>2

LEMMA PersistType ==
  ASSUME TypeOK, NEW q \in Request
  PROVE  PersistAssistantTurn(PersistTitle(stored, q), q) \in
           [Conversations -> [messages : Seq(Message), title : {"untitled", "generated", "manual"}]]
<1> DEFINE Stores == [Conversations -> [messages : Seq(Message),
                                        title : {"untitled", "generated", "manual"}]]
           titled == PersistTitle(stored, q)
           c == q.profile.conversation
<1>1. titled \in Stores
  BY DEF PersistTitle, TypeOK
<1>2. PersistAssistantTurn(titled, q) =
        IF c \notin Conversations \/ q.calls > 0 THEN titled
        ELSE [titled EXCEPT ![c].messages = Append(@, Assistant(q.content))]
  BY DEF PersistAssistantTurn, Stateful
<1>3. Assistant(q.content) \in Message
  BY DEF Assistant, Message, Request
<1> HIDE DEF titled
<1>4. ASSUME c \in Conversations
      PROVE  [titled EXCEPT ![c].messages = Append(@, Assistant(q.content))] \in Stores
  <2>1. titled[c].messages \in Seq(Message)
    BY <1>1, <1>4
  <2>2. Append(titled[c].messages, Assistant(q.content)) \in Seq(Message)
    BY <1>3, <2>1
  <2> QED  BY <1>1, <2>2
<1>5. PersistAssistantTurn(titled, q) \in Stores
  BY <1>1, <1>2, <1>4
<1> QED  BY <1>5 DEF titled

LEMMA AppendType ==
  ASSUME TypeOK, NEW c \in Conversations, NEW turns \in Seq(Message)
  PROVE  AppendMessages(c, turns) \in
           [Conversations -> [messages : Seq(Message), title : {"untitled", "generated", "manual"}]]
<1>1. stored[c].messages \in Seq(Message)
  BY DEF TypeOK
<1>2. stored[c].messages \o findNewMessages(SemanticIds(turns), stored[c].messages) \in Seq(Message)
  BY <1>1, SemanticIdsType, NewMessagesType
<1> QED  BY <1>2 DEF AppendMessages, TypeOK

\* What the steps of the detector and of the end of an answer leave alone.
Keeps(q, x) ==
  /\ x.profile = q.profile /\ x.turns = q.turns /\ x.bounce = q.bounce
  /\ x.content = q.content /\ x.firstTool = q.firstTool /\ x.thinking = q.thinking
  /\ x.title = q.title

LEMMA ReleaseKeeps ==
  ASSUME NEW q \in Request, NEW n, NEW pieces
  PROVE  Keeps(q, Release(q, n, pieces)) /\ Release(q, n, pieces).pc = q.pc
         /\ Release(q, n, pieces).outcome = q.outcome /\ Release(q, n, pieces).output = q.output
BY DEF Release, Keeps, Request

LEMMA ClosingKeeps ==
  ASSUME NEW q \in Request, NEW calls
  PROVE  /\ Keeps(q, Closing(q, calls))
         /\ Closing(q, calls).pc = "ended" /\ Closing(q, calls).outcome = "completed"
         /\ Closing(q, calls).held = q.held /\ Closing(q, calls).text = q.text
         /\ Closing(q, calls).calls = q.calls
         /\ Closing(q, calls).output = OutputItems(q, calls)
BY DEF Closing, ChatClosing, ResponsesClosing, createCompletedResponse, Keeps, Request

LEMMA FailingKeeps ==
  ASSUME NEW q \in Request
  PROVE  Keeps(q, Failing(q)) /\ Failing(q).pc = "ended" /\ Failing(q).outcome = "failed"
BY DEF Failing, Keeps, Request

LEMMA OnChunkKeeps ==
  ASSUME NEW q \in Request, NEW piece \in Piece, NEW x \in OnChunk(q, piece)
  PROVE  Keeps(q, x) /\ x.pc = q.pc /\ x.outcome = q.outcome /\ x.output = q.output
<1>1. CASE q.profile.tools
  <2> DEFINE fed == [q EXCEPT !.held = Append(@, piece)]
  <2>1. PICK n \in 0 .. Len(fed.held), pieces \in Seq(Piece) :
          /\ x = Release(fed, n, pieces)
          /\ pieces \in Readings(SubSeq(fed.held, 1, n), FALSE)
    BY <1>1, ChunkReleases
  <2>2. fed \in Request
    BY FedType
  <2>3. Keeps(q, fed) /\ fed.pc = q.pc /\ fed.outcome = q.outcome /\ fed.output = q.output
    BY DEF Keeps, Request
  <2> HIDE DEF fed
  <2> QED  BY <2>1, <2>2, <2>3, ReleaseKeeps DEF Keeps
<1>2. CASE ~q.profile.tools
  <2>1. x = [q EXCEPT !.text = Append(@, piece),
                      !.events = Emit(q, TextDelta(q.profile, <<piece>>))]
    BY <1>2 DEF OnChunk
  <2> QED  BY <2>1 DEF Keeps, Request
<1> QED  BY <1>1, <1>2

\* Nothing of an answer is there yet.
Unanswered(q) ==
  /\ q.content = <<>> /\ q.held = <<>> /\ q.text = <<>> /\ q.calls = 0
  /\ ~q.bounce /\ q.firstTool = "none" /\ ~q.thinking /\ q.outcome = "none"

LEMMA OpenedFields ==
  ASSUME NEW p \in Profiles, NEW turns \in Seq(Message)
  PROVE  /\ Opened(p, turns).profile = p /\ Opened(p, turns).turns = turns
         /\ Opened(p, turns).pc = "idle" /\ Opened(p, turns).calls = 0
         /\ Opened(p, turns).events = IF p.stream THEN Opening(p) ELSE <<>>
         /\ Unanswered(Opened(p, turns))
<1> DEFINE q == [IdleRequest EXCEPT !.profile = p, !.turns = turns]
<1>1. /\ q.profile = p /\ q.turns = turns /\ q.pc = "idle" /\ q.outcome = "none"
      /\ q.content = <<>> /\ q.held = <<>> /\ q.text = <<>> /\ q.calls = 0 /\ q.bounce = FALSE
      /\ q.firstTool = "none" /\ q.events = <<>> /\ q.thinking = FALSE
  BY DEF IdleRequest
<1>2. q \in Request
  BY OpenedBase
<1>3. Opened(p, turns) = [q EXCEPT !.events = Emit(q, Opening(p))]
  BY DEF Opened
<1> HIDE DEF q
<1>4. /\ Opened(p, turns).profile = q.profile /\ Opened(p, turns).turns = q.turns
      /\ Opened(p, turns).pc = q.pc /\ Opened(p, turns).outcome = q.outcome
      /\ Opened(p, turns).content = q.content /\ Opened(p, turns).held = q.held
      /\ Opened(p, turns).text = q.text /\ Opened(p, turns).calls = q.calls
      /\ Opened(p, turns).bounce = q.bounce /\ Opened(p, turns).firstTool = q.firstTool
      /\ Opened(p, turns).thinking = q.thinking
      /\ Opened(p, turns).events = Emit(q, Opening(p))
  BY <1>2, <1>3 DEF Request
<1>5. Opening(p) \in Seq(Event)
  BY EventTypes
<1>6. Emit(q, Opening(p)) = IF p.stream THEN Opening(p) ELSE <<>>
  BY <1>1, <1>5 DEF Emit
<1>7. Unanswered(Opened(p, turns))
  BY <1>1, <1>4 DEF Unanswered
<1> QED  BY <1>1, <1>4, <1>6, <1>7

\* The places of a step: what it does to the queue and to who has its place.
Places(q, x, r) ==
  \/ x.pc = q.pc /\ UNCHANGED <<queue, running>>
  \/ q.pc = "message" /\ x.pc = "title" /\ UNCHANGED <<queue, running>>
  \/ q.pc = "idle" /\ x.pc = "ended" /\ UNCHANGED <<queue, running>>
  \/ q.pc = "ended" /\ x.pc = "idle" /\ UNCHANGED <<queue, running>>
  \/ q.pc = "idle" /\ x.pc = "queued" /\ queue' = Append(queue, r) /\ UNCHANGED running
  \/ /\ q.pc = "queued" /\ x.pc = "message" /\ running = Nobody
     /\ queue # <<>> /\ r = Head(queue) /\ queue' = Tail(queue) /\ running' = r
  \/ q.pc \in {"message", "title"} /\ x.pc = "ended" /\ running' = Nobody /\ UNCHANGED queue
Step(r, x) ==
  request' = [request EXCEPT ![r] = x] /\ Moves(request[r], x) /\ Places(request[r], x, r)

Waiting ==
  /\ \A r \in Slots : request[r].pc \in {"message", "title"} <=> r = running
  /\ \A r \in Slots : request[r].pc = "queued" <=> r \in Ids(queue)
  /\ \A i, j \in DOMAIN queue : queue[i] = queue[j] => i = j

LEMMA StartMoves ==
  ASSUME TypeOK, Waiting, StartJob
  PROVE  /\ Head(queue) \in Slots
         /\ \E x : /\ Step(Head(queue), x) /\ request[Head(queue)].pc = "queued"
                   /\ x.pc = "message" /\ x.profile = request[Head(queue)].profile
                   /\ x.turns = request[Head(queue)].turns
         /\ UNCHANGED <<stored, history, reworded>>
<1> DEFINE r == Head(queue)
           q == request[r]
           x == [q EXCEPT !.pc = "message", !.title = IF @ = "wanted" THEN "running" ELSE @]
<1>1. queue \in Seq(Slots) /\ queue # <<>> /\ running = Nobody
  BY DEF TypeOK, StartJob
<1>2. r \in Slots /\ r \in Ids(queue)
  BY <1>1 DEF Ids
<1>3. q \in Request /\ q.pc = "queued"
  BY <1>2 DEF TypeOK, Waiting
<1>4. request' = [request EXCEPT ![r] = x] /\ queue' = Tail(queue) /\ running' = r
  BY DEF StartJob, Update
<1>5. Starts(q, x)
  <2>1. q.title \in Titles /\ "running" \in Titles
    BY <1>3 DEF Request, Titles
  <2> DEFINE title == IF q.title = "wanted" THEN "running" ELSE q.title
  <2>2. title \in Titles /\ x = [q EXCEPT !.pc = "message", !.title = title]
    BY <2>1
  <2> HIDE DEF title, x, q
  <2> QED  BY <1>3, <2>2 DEF Starts
<1>6. x.pc = "message" /\ x.profile = q.profile /\ x.turns = q.turns
  BY <1>3 DEF Request
<1> HIDE DEF x
<1>7. Places(q, x, r)
  BY <1>1, <1>3, <1>4, <1>6 DEF Places
<1>8. Moves(q, x)
  BY <1>5 DEF Moves
<1>9. Step(r, x)
  BY <1>4, <1>7, <1>8 DEF Step
<1>10. UNCHANGED <<stored, history, reworded>>
  BY DEF StartJob
<1> QED  BY <1>2, <1>3, <1>6, <1>9, <1>10

LEMMA ArrivesMoves ==
  ASSUME TypeOK, NEW r \in Slots, Arrives(r)
  PROVE  /\ \E x : /\ Step(r, x) /\ request[r].pc = "message"
                   /\ x.pc = "message" /\ x.profile = request[r].profile
                   /\ x.turns = request[r].turns
         /\ UNCHANGED <<queue, running, stored, history, reworded>>
<1> DEFINE q == request[r]
           Same == UNCHANGED <<queue, running, stored, history, reworded>>
<1>1. q \in Request
  BY DEF TypeOK
<1>2. ASSUME NEW piece \in {"text", "block", "object", "call"}, TextArrives(r, piece)
      PROVE  (\E x : /\ request' = [request EXCEPT ![r] = x] /\ Feeds(q, x)
                     /\ Keeps([q EXCEPT !.content = Append(@, piece)], x) /\ x.pc = "message")
             /\ q.pc = "message" /\ Same
  <2> DEFINE fed == [q EXCEPT !.content = Append(@, piece)]
  <2>1. /\ q.pc = "message" /\ Same
        /\ \E next \in (IF Suppressed(fed) THEN {fed} ELSE OnChunk(fed, piece)) : Update(r, next)
    BY <1>2 DEF TextArrives, Streaming
  <2>2. PICK x \in (IF Suppressed(fed) THEN {fed} ELSE OnChunk(fed, piece)) :
          request' = [request EXCEPT ![r] = x]
    BY <2>1 DEF Update
  <2>3. piece \in Piece
    BY DEF Piece
  <2>4. Feeds(q, x)
    BY <2>1, <2>2, <2>3 DEF Feeds
  <2>5. fed \in Request /\ fed.pc = "message"
    <3>1. fed \in Request
      BY <1>1, <2>3, FedType
    <3>2. fed.pc = q.pc
      BY <1>1 DEF Request
    <3> QED  BY <2>1, <3>1, <3>2
  <2> HIDE DEF fed
  <2>6. Keeps(fed, x) /\ x.pc = "message"
    <3>1. CASE x = fed
      BY <2>5, <3>1 DEF Keeps
    <3>2. CASE x \in OnChunk(fed, piece)
      BY <2>3, <2>5, <3>2, OnChunkKeeps
    <3> QED  BY <2>2, <3>1, <3>2
  <2> QED  BY <2>1, <2>2, <2>4, <2>6 DEF fed
<1>3. ASSUME ReasoningArrives(r)
      PROVE  (\E x : /\ request' = [request EXCEPT ![r] = x] /\ Thinks(q, x)
                     /\ x.pc = "message" /\ x.profile = q.profile /\ x.turns = q.turns)
             /\ q.pc = "message" /\ Same
  <2> DEFINE x == [q EXCEPT !.thinking = TRUE, !.events = Emit(q, ReasoningDelta(q.profile))]
  <2>1. /\ q.pc = "message" /\ q.profile.reasoning /\ Same
        /\ request' = [request EXCEPT ![r] = x]
    BY <1>3 DEF ReasoningArrives, Streaming, Update
  <2>2. x.pc = "message" /\ x.profile = q.profile /\ x.turns = q.turns
    BY <1>1, <2>1 DEF Request
  <2>3. Thinks(q, x)
    BY <2>1 DEF Thinks
  <2> HIDE DEF x
  <2> QED  BY <2>1, <2>2, <2>3
<1>4. ASSUME NEW kind \in {"native", "misrouted"}, ToolCallArrives(r, kind)
      PROVE  (\E x : /\ request' = [request EXCEPT ![r] = x] /\ CallsTool(q, x)
                     /\ x.pc = "message" /\ x.profile = q.profile /\ x.turns = q.turns)
             /\ q.pc = "message" /\ Same
  <2> DEFINE x == [q EXCEPT !.firstTool = kind]
  <2>1. /\ q.pc = "message" /\ q.firstTool = "none" /\ Same
        /\ request' = [request EXCEPT ![r] = x]
    BY <1>4 DEF ToolCallArrives, Streaming, Update
  <2>2. x.pc = "message" /\ x.profile = q.profile /\ x.turns = q.turns
    BY <1>1, <2>1 DEF Request
  <2>3. CallsTool(q, x)
    BY <2>1 DEF CallsTool
  <2> HIDE DEF x
  <2> QED  BY <2>1, <2>2, <2>3
<1>5. \/ \E piece \in {"text", "block", "object", "call"} : TextArrives(r, piece)
      \/ ReasoningArrives(r)
      \/ \E kind \in {"native", "misrouted"} : ToolCallArrives(r, kind)
  BY DEF Arrives
<1>6. ASSUME NEW piece \in {"text", "block", "object", "call"}, NEW x,
             Keeps([q EXCEPT !.content = Append(@, piece)], x)
      PROVE  x.profile = q.profile /\ x.turns = q.turns
  <2>1. /\ [q EXCEPT !.content = Append(@, piece)].profile = q.profile
        /\ [q EXCEPT !.content = Append(@, piece)].turns = q.turns
    BY <1>1 DEF Request
  <2> QED  BY <1>6, <2>1 DEF Keeps
<1>7. /\ \E x : /\ request' = [request EXCEPT ![r] = x]
                /\ Feeds(q, x) \/ Thinks(q, x) \/ CallsTool(q, x)
                /\ x.pc = "message" /\ x.profile = q.profile /\ x.turns = q.turns
      /\ q.pc = "message" /\ Same
  BY <1>2, <1>3, <1>4, <1>5, <1>6
<1> QED  BY <1>7 DEF Step, Moves, Places

LEMMA ClientMoves ==
  ASSUME TypeOK, NEW r \in Slots, ClientReads(r)
  PROVE  Step(r, IdleRequest)
<1>1. request[r].pc = "ended" /\ request' = [request EXCEPT ![r] = IdleRequest]
      /\ UNCHANGED <<queue, running>>
  BY DEF ClientReads
<1> QED  BY <1>1, IdleType DEF Step, Moves, Clears, Places

\* A request that comes in.
Received(r, p, turns, x) ==
  /\ Step(r, x) /\ x.profile = p /\ x.turns = turns
  /\ \/ x.pc = "queued"
     \/ /\ x.pc = "ended" /\ x.outcome = "completed"
        /\ x.calls = 0 /\ x.text = <<"reply">>

LEMMA ReceiveMoves ==
  ASSUME TypeOK, NEW r \in Slots, NEW p \in Profiles, NEW turns \in Seq(Message),
         Receive(r, p, turns)
  PROVE  \E x : Received(r, p, turns, x)
<1> DEFINE open == Opened(p, turns)
           after == IF Stateful([IdleRequest EXCEPT !.profile = p, !.turns = turns])
                    THEN AppendMessages(p.conversation, turns) ELSE stored
<1>1. /\ request[r].pc = "idle" /\ UNCHANGED running
      /\ IF IsCommand(turns) THEN AnswerCommand(r, open, after) ELSE AddToQueue(r, open, after)
  BY DEF Receive, Opened
<1>2. /\ open \in Request /\ open.profile = p /\ open.turns = turns /\ open.pc = "idle"
      /\ open.calls = 0
  BY OpenedType, OpenedFields
<1>3. CASE IsCommand(turns)
  <2> DEFINE reply == [open EXCEPT !.text = <<"reply">>,
                                   !.events = Emit(open, TextDelta(p, <<"reply">>))]
             x == Closing(reply, 0)
  <2>1. request' = [request EXCEPT ![r] = x] /\ UNCHANGED queue
    <3> HIDE DEF open
    <3> QED  BY <1>1, <1>2, <1>3 DEF AnswerCommand
  <2>2. /\ reply \in Request /\ reply.profile = p /\ reply.turns = turns /\ reply.calls = 0
        /\ reply.text = <<"reply">>
    <3>1. Emit(open, TextDelta(p, <<"reply">>)) \in Seq(Event)
      BY <1>2, EventTypes, EmitType
    <3>2. <<"reply">> \in Seq(Piece)
      BY DEF Piece
    <3> HIDE DEF open
    <3> QED  BY <1>2, <3>1, <3>2 DEF Request
  <2>3. Commands(x)
    BY <1>3 DEF Commands
  <2> HIDE DEF reply
  <2>4. /\ x.pc = "ended" /\ x.outcome = "completed" /\ x.profile = p /\ x.turns = turns
        /\ x.calls = 0 /\ x.text = <<"reply">>
    BY <2>2, ClosingKeeps DEF Keeps
  <2> HIDE DEF x
  <2> QED  BY <1>1, <2>1, <2>3, <2>4 DEF Received, Step, Moves, Places
<1>4. CASE ~IsCommand(turns)
  <2> DEFINE title == IF TitleWanted(p) THEN "wanted" ELSE "none"
             x == [open EXCEPT !.pc = "queued", !.title = title]
  <2>1. request' = [request EXCEPT ![r] = x] /\ queue' = Append(queue, r)
    <3> HIDE DEF open
    <3> QED  BY <1>1, <1>2, <1>4 DEF AddToQueue
  <2>2. x.pc = "queued" /\ x.profile = p /\ x.turns = turns
    <3> HIDE DEF open
    <3> QED  BY <1>2 DEF Request
  <2>3. Queues(x)
    <3>1. title \in Titles
      BY DEF Titles
    <3> HIDE DEF title
    <3> QED  BY <3>1 DEF Queues
  <2> HIDE DEF x
  <2> QED  BY <1>1, <2>1, <2>2, <2>3 DEF Received, Step, Moves, Places
<1> QED  BY <1>3, <1>4

\* The end of an answer.
LEMMA FinishMoves ==
  ASSUME TypeOK, NEW r \in Slots, NEW title \in Titles, request[r].pc \in {"message", "title"},
         request[r].pc = "message" => ~Suppressed(request[r]),
         Finish(r, [request[r] EXCEPT !.title = title])
  PROVE  \E final \in Request :
           /\ Step(r, Closing(final, final.calls)) /\ Closing(final, final.calls).pc = "ended"
           /\ final = Finalize([request[r] EXCEPT !.title = title])
           /\ Keeps([request[r] EXCEPT !.title = title], final)
           /\ stored' = PersistAssistantTurn(PersistTitle(stored, final), final)
           /\ reworded' = IF Stateful(request[r]) /\ final.calls = 0 /\ final.text # final.content
                          THEN [reworded EXCEPT ![request[r].profile.conversation] = TRUE]
                          ELSE reworded
           /\ UNCHANGED history
<1> DEFINE q == request[r]
           titled == [q EXCEPT !.title = title]
           final == Finalize(titled)
<1>1. q \in Request
  BY DEF TypeOK
<1>2. titled \in Request /\ titled.held \in Seq(Piece) /\ titled.profile = q.profile
  BY <1>1 DEF Request, Titles
<1>3. /\ request' = [request EXCEPT ![r] = Closing(final, final.calls)]
      /\ stored' = PersistAssistantTurn(PersistTitle(stored, final), final)
      /\ reworded' = IF Stateful(titled) /\ final.calls = 0 /\ final.text # final.content
                     THEN [reworded EXCEPT ![titled.profile.conversation] = TRUE] ELSE reworded
      /\ running' = Nobody /\ UNCHANGED <<queue, history>>
  <2> HIDE DEF titled
  <2> QED  BY DEF Finish, Update, titled
<1>4. Completes(q, Closing(final, final.calls))
  BY DEF Completes
<1> HIDE DEF titled
<1>5. final \in Request /\ Keeps(titled, final)
  <2>1. Len(titled.held) \in 0 .. Len(titled.held)
    BY <1>2
  <2> QED  BY <1>2, <2>1, ReleaseType, ReleaseKeeps DEF Finalize
<1> HIDE DEF final
<1>6. Closing(final, final.calls).pc = "ended"
  BY <1>5, ClosingKeeps
<1>7. Step(r, Closing(final, final.calls))
  BY <1>3, <1>4, <1>6 DEF Step, Moves, Places
<1>8. Stateful(titled) = Stateful(q)
  BY <1>2 DEF Stateful
<1> QED  BY <1>2, <1>3, <1>5, <1>6, <1>7, <1>8 DEF titled, final

\* What is left of an answer: it goes on or fails, or it is finished.
GoesOn(r, x) ==
  /\ Step(r, x) /\ request[r].pc \in {"message", "title"}
  /\ x.pc \in {"message", "title"} \/ (x.pc = "ended" /\ x.outcome = "failed")
  /\ x.profile = request[r].profile /\ x.turns = request[r].turns
Finishes(r, title) ==
  /\ request[r].pc \in {"message", "title"}
  /\ request[r].pc = "message" => ~Suppressed(request[r])
  /\ Finish(r, [request[r] EXCEPT !.title = title])

LEMMA EndsMoves ==
  ASSUME TypeOK, NEW r \in Slots, Ends(r)
  PROVE  \/ (\E x : GoesOn(r, x)) /\ UNCHANGED <<stored, history, reworded>>
         \/ \E title \in Titles : Finishes(r, title)
<1> DEFINE q == request[r]
           Same == UNCHANGED <<queue, running, stored, history, reworded>>
<1>1. q \in Request
  BY DEF TypeOK
<1>2. ASSUME StreamFails(r)
      PROVE  (\E x : GoesOn(r, x)) /\ UNCHANGED <<stored, history, reworded>>
  <2>1. /\ q.pc = "message" /\ request' = [request EXCEPT ![r] = Failing(q)]
        /\ running' = Nobody /\ UNCHANGED <<queue, stored, history, reworded>>
    BY <1>2 DEF StreamFails, Streaming, Update
  <2>2. Keeps(q, Failing(q)) /\ Failing(q).pc = "ended" /\ Failing(q).outcome = "failed"
    BY <1>1, FailingKeeps
  <2>3. Step(r, Failing(q))
    BY <2>1, <2>2 DEF Step, Moves, Breaks, Places
  <2> QED  BY <2>1, <2>2, <2>3 DEF GoesOn, Keeps
<1>3. ASSUME q.pc = "message", Suppressed(q), Update(r, Bounced(q)), Same
      PROVE  (\E x : GoesOn(r, x)) /\ UNCHANGED <<stored, history, reworded>>
  <2>1. /\ Bounced(q).pc = "message" /\ Bounced(q).profile = q.profile
        /\ Bounced(q).turns = q.turns
    BY <1>1, <1>3 DEF Bounced, Request
  <2>2. Step(r, Bounced(q))
    BY <1>3, <2>1 DEF Step, Moves, Bounces, Places, Update
  <2> QED  BY <1>3, <2>1, <2>2 DEF GoesOn
<1>4. ASSUME q.pc = "message", ~Suppressed(q), Update(r, [q EXCEPT !.pc = "title"]), Same
      PROVE  (\E x : GoesOn(r, x)) /\ UNCHANGED <<stored, history, reworded>>
  <2> DEFINE x == [q EXCEPT !.pc = "title"]
  <2>1. x.pc = "title" /\ x.profile = q.profile /\ x.turns = q.turns
    BY <1>1 DEF Request
  <2>2. AwaitsTitle(q, x) /\ request' = [request EXCEPT ![r] = x]
    BY <1>4 DEF AwaitsTitle, Update
  <2> HIDE DEF x
  <2>3. Step(r, x)
    BY <1>4, <2>1, <2>2 DEF Step, Moves, Places
  <2> QED  BY <1>4, <2>1, <2>3 DEF GoesOn
<1>5. ASSUME q.pc = "message", ~Suppressed(q), Finish(r, q)
      PROVE  \E title \in Titles : Finishes(r, title)
  <2>1. q.title \in Titles /\ [q EXCEPT !.title = q.title] = q
    BY <1>1 DEF Request, Titles
  <2> DEFINE same == [q EXCEPT !.title = q.title]
  <2>2. Finish(r, same)
    <3>1. same = q
      BY <2>1
    <3> HIDE DEF same, q
    <3> QED  BY <1>5, <3>1
  <2> QED  BY <1>5, <2>1, <2>2 DEF Finishes
<1>6. ASSUME NEW result \in {"ready", "failed"}, TitleEnds(r, result)
      PROVE  \/ (\E x : GoesOn(r, x)) /\ UNCHANGED <<stored, history, reworded>>
             \/ \E title \in Titles : Finishes(r, title)
  <2> DEFINE x == [q EXCEPT !.title = result]
  <2>1. /\ q.pc \in {"message", "title"} /\ result \in Titles
        /\ IF x.pc = "title" THEN Finish(r, x) ELSE Update(r, x) /\ Same
    BY <1>6 DEF TitleEnds, Titles
  <2>2. x.pc = q.pc /\ x.profile = q.profile /\ x.turns = q.turns
    BY <1>1 DEF Request
  <2>3. CASE q.pc = "title"
    <3>1. Finish(r, x)
      BY <2>1, <2>2, <2>3
    <3> QED  BY <2>1, <2>3, <3>1 DEF Finishes
  <2>4. CASE q.pc # "title"
    <3>1. request' = [request EXCEPT ![r] = x] /\ Same
      BY <2>1, <2>2, <2>4 DEF Update
    <3>2. GetsTitle(q, x)
      BY <2>1 DEF GetsTitle
    <3> HIDE DEF x
    <3>3. Step(r, x)
      BY <2>2, <3>1, <3>2 DEF Step, Moves, Places
    <3> QED  BY <2>1, <2>2, <3>1, <3>3 DEF GoesOn
  <2> QED  BY <2>3, <2>4
<1>7. ASSUME StreamEnds(r)
      PROVE  \/ (\E x : GoesOn(r, x)) /\ UNCHANGED <<stored, history, reworded>>
             \/ \E title \in Titles : Finishes(r, title)
  <2>1. /\ q.pc = "message"
        /\ \/ Suppressed(q) /\ Update(r, Bounced(q)) /\ Same
           \/ ~Suppressed(q) /\ Update(r, [q EXCEPT !.pc = "title"]) /\ Same
           \/ ~Suppressed(q) /\ Finish(r, q)
    BY <1>7 DEF StreamEnds, Streaming
  <2> HIDE DEF q
  <2> QED  BY <1>3, <1>4, <1>5, <2>1
<1> QED  BY <1>2, <1>6, <1>7 DEF Ends

LEMMA RequestMoves ==
  ASSUME TypeOK, NEW r \in Slots, ResponsesRequest(r) \/ ChatRequest(r)
  PROVE  \E p \in Profiles, turns \in Seq(Message) :
           turns \in TurnsOf(p) /\ Receive(r, p, turns)
<1>1. PICK p \in ProfilesOf[r] : \E turns \in TurnsOf(p) : Receive(r, p, turns)
  BY DEF ResponsesRequest, ChatRequest
<1>2. p \in Profiles
  BY DEF Profiles
<1>3. \A turns \in TurnsOf(p) : turns \in Seq(Message)
  BY <1>2, TurnsType
<1> QED  BY <1>1, <1>2, <1>3

\* Every step is a step of one request.
LEMMA NextMoves ==
  ASSUME TypeOK, Waiting, [Next]_vars
  PROVE  UNCHANGED <<request, queue, running>> \/ \E r \in Slots : \E x : Step(r, x)
<1>1. CASE UNCHANGED vars
  BY <1>1 DEF vars
<1>2. CASE StartJob
  BY <1>2, StartMoves
<1>3. ASSUME NEW r \in Slots, Client(r) PROVE \E x : Step(r, x)
  <2>1. CASE ClientReads(r)
    BY <2>1, ClientMoves
  <2>2. CASE ResponsesRequest(r) \/ ChatRequest(r)
    BY <2>2, RequestMoves, ReceiveMoves DEF Received
  <2> QED  BY <1>3, <2>1, <2>2 DEF Client
<1>4. ASSUME NEW r \in Slots, Arrives(r) PROVE \E x : Step(r, x)
  BY <1>4, ArrivesMoves
<1>5. ASSUME NEW r \in Slots, Ends(r) PROVE \E x : Step(r, x)
  <2>1. ASSUME NEW title \in Titles, Finishes(r, title) PROVE \E x : Step(r, x)
    BY <2>1, FinishMoves DEF Finishes
  <2> QED  BY <1>5, <2>1, EndsMoves DEF GoesOn
<1> QED  BY <1>1, <1>2, <1>3, <1>4, <1>5 DEF Next

LEMMA StoreTyped ==
  ASSUME TypeOK, [Next]_vars
  PROVE  /\ stored' \in [Conversations -> [messages : Seq(Message),
                                           title : {"untitled", "generated", "manual"}]]
         /\ history' \in [Conversations -> Seq(Message)]
         /\ reworded' \in [Conversations -> BOOLEAN]
<1> DEFINE Stores == [Conversations -> [messages : Seq(Message),
                                        title : {"untitled", "generated", "manual"}]]
           Histories == [Conversations -> Seq(Message)]
           Same == UNCHANGED <<stored, history, reworded>>
           Typed == /\ stored' \in Stores /\ history' \in Histories
                    /\ reworded' \in [Conversations -> BOOLEAN]
<1>1. ASSUME Same PROVE Typed
  BY <1>1 DEF TypeOK
<1>2. ASSUME NEW r \in Slots, ClientReads(r) PROVE Typed
  <2> DEFINE q == request[r]
             c == q.profile.conversation
  <2>1. /\ UNCHANGED <<stored, reworded>>
        /\ history' = IF ~Stateful(q) THEN history
                      ELSE [history EXCEPT ![c] =
                              IF q.outcome = "completed"
                              THEN q.turns \o Answer(q) \o ToolOutputs(q) ELSE q.turns]
    BY <1>2 DEF ClientReads
  <2>2. q \in Request
    BY DEF TypeOK
  <2> HIDE DEF q
  <2>3. q.turns \o Answer(q) \o ToolOutputs(q) \in Seq(Message) /\ q.turns \in Seq(Message)
    BY <2>2, AnswerType DEF Request
  <2> DEFINE told == IF q.outcome = "completed"
                     THEN q.turns \o Answer(q) \o ToolOutputs(q) ELSE q.turns
  <2>4. told \in Seq(Message)
    BY <2>3
  <2>5. history' = history \/ history' = [history EXCEPT ![c] = told]
    BY <2>1
  <2> HIDE DEF told
  <2> QED  BY <2>1, <2>4, <2>5 DEF TypeOK
<1>3. ASSUME NEW r \in Slots, NEW p \in Profiles, NEW turns \in Seq(Message), Receive(r, p, turns)
      PROVE  Typed
  <2> DEFINE q == [IdleRequest EXCEPT !.profile = p, !.turns = turns]
             open == Opened(p, turns)
             after == IF Stateful(q) THEN AppendMessages(p.conversation, turns) ELSE stored
  <2>1. /\ UNCHANGED <<history, reworded>>
        /\ IF IsCommand(turns) THEN AnswerCommand(r, open, after) ELSE AddToQueue(r, open, after)
    BY <1>3 DEF Receive, Opened
  <2>2. q.profile = p
    BY DEF IdleRequest
  <2> HIDE DEF q
  <2>3. after \in Stores
    BY <2>2, AppendType DEF Stateful, TypeOK
  <2> HIDE DEF after
  <2>4. stored' = after \/ stored' = [after EXCEPT ![open.profile.conversation].title = "manual"]
    <3> HIDE DEF open
    <3> QED  BY <2>1 DEF AnswerCommand, AddToQueue
  <2>5. stored' \in Stores
    BY <2>3, <2>4
  <2> QED  BY <2>1, <2>5 DEF TypeOK
<1>4. ASSUME NEW r \in Slots, NEW title \in Titles, Finishes(r, title) PROVE Typed
  <2>1. PICK final \in Request :
          /\ stored' = PersistAssistantTurn(PersistTitle(stored, final), final)
          /\ reworded' = IF Stateful(request[r]) /\ final.calls = 0 /\ final.text # final.content
                         THEN [reworded EXCEPT ![request[r].profile.conversation] = TRUE]
                         ELSE reworded
          /\ UNCHANGED history
    BY <1>4, FinishMoves DEF Finishes
  <2> QED  BY <2>1, PersistType DEF TypeOK
<1>5. CASE UNCHANGED vars
  BY <1>1, <1>5 DEF vars
<1>6. CASE StartJob
  BY <1>1, <1>6 DEF StartJob
<1>7. ASSUME NEW r \in Slots, Client(r) PROVE Typed
  BY <1>2, <1>3, <1>7, RequestMoves DEF Client
<1>8. ASSUME NEW r \in Slots, Arrives(r) PROVE Typed
  BY <1>1, <1>8, ArrivesMoves
<1>9. ASSUME NEW r \in Slots, Ends(r) PROVE Typed
  BY <1>1, <1>4, <1>9, EndsMoves
<1>10. \/ UNCHANGED vars \/ StartJob
       \/ \E r \in Slots : Client(r) \/ Arrives(r) \/ Ends(r)
  BY DEF Next
<1> QED  BY <1>5, <1>6, <1>7, <1>8, <1>9, <1>10
-------------------------------------------------------------------------------
(* One at a time *)

LEMMA AppendIds ==
  ASSUME NEW S, NEW s \in Seq(S), NEW e
  PROVE  Ids(Append(s, e)) = Ids(s) \cup {e}
<1> DEFINE t == Append(s, e)
<1>1. /\ DOMAIN t = (1 .. Len(s)) \cup {Len(s) + 1} /\ DOMAIN s = 1 .. Len(s)
      /\ t[Len(s) + 1] = e /\ \A i \in 1 .. Len(s) : t[i] = s[i]
  OBVIOUS
<1> HIDE DEF t
<1>2. Ids(t) = Ids(s) \cup {e}
  BY <1>1 DEF Ids
<1> QED  BY <1>2 DEF t

LEMMA TailIds ==
  ASSUME NEW S, NEW s \in Seq(S), s # <<>>,
         \A i, j \in DOMAIN s : s[i] = s[j] => i = j
  PROVE  /\ Ids(Tail(s)) = Ids(s) \ {Head(s)}
         /\ \A i, j \in DOMAIN Tail(s) : Tail(s)[i] = Tail(s)[j] => i = j
<1> DEFINE t == Tail(s)
<1>1. /\ DOMAIN s = 1 .. Len(s) /\ Len(s) \in Nat \ {0} /\ DOMAIN t = 1 .. Len(s) - 1
      /\ \A i \in 1 .. Len(s) - 1 : t[i] = s[i + 1]
      /\ Head(s) = s[1]
  OBVIOUS
<1> HIDE DEF t
<1>2. \A i, j \in DOMAIN t : t[i] = t[j] => i = j
  <2>1. ASSUME NEW i \in DOMAIN t, NEW j \in DOMAIN t, t[i] = t[j] PROVE i = j
    <3>1. i + 1 \in DOMAIN s /\ j + 1 \in DOMAIN s /\ s[i + 1] = s[j + 1]
      BY <1>1, <2>1
    <3>2. i + 1 = j + 1
      BY <3>1
    <3> QED  BY <1>1, <3>2
  <2> QED  BY <2>1
<1>3. Ids(t) = Ids(s) \ {s[1]}
  <2>1. ASSUME NEW i \in DOMAIN t PROVE t[i] \in Ids(s) /\ t[i] # s[1]
    <3>1. i + 1 \in DOMAIN s /\ t[i] = s[i + 1] /\ 1 \in DOMAIN s /\ i + 1 # 1
      BY <1>1
    <3>2. s[i + 1] # s[1]
      BY <3>1
    <3> QED  BY <3>1, <3>2 DEF Ids
  <2>2. ASSUME NEW i \in DOMAIN s, s[i] # s[1] PROVE s[i] \in Ids(t)
    <3>1. i - 1 \in DOMAIN t /\ t[i - 1] = s[(i - 1) + 1] /\ (i - 1) + 1 = i
      BY <1>1, <2>2
    <3> QED  BY <3>1 DEF Ids
  <2> QED  BY <2>1, <2>2 DEF Ids
<1> QED  BY <1>1, <1>2, <1>3 DEF t

LEMMA StepWaits ==
  ASSUME TypeOK, Waiting, NEW r \in Slots, NEW x, Step(r, x)
  PROVE  Waiting' /\ queue' \in Seq(Slots) /\ running' \in Slots \cup {Nobody}
<1> DEFINE q == request[r]
<1>1. /\ request'[r] = x /\ \A s \in Slots : s # r => request'[s] = request[s]
  BY DEF TypeOK, Step
<1>2. queue \in Seq(Slots) /\ running \in Slots \cup {Nobody} /\ Nobody \notin Slots
  BY BoundsOK DEF TypeOK
<1>3. Places(q, x, r)
  BY DEF Step
<1>4. ASSUME UNCHANGED <<queue, running>>, x.pc \in {"message", "title"} <=> q.pc \in {"message", "title"},
             x.pc = "queued" <=> q.pc = "queued"
      PROVE  Waiting' /\ queue' \in Seq(Slots) /\ running' \in Slots \cup {Nobody}
  BY <1>1, <1>2, <1>4 DEF Waiting, Ids
<1>5. ASSUME q.pc = "idle", x.pc = "queued", queue' = Append(queue, r), UNCHANGED running
      PROVE  Waiting' /\ queue' \in Seq(Slots) /\ running' \in Slots \cup {Nobody}
  <2>1. Ids(queue') = Ids(queue) \cup {r} /\ queue' \in Seq(Slots)
    BY <1>2, <1>5, AppendIds
  <2>2. r \notin Ids(queue)
    BY <1>5 DEF Waiting
  <2>3. \A i, j \in DOMAIN queue' : queue'[i] = queue'[j] => i = j
    <3> DEFINE w == Append(queue, r)
    <3>1. /\ DOMAIN w = (1 .. Len(queue)) \cup {Len(queue) + 1} /\ DOMAIN queue = 1 .. Len(queue)
          /\ w[Len(queue) + 1] = r /\ \A i \in 1 .. Len(queue) : w[i] = queue[i]
      BY <1>2
    <3> HIDE DEF w
    <3>2. \A i \in DOMAIN queue : queue[i] # r
      BY <2>2 DEF Ids
    <3>3. \A i, j \in DOMAIN w : w[i] = w[j] => i = j
      BY <3>1, <3>2 DEF Waiting
    <3> QED  BY <1>5, <3>3 DEF w
  <2>4. \A s \in Slots : request'[s].pc = "queued" <=> s \in Ids(queue')
    BY <1>1, <1>5, <2>1 DEF Waiting
  <2>5. \A s \in Slots : request'[s].pc \in {"message", "title"} <=> s = running'
    BY <1>1, <1>5 DEF Waiting
  <2>6. Ids(queue)' = Ids(queue')
    BY DEF Ids
  <2> QED  BY <1>2, <1>5, <2>1, <2>3, <2>4, <2>5, <2>6 DEF Waiting
<1>6. ASSUME q.pc = "queued", x.pc = "message", running = Nobody, queue # <<>>,
             r = Head(queue), queue' = Tail(queue), running' = r
      PROVE  Waiting' /\ queue' \in Seq(Slots) /\ running' \in Slots \cup {Nobody}
  <2>1. \A i, j \in DOMAIN queue : queue[i] = queue[j] => i = j
    BY DEF Waiting
  <2>2. /\ Ids(queue') = Ids(queue) \ {r} /\ queue' \in Seq(Slots)
        /\ \A i, j \in DOMAIN queue' : queue'[i] = queue'[j] => i = j
    BY <1>2, <1>6, <2>1, TailIds
  <2>3. \A s \in Slots : request'[s].pc = "queued" <=> s \in Ids(queue')
    BY <1>1, <1>6, <2>2 DEF Waiting
  <2>4. \A s \in Slots : request'[s].pc \in {"message", "title"} <=> s = running'
    BY <1>1, <1>2, <1>6 DEF Waiting
  <2>5. Ids(queue)' = Ids(queue')
    BY DEF Ids
  <2> QED  BY <1>6, <2>2, <2>3, <2>4, <2>5 DEF Waiting
<1>7. ASSUME q.pc \in {"message", "title"}, x.pc = "ended", running' = Nobody, UNCHANGED queue
      PROVE  Waiting' /\ queue' \in Seq(Slots) /\ running' \in Slots \cup {Nobody}
  <2>1. r = running
    BY <1>7 DEF Waiting
  <2>2. \A s \in Slots : request'[s].pc \in {"message", "title"} <=> s = running'
    BY <1>1, <1>2, <1>7, <2>1 DEF Waiting
  <2>3. \A s \in Slots : request'[s].pc = "queued" <=> s \in Ids(queue)
    BY <1>1, <1>7 DEF Waiting
  <2>4. Ids(queue)' = Ids(queue) /\ \A i, j \in DOMAIN queue : queue[i] = queue[j] => i = j
    BY <1>7 DEF Ids, Waiting
  <2> QED  BY <1>2, <1>7, <2>2, <2>3, <2>4 DEF Waiting
<1> QED  BY <1>3, <1>4, <1>5, <1>6, <1>7 DEF Places

\* TypeOK and Waiting, the place and the queue, hold together: the next request is taken
\* from the queue, so its type rests on who waits there.
PipelineOK == TypeOK /\ Waiting

LEMMA InitPipeline == Init => PipelineOK
<1> SUFFICES ASSUME Init PROVE PipelineOK
  OBVIOUS
<1>1. request \in [Slots -> Request] /\ \A r \in Slots : request[r].pc = "idle"
  BY IdleType DEF Init
<1>2. queue \in Seq(Slots) /\ running = Nobody /\ Ids(queue) = {} /\ DOMAIN queue = {}
  BY DEF Init, Ids
<1>3. <<>> \in Seq(Message)
  OBVIOUS
<1>4. TypeOK
  BY <1>1, <1>2, <1>3 DEF TypeOK, Init
<1>5. Waiting
  BY <1>1, <1>2, BoundsOK DEF Waiting
<1> QED  BY <1>4, <1>5 DEF PipelineOK

LEMMA NextPipeline == PipelineOK /\ [Next]_vars => PipelineOK'
<1> SUFFICES ASSUME TypeOK, Waiting, [Next]_vars PROVE TypeOK' /\ Waiting'
  BY DEF PipelineOK
<1>1. CASE UNCHANGED <<request, queue, running>>
  BY <1>1, StoreTyped DEF TypeOK, Waiting, Ids
<1>2. ASSUME NEW r \in Slots, NEW x, Step(r, x) PROVE TypeOK' /\ Waiting'
  <2>1. request[r] \in Request /\ request' = [request EXCEPT ![r] = x]
    BY <1>2 DEF TypeOK, Step
  <2>2. x \in Request
    BY <1>2, <2>1, MovesType DEF Step
  <2>3. request' \in [Slots -> Request]
    BY <2>1, <2>2 DEF TypeOK
  <2> QED  BY <1>2, <2>3, StepWaits, StoreTyped DEF TypeOK
<1> QED  BY <1>1, <1>2, NextMoves

LEMMA PipelineAlways == Spec => []PipelineOK
BY InitPipeline, NextPipeline, PTL DEF Spec

\* TypeCorrect: every variable has its type, whatever is sent and answered: no step of a
\* request makes an event, an item or a text of another kind (request-handlers.ts:53-328).
THEOREM TypeCorrect == Spec => []TypeOK
<1>1. PipelineOK => TypeOK
  BY DEF PipelineOK
<1> QED  BY <1>1, PipelineAlways, PTL

LEMMA EachOnce ==
  ASSUME NEW S, NEW s \in Seq(S), \A i, j \in DOMAIN s : s[i] = s[j] => i = j
  PROVE  Cardinality(Ids(s)) = Len(s)
<1>1. Len(s) \in Nat /\ DOMAIN s = 1 .. Len(s)
  OBVIOUS
<1>2. s \in [1 .. Len(s) -> Ids(s)]
  <2>1. s = [i \in 1 .. Len(s) |-> s[i]]
    OBVIOUS
  <2> QED  BY <2>1 DEF Ids
<1>3. s \in Bijection(1 .. Len(s), Ids(s))
  BY <1>1, <1>2 DEF Bijection, Injection, Surjection, IsInjective, Ids
<1> QED  BY <1>1, <1>3, FS_CountingElements DEF ExistsBijection

\* AnsweredOneAtATime: whatever requests come, fail, bounce and wait for titles, the
\* place is one request's, and the queue has each waiting request once
\* (queue.ts:6-13, client.ts:340-407).
THEOREM AnsweredOneAtATime == Spec => []OneAtATime
<1>1. PipelineOK => OneAtATime
  <2> SUFFICES ASSUME PipelineOK PROVE OneAtATime
    OBVIOUS
  <2>1. queue \in Seq(Slots) /\ \A i, j \in DOMAIN queue : queue[i] = queue[j] => i = j
    BY DEF PipelineOK, TypeOK, Waiting
  <2>2. Cardinality(Ids(queue)) = Len(queue)
    BY <2>1, EachOnce
  <2> QED  BY <2>2 DEF PipelineOK, Waiting, OneAtATime
<1> QED  BY <1>1, PipelineAlways, PTL
-------------------------------------------------------------------------------
(* The store *)

Begins(s, t) == Len(s) <= Len(t) /\ \A i \in 1 .. Len(s) : s[i] = t[i]

\* The history of the client once it has its response.
Told(q) ==
  IF q.outcome = "completed" THEN q.turns \o Answer(q) \o ToolOutputs(q) ELSE q.turns

\* While a request is answered the store holds what was sent with it; then it begins the
\* history the client has, and so it does until the next request.
StoreOf(q, s, w) ==
  Stateful(q) /\ ~w[q.profile.conversation] =>
    /\ InProgress(q) => s[q.profile.conversation].messages = SemanticIds(q.turns)
    /\ q.pc = "ended" => Begins(s[q.profile.conversation].messages, SemanticIds(Told(q)))
Free(requests, c) ==
  \A r \in Slots : requests[r].pc = "idle" \/ requests[r].profile.conversation # c
StoresOK ==
  /\ \A r, s \in Slots :
       /\ request[r].pc # "idle" /\ request[s].pc # "idle" /\ Stateful(request[r])
       /\ request[r].profile.conversation = request[s].profile.conversation
       => r = s
  /\ \A r \in Slots : StoreOf(request[r], stored, reworded)
  /\ \A c \in Conversations :
       Free(request, c) /\ ~reworded[c] =>
         Begins(stored[c].messages, SemanticIds(history[c]))

LEMMA BeginsTwice ==
  ASSUME NEW S, NEW s \in Seq(S), NEW t \in Seq(S), NEW u \in Seq(S), Begins(s, t), Begins(t, u)
  PROVE  Begins(s, u)
<1>1. Len(s) \in Nat /\ Len(t) \in Nat /\ Len(u) \in Nat
  OBVIOUS
<1> QED  BY <1>1 DEF Begins

LEMMA ConcatTwice ==
  ASSUME NEW s \in Seq(Message), NEW t \in Seq(Message), NEW u \in Seq(Message)
  PROVE  (s \o t) \o u = s \o (t \o u)
OBVIOUS

\* A longer history begins with the same messages, and one more begins it if it is next.
LEMMA LongerBegins ==
  ASSUME NEW s \in Seq(Message), NEW t \in Seq(Message)
  PROVE  /\ Begins(SemanticIds(s), SemanticIds(s \o t))
         /\ t # <<>> => Begins(Append(SemanticIds(s), SemanticId(t[1])), SemanticIds(s \o t))
<1> DEFINE st == s \o t
           ids == SemanticIds(s)
<1>1. /\ st \in Seq(Message) /\ Len(st) = Len(s) + Len(t) /\ DOMAIN st = 1 .. Len(st)
      /\ DOMAIN s = 1 .. Len(s)
      /\ \A i \in 1 .. Len(s) : st[i] = s[i]
      /\ t # <<>> => Len(t) >= 1 /\ st[Len(s) + 1] = t[1]
  OBVIOUS
<1> HIDE DEF st
<1>2. /\ Len(SemanticIds(st)) = Len(st) /\ Len(ids) = Len(s) /\ ids \in Seq(Message)
      /\ \A i \in 1 .. Len(st) : SemanticIds(st)[i] = SemanticId(st[i])
      /\ \A i \in 1 .. Len(s) : ids[i] = SemanticId(s[i])
  BY <1>1, SemanticIdsType DEF SemanticIds
<1> HIDE DEF ids
<1>3. Len(s) \in Nat /\ Len(t) \in Nat
  OBVIOUS
<1>4. \A i \in 1 .. Len(s) : i \in 1 .. Len(st)
  BY <1>1, <1>3
<1>5. Begins(ids, SemanticIds(st))
  BY <1>1, <1>2, <1>3, <1>4 DEF Begins
<1>6. ASSUME t # <<>> PROVE Begins(Append(ids, SemanticId(t[1])), SemanticIds(st))
  <2> DEFINE m == SemanticId(t[1])
             more == Append(ids, m)
             ist == SemanticIds(st)
  <2>1. /\ Len(more) = Len(s) + 1 /\ more[Len(s) + 1] = m
        /\ \A i \in 1 .. Len(s) : more[i] = ids[i]
    BY <1>2
  <2>2. Len(s) + 1 \in 1 .. Len(st) /\ SemanticIds(st)[Len(s) + 1] = m
    BY <1>1, <1>2, <1>3, <1>6
  <2> HIDE DEF more, m
  <2>3. \A i \in 1 .. Len(s) + 1 : i \in 1 .. Len(s) \/ i = Len(s) + 1
    BY <1>3
  <2>4. \A i \in 1 .. Len(s) : more[i] = SemanticIds(st)[i]
    BY <1>1, <1>2, <1>4, <2>1
  <2>5. more[Len(s) + 1] = ist[Len(s) + 1] /\ \A i \in 1 .. Len(s) : more[i] = ist[i]
    BY <2>1, <2>2, <2>4
  <2>6. Len(more) = Len(s) + 1 /\ Len(more) <= Len(ist)
    BY <1>1, <1>2, <1>3, <1>6, <2>1
  <2> HIDE DEF ist
  <2>7. \A i \in 1 .. Len(more) : more[i] = ist[i]
    BY <2>3, <2>5, <2>6
  <2>8. Begins(more, ist)
    BY <2>6, <2>7 DEF Begins
  <2> QED  BY <2>8 DEF more, m, ist
<1> QED  BY <1>5, <1>6 DEF st, ids

\* What a client sends begins with its history.
LEMMA TurnsBegin ==
  ASSUME TypeOK, NEW p \in Profiles, p.conversation \in Conversations, NEW turns \in TurnsOf(p)
  PROVE  Begins(SemanticIds(history[p.conversation]), SemanticIds(turns))
<1> DEFINE h == history[p.conversation]
<1>1. h \in Seq(Message) /\ turns \in NextTurns(h)
  BY DEF TypeOK, TurnsOf
<1> HIDE DEF h
<1>2. turns = h \/ turns = Append(h, User(<<"question">>)) \/ turns = Append(h, User(<<"/title">>))
  BY <1>1 DEF NextTurns
<1>3. Begins(SemanticIds(h), SemanticIds(h))
  <2>1. Len(SemanticIds(h)) \in Nat
    BY <1>1, SemanticIdsType
  <2> QED  BY <2>1 DEF Begins
<1>4. ASSUME NEW m \in Message PROVE Begins(SemanticIds(h), SemanticIds(Append(h, m)))
  <2>1. Append(h, m) = h \o <<m>> /\ <<m>> \in Seq(Message)
    BY <1>1
  <2> QED  BY <1>1, <2>1, LongerBegins
<1>5. User(<<"question">>) \in Message /\ User(<<"/title">>) \in Message
  <2>1. <<"question">> \in Seq(Piece) /\ <<"/title">> \in Seq(Piece)
    BY DEF Piece
  <2> QED  BY <2>1 DEF User, Message
<1> QED  BY <1>2, <1>3, <1>4, <1>5 DEF h

\* The answer as the client sends it back begins with what was stored of it.
LEMMA AnswerBegins ==
  ASSUME NEW q \in Request, q.outcome = "completed"
  PROVE  /\ Begins(SemanticIds(q.turns), SemanticIds(Told(q)))
         /\ q.calls = 0 =>
              Begins(Append(SemanticIds(q.turns), Assistant(q.text)), SemanticIds(Told(q)))
<1> DEFINE more == Answer(q) \o ToolOutputs(q)
<1>1. q.turns \in Seq(Message) /\ q.calls \in Nat /\ q.text \in Seq(Piece)
  BY DEF Request
<1>2. Answer(q) \in Seq(Message) /\ ToolOutputs(q) \in Seq(Message)
  BY AnswerType
<1>3. more \in Seq(Message) /\ Told(q) = q.turns \o more
  <2>1. Told(q) = (q.turns \o Answer(q)) \o ToolOutputs(q)
    BY DEF Told
  <2>2. (q.turns \o Answer(q)) \o ToolOutputs(q) = q.turns \o (Answer(q) \o ToolOutputs(q))
    BY <1>1, <1>2, ConcatTwice
  <2>3. Answer(q) \o ToolOutputs(q) \in Seq(Message)
    BY <1>2
  <2> QED  BY <2>1, <2>2, <2>3
<1>4. ASSUME q.calls = 0 PROVE more # <<>> /\ more[1] = Assistant(q.text)
  <2> DEFINE calls == [i \in 1 .. q.calls |->
                         IF q.profile.api = "chat"
                         THEN [role |-> "assistant", content |-> <<"call">>, call |-> CallId(q, i)]
                         ELSE Assistant(<<"call">>)]
  <2>1. calls = <<>>
    BY <1>4
  <2>2. Answer(q) = <<Assistant(q.text)>> \o calls
    BY <1>4 DEF Answer
  <2> HIDE DEF calls
  <2>3. Answer(q) = <<Assistant(q.text)>>
    BY <2>1, <2>2
  <2>4. ToolOutputs(q) = <<>>
    BY <1>4 DEF ToolOutputs
  <2>5. more = <<Assistant(q.text)>>
    BY <2>3, <2>4
  <2> HIDE DEF more
  <2>6. Len(more) = 1 /\ more[1] = Assistant(q.text)
    BY <2>5
  <2> QED  BY <2>6
<1>5. SemanticId(Assistant(q.text)) = Assistant(q.text)
  BY DEF SemanticId, Assistant
<1> HIDE DEF more
<1> QED  BY <1>1, <1>3, <1>4, <1>5, LongerBegins

\* What a step of one request leaves of the others.
LEMMA StepAlone ==
  ASSUME TypeOK, NEW r \in Slots, NEW x, Step(r, x)
  PROVE  /\ request'[r] = x /\ x \in Request /\ request[r] \in Request
         /\ \A s \in Slots : s # r => request'[s] = request[s]
<1>1. request[r] \in Request /\ request' = [request EXCEPT ![r] = x]
  BY DEF TypeOK, Step
<1>2. x \in Request
  BY <1>1, MovesType DEF Step
<1> QED  BY <1>1, <1>2 DEF TypeOK

LEMMA ContinueStores ==
  ASSUME TypeOK, StoresOK, NEW r \in Slots, NEW x, Step(r, x), InProgress(request[r]),
         InProgress(x) \/ (x.pc = "ended" /\ x.outcome = "failed"),
         x.profile = request[r].profile, x.turns = request[r].turns,
         UNCHANGED <<stored, history, reworded>>
  PROVE  StoresOK'
<1>1. /\ request'[r] = x /\ x \in Request /\ request[r] \in Request
      /\ \A s \in Slots : s # r => request'[s] = request[s]
  BY StepAlone
<1>2. request[r].pc # "idle" /\ request[r].pc # "ended" /\ x.pc # "idle"
  BY DEF InProgress
<1>3. StoreOf(x, stored, reworded)
  <2>1. StoreOf(request[r], stored, reworded)
    BY DEF StoresOK
  <2>2. Stateful(x) = Stateful(request[r])
    BY DEF Stateful
  <2> DEFINE ids == SemanticIds(x.turns)
  <2>3. Len(ids) \in Nat
    BY <1>1, SemanticIdsType DEF Request
  <2>4. Begins(ids, ids)
    BY <2>3 DEF Begins
  <2>5. x.pc = "ended" => Told(x) = x.turns
    BY DEF Told, InProgress
  <2>6. InProgress(x) => x.pc # "ended"
    BY DEF InProgress
  <2> QED  BY <2>1, <2>2, <2>4, <2>5, <2>6 DEF StoreOf
<1>4. \A s \in Slots : StoreOf(request'[s], stored', reworded')
  BY <1>1, <1>3 DEF StoresOK
<1>5. \A c \in Conversations : Free(request', c) => Free(request, c)
  BY <1>1, <1>2 DEF Free
<1>6. \A c \in Conversations :
        Free(request', c) /\ ~reworded'[c] => Begins(stored'[c].messages, SemanticIds(history'[c]))
  BY <1>5 DEF StoresOK
<1>7. \A s, t \in Slots :
        /\ request'[s].pc # "idle" /\ request'[t].pc # "idle" /\ Stateful(request'[s])
        /\ request'[s].profile.conversation = request'[t].profile.conversation
        => s = t
  <2>1. \A s \in Slots : /\ (request'[s].pc # "idle") = (request[s].pc # "idle")
                         /\ request'[s].profile = request[s].profile
    BY <1>1, <1>2
  <2> QED  BY <2>1 DEF StoresOK, Stateful
<1> QED  BY <1>4, <1>6, <1>7 DEF StoresOK, Stateful

LEMMA ReadStores ==
  ASSUME TypeOK, StoresOK, NEW r \in Slots, ClientReads(r)
  PROVE  StoresOK'
<1> DEFINE q == request[r]
           c == q.profile.conversation
<1>1. /\ request'[r] = IdleRequest /\ q \in Request /\ IdleRequest.pc = "idle"
      /\ \A s \in Slots : s # r => request'[s] = request[s]
  BY ClientMoves, StepAlone, IdleType
<1>2. /\ q.pc = "ended" /\ UNCHANGED <<stored, reworded>>
      /\ history' = IF Stateful(q) THEN [history EXCEPT ![c] = Told(q)] ELSE history
  BY DEF ClientReads, Told
<1>3. \A s \in Slots : StoreOf(request'[s], stored', reworded')
  <2>1. StoreOf(IdleRequest, stored, reworded)
    BY <1>1 DEF StoreOf, InProgress
  <2> QED  BY <1>1, <1>2, <2>1 DEF StoresOK
<1>4. ASSUME NEW d \in Conversations, Free(request', d), ~reworded'[d]
      PROVE  Begins(stored'[d].messages, SemanticIds(history'[d]))
  <2>1. CASE d = c
    <3>1. Stateful(q) /\ StoreOf(q, stored, reworded)
      BY <2>1 DEF Stateful, StoresOK
    <3>2. history'[d] = Told(q)
      BY <1>2, <2>1, <3>1 DEF TypeOK
    <3> QED  BY <1>2, <1>4, <2>1, <3>1, <3>2 DEF StoreOf
  <2>2. CASE d # c
    <3>1. Free(request, d)
      BY <1>1, <1>4, <2>2 DEF Free
    <3>2. history'[d] = history[d]
      BY <1>2, <2>2 DEF TypeOK
    <3> QED  BY <1>2, <1>4, <3>1, <3>2 DEF StoresOK
  <2> QED  BY <2>1, <2>2
<1>5. \A s, t \in Slots :
        /\ request'[s].pc # "idle" /\ request'[t].pc # "idle" /\ Stateful(request'[s])
        /\ request'[s].profile.conversation = request'[t].profile.conversation
        => s = t
  BY <1>1 DEF StoresOK
<1> QED  BY <1>3, <1>4, <1>5 DEF StoresOK, Stateful

\* A conversation's next request appends what the store lacks of the client's history.
LEMMA ReceiveStores ==
  ASSUME TypeOK, StoresOK, NEW r \in Slots, NEW p \in Profiles, NEW turns \in Seq(Message),
         turns \in TurnsOf(p), Receive(r, p, turns)
  PROVE  StoresOK'
<1>0. PICK x : Received(r, p, turns, x)
  BY ReceiveMoves
<1>1. /\ Step(r, x) /\ x.profile = p /\ x.turns = turns
      /\ \/ x.pc = "queued"
         \/ /\ x.pc = "ended" /\ x.outcome = "completed"
            /\ x.calls = 0 /\ x.text = <<"reply">>
  BY <1>0 DEF Received
<1> DEFINE c == p.conversation
           open == Opened(p, turns)
           after == IF Stateful([IdleRequest EXCEPT !.profile = p, !.turns = turns])
                    THEN AppendMessages(c, turns) ELSE stored
<1>2. /\ request'[r] = x /\ x \in Request /\ request[r] \in Request
      /\ \A s \in Slots : s # r => request'[s] = request[s]
  BY <1>1, StepAlone
<1>3. /\ request[r].pc = "idle" /\ UNCHANGED <<history, reworded>>
      /\ c \in Conversations => \A s \in Slots :
           request[s].pc = "idle" \/ request[s].profile.conversation # c
      /\ IF IsCommand(turns) THEN AnswerCommand(r, open, after) ELSE AddToQueue(r, open, after)
  <2>1. Stateful([IdleRequest EXCEPT !.profile = p, !.turns = turns]) = (c \in Conversations)
    BY DEF Stateful, IdleRequest
  <2> QED  BY <2>1 DEF Receive, Opened
<1>4. after = IF c \in Conversations THEN AppendMessages(c, turns) ELSE stored
  <2>1. Stateful([IdleRequest EXCEPT !.profile = p, !.turns = turns]) = (c \in Conversations)
    BY DEF Stateful, IdleRequest
  <2> QED  BY <2>1
<1> HIDE DEF after
<1>5. /\ \A d \in Conversations : stored'[d].messages = after[d].messages
      /\ after \in [Conversations -> [messages : Seq(Message),
                                      title : {"untitled", "generated", "manual"}]]
  <2>1. open.profile = p
    BY OpenedFields
  <2> HIDE DEF open
  <2>2. after \in [Conversations -> [messages : Seq(Message),
                                     title : {"untitled", "generated", "manual"}]]
    BY <1>4, AppendType DEF TypeOK
  <2>3. stored' = after \/ stored' = [after EXCEPT ![c].title = "manual"]
    BY <1>3, <2>1 DEF AnswerCommand, AddToQueue
  <2> HIDE DEF c
  <2>4. ASSUME NEW d \in Conversations PROVE stored'[d].messages = after[d].messages
    <3>1. CASE stored' = after
      BY <3>1
    <3>2. CASE stored' = [after EXCEPT ![c].title = "manual"]
      BY <2>2, <3>2
    <3> QED  BY <2>3, <3>1, <3>2
  <2> QED  BY <2>2, <2>4
<1>6. ASSUME c \in Conversations, ~reworded[c]
      PROVE  stored'[c].messages = SemanticIds(turns)
  <2> DEFINE known == stored[c].messages
             ids == SemanticIds(turns)
             told == SemanticIds(history[c])
  <2>1. known \in Seq(Message) /\ ids \in Seq(Message) /\ told \in Seq(Message)
    BY <1>6, SemanticIdsType DEF TypeOK
  <2>2. Free(request, c)
    BY <1>3, <1>6 DEF Free
  <2>3. Begins(known, told) /\ Begins(told, ids)
    BY <1>6, <2>2, TurnsBegin DEF StoresOK
  <2>4. after[c].messages = known \o findNewMessages(ids, known)
    BY <1>4, <1>6 DEF AppendMessages, TypeOK
  <2>5. stored'[c].messages = known \o findNewMessages(ids, known)
    BY <1>5, <1>6, <2>4
  <2> HIDE DEF known, ids, told
  <2>6. Begins(known, ids)
    BY <2>1, <2>3, BeginsTwice
  <2>7. Len(known) <= Len(ids) /\ \A i \in DOMAIN known : known[i] = ids[i]
    <3>1. DOMAIN known = 1 .. Len(known)
      BY <2>1
    <3> QED  BY <2>6, <3>1 DEF Begins
  <2>8. known \o findNewMessages(ids, known) = ids
    BY <2>1, <2>7, ContinuationAppended
  <2> QED  BY <2>5, <2>8 DEF ids
<1>7. ASSUME NEW d \in Conversations, d # c PROVE stored'[d].messages = stored[d].messages
  BY <1>4, <1>5, <1>7 DEF AppendMessages, TypeOK
<1>8. StoreOf(x, stored', reworded')
  <2>1. ASSUME c \in Conversations, ~reworded[c], x.pc = "ended"
        PROVE  Begins(stored'[c].messages, SemanticIds(Told(x)))
    BY <1>1, <1>2, <1>6, <2>1, AnswerBegins
  <2> QED  BY <1>1, <1>3, <1>6, <2>1 DEF StoreOf, Stateful
<1>9. ASSUME NEW s \in Slots, s # r PROVE StoreOf(request'[s], stored', reworded')
  <2>1. request'[s] = request[s] /\ StoreOf(request[s], stored, reworded)
    BY <1>2, <1>9 DEF StoresOK
  <2>2. CASE request[s].pc = "idle"
    BY <2>1, <2>2 DEF StoreOf, InProgress
  <2>3. CASE request[s].pc # "idle" /\ Stateful(request[s])
    <3> DEFINE d == request[s].profile.conversation
    <3>1. d \in Conversations /\ d # c
      BY <1>3, <2>3 DEF Stateful
    <3>2. stored'[d].messages = stored[d].messages /\ reworded' = reworded
      BY <1>3, <1>7, <3>1
    <3> QED  BY <2>1, <3>2 DEF StoreOf
  <2>4. CASE ~Stateful(request[s])
    BY <2>1, <2>4 DEF StoreOf
  <2> QED  BY <2>2, <2>3, <2>4
<1>10. ASSUME NEW d \in Conversations, Free(request', d), ~reworded'[d]
       PROVE  Begins(stored'[d].messages, SemanticIds(history'[d]))
  <2>1. d # c
    BY <1>1, <1>2, <1>10 DEF Free
  <2>2. Free(request, d)
    BY <1>2, <1>3, <1>10 DEF Free
  <2> QED  BY <1>3, <1>7, <1>10, <2>1, <2>2 DEF StoresOK
<1>11. \A s, t \in Slots :
         /\ request'[s].pc # "idle" /\ request'[t].pc # "idle" /\ Stateful(request'[s])
         /\ request'[s].profile.conversation = request'[t].profile.conversation
         => s = t
  <2>1. ASSUME NEW s \in Slots, s # r, request'[s].pc # "idle",
               c \in Conversations \/ Stateful(request'[s])
        PROVE  request'[s].profile.conversation # c
    BY <1>2, <1>3, <2>1 DEF Stateful
  <2> QED  BY <1>1, <1>2, <2>1 DEF StoresOK, Stateful
<1> QED  BY <1>2, <1>8, <1>9, <1>10, <1>11 DEF StoresOK, Stateful

\* What is stored of an answer is what the client will send back of it, if anything.
LEMMA FinishStores ==
  ASSUME TypeOK, StoresOK, NEW r \in Slots, NEW title \in Titles, Finishes(r, title)
  PROVE  StoresOK'
<1> DEFINE q == request[r]
           c == q.profile.conversation
           titled == [q EXCEPT !.title = title]
<1>1. PICK final \in Request :
        /\ Step(r, Closing(final, final.calls))
        /\ Keeps(titled, final)
        /\ stored' = PersistAssistantTurn(PersistTitle(stored, final), final)
        /\ reworded' = IF Stateful(q) /\ final.calls = 0 /\ final.text # final.content
                       THEN [reworded EXCEPT ![c] = TRUE] ELSE reworded
        /\ UNCHANGED history
  BY FinishMoves DEF Finishes
<1> DEFINE x == Closing(final, final.calls)
<1>2. /\ request'[r] = x /\ x \in Request /\ q \in Request
      /\ \A s \in Slots : s # r => request'[s] = request[s]
  BY <1>1, StepAlone
<1>3. /\ x.pc = "ended" /\ x.outcome = "completed" /\ x.text = final.text /\ x.calls = final.calls
      /\ x.profile = final.profile /\ x.turns = final.turns
  BY ClosingKeeps DEF Keeps
<1>4. final.profile = q.profile /\ final.turns = q.turns /\ InProgress(q)
  <2>1. titled.profile = q.profile /\ titled.turns = q.turns
    BY <1>2 DEF Request
  <2> QED  BY <1>1, <2>1 DEF Keeps, Finishes, InProgress
<1> HIDE DEF x
<1> DEFINE s1 == PersistTitle(stored, final)
<1>5. /\ s1 \in [Conversations -> [messages : Seq(Message),
                                   title : {"untitled", "generated", "manual"}]]
      /\ \A d \in Conversations : s1[d].messages = stored[d].messages
  BY DEF PersistTitle, TypeOK
<1>6. stored' = IF c \notin Conversations \/ final.calls > 0 THEN s1
                ELSE [s1 EXCEPT ![c].messages = Append(@, Assistant(final.content))]
  BY <1>1, <1>4 DEF PersistAssistantTurn, Stateful
<1> HIDE DEF s1
<1>7. ASSUME NEW d \in Conversations, d # c
      PROVE  stored'[d].messages = stored[d].messages /\ reworded'[d] = reworded[d]
  BY <1>1, <1>5, <1>6, <1>7 DEF TypeOK
<1>8. ASSUME c \in Conversations
      PROVE  stored'[c].messages = IF final.calls > 0 THEN stored[c].messages
                                   ELSE Append(stored[c].messages, Assistant(final.content))
  BY <1>5, <1>6, <1>8
<1>9. ASSUME c \in Conversations, ~reworded'[c]
      PROVE  ~reworded[c] /\ (final.calls > 0 \/ final.text = final.content)
  <2>1. final.calls \in Nat
    BY DEF Request
  <2> QED  BY <1>1, <1>9, <2>1 DEF TypeOK, Stateful
<1>10. StoreOf(x, stored', reworded')
  <2> SUFFICES ASSUME c \in Conversations, ~reworded'[c]
               PROVE  Begins(stored'[c].messages, SemanticIds(Told(x)))
    BY <1>3, <1>4 DEF StoreOf, Stateful, InProgress
  <2>1. stored[c].messages = SemanticIds(q.turns)
    BY <1>4, <1>9 DEF StoresOK, StoreOf, Stateful
  <2>2. Begins(SemanticIds(q.turns), SemanticIds(Told(x)))
    BY <1>2, <1>3, <1>4, AnswerBegins
  <2>3. CASE final.calls > 0
    BY <1>8, <2>1, <2>2, <2>3
  <2>4. CASE ~(final.calls > 0)
    <3>1. final.calls = 0 /\ final.text = final.content
      BY <1>9, <2>4 DEF Request
    <3>2. Begins(Append(SemanticIds(q.turns), Assistant(final.text)), SemanticIds(Told(x)))
      BY <1>2, <1>3, <1>4, <3>1, AnswerBegins
    <3> QED  BY <1>8, <2>1, <2>4, <3>1, <3>2
  <2> QED  BY <2>3, <2>4
<1>11. ASSUME NEW s \in Slots, s # r PROVE StoreOf(request'[s], stored', reworded')
  <2>1. request'[s] = request[s] /\ StoreOf(request[s], stored, reworded)
    BY <1>2, <1>11 DEF StoresOK
  <2>2. CASE request[s].pc = "idle"
    BY <2>1, <2>2 DEF StoreOf, InProgress
  <2>3. CASE request[s].pc # "idle" /\ Stateful(request[s])
    <3> DEFINE d == request[s].profile.conversation
    <3>1. d \in Conversations /\ d # c
      BY <1>4, <1>11, <2>3 DEF StoresOK, Stateful, InProgress
    <3>2. stored'[d].messages = stored[d].messages /\ reworded'[d] = reworded[d]
      BY <1>7, <3>1
    <3> QED  BY <2>1, <3>2 DEF StoreOf
  <2>4. CASE ~Stateful(request[s])
    BY <2>1, <2>4 DEF StoreOf
  <2> QED  BY <2>2, <2>3, <2>4
<1>12. ASSUME NEW d \in Conversations, Free(request', d), ~reworded'[d]
       PROVE  Begins(stored'[d].messages, SemanticIds(history'[d]))
  <2>1. d # c
    BY <1>2, <1>3, <1>4, <1>12 DEF Free
  <2>2. Free(request, d)
    BY <1>2, <1>12, <2>1 DEF Free
  <2> QED  BY <1>1, <1>7, <1>12, <2>1, <2>2 DEF StoresOK
<1>13. \A s, t \in Slots :
         /\ request'[s].pc # "idle" /\ request'[t].pc # "idle" /\ Stateful(request'[s])
         /\ request'[s].profile.conversation = request'[t].profile.conversation
         => s = t
  <2>1. \A s \in Slots : /\ request'[s].pc # "idle" => request[s].pc # "idle"
                         /\ request'[s].profile = request[s].profile
    BY <1>2, <1>3, <1>4 DEF InProgress
  <2> QED  BY <2>1 DEF StoresOK, Stateful
<1> QED  BY <1>2, <1>10, <1>11, <1>12, <1>13 DEF StoresOK, Stateful

LEMMA InitStores == Init => StoresOK
<1> SUFFICES ASSUME Init PROVE StoresOK
  OBVIOUS
<1>1. /\ \A r \in Slots : request[r].pc = "idle"
      /\ \A c \in Conversations : stored[c].messages = <<>> /\ history[c] = <<>>
  BY IdleType DEF Init
<1>2. Begins(<<>>, SemanticIds(<<>>))
  <2>1. Len(SemanticIds(<<>>)) = 0
    <3>1. <<>> \in Seq(Message) /\ Len(<<>>) = 0
      OBVIOUS
    <3>2. Len(SemanticIds(<<>>)) = Len(<<>>)
      BY <3>1, SemanticIdsType
    <3> QED  BY <3>1, <3>2
  <2> QED  BY <2>1 DEF Begins
<1> QED  BY <1>1, <1>2 DEF StoresOK, StoreOf, InProgress

LEMMA NextStores == PipelineOK /\ StoresOK /\ [Next]_vars => StoresOK'
<1> SUFFICES ASSUME TypeOK, Waiting, StoresOK, [Next]_vars PROVE StoresOK'
  BY DEF PipelineOK
<1>1. CASE UNCHANGED vars
  BY <1>1 DEF vars, StoresOK, Stateful, Free, StoreOf, InProgress
<1>2. CASE StartJob
  BY <1>2, StartMoves, ContinueStores DEF InProgress
<1>3. ASSUME NEW r \in Slots, Client(r) PROVE StoresOK'
  <2>1. CASE ClientReads(r)
    BY <2>1, ReadStores
  <2>2. CASE ResponsesRequest(r) \/ ChatRequest(r)
    BY <2>2, RequestMoves, ReceiveStores
  <2> QED  BY <1>3, <2>1, <2>2 DEF Client
<1>4. ASSUME NEW r \in Slots, Arrives(r) PROVE StoresOK'
  BY <1>4, ArrivesMoves, ContinueStores DEF InProgress
<1>5. ASSUME NEW r \in Slots, Ends(r) PROVE StoresOK'
  BY <1>5, EndsMoves, ContinueStores, FinishStores DEF GoesOn, InProgress
<1>6. \/ UNCHANGED vars \/ StartJob
      \/ \E r \in Slots : Client(r) \/ Arrives(r) \/ Ends(r)
  BY DEF Next
<1> QED  BY <1>1, <1>2, <1>3, <1>4, <1>5, <1>6

\* StoreIsTheHistory: however requests fail, are repeated, bring tool outputs or leave
\* their answers unstored: while one is answered the store holds what was sent with it
\* (responses/index.ts:140-146, shared.ts:81-111, deduplication.ts:60-96).
THEOREM StoreIsTheHistory == Spec => []StoreIsHistory
<1>1. Spec => []StoresOK
  BY PipelineAlways, InitStores, NextStores, PTL DEF Spec
<1>2. StoresOK => StoreIsHistory
  BY DEF StoresOK, StoreOf, StoreIsHistory
<1> QED  BY <1>1, <1>2, PTL
-------------------------------------------------------------------------------
(* The text and the calls of an answer *)

\* What Lumo has streamed of a completion is what was released of it, a, read as s, with what
\* is still held.  After a bounce the text of the first completion, pre, comes before.
ReadSoFar(q, a, s, pre) ==
  /\ s \in Readings(a, q.bounce)
  /\ q.content = a \o q.held /\ q.text = pre \o Texts(s) /\ q.calls >= CountCalls(a)
  /\ ~q.bounce => pre = <<>> /\ q.calls = CountCalls(a)

\* Or all of the second completion is still held, after some of the first.
AllHeld(q, h) == q.bounce /\ q.held = h \o q.content

WholeAnswer(q) ==
  \/ \E a, s, pre \in Seq(Piece) : ReadSoFar(q, a, s, pre)
  \/ \E h \in Seq(Piece) : AllHeld(q, h)
WholeText(q) ==
  /\ \E pre \in Seq(Piece) : q.text = pre \o q.content /\ (~q.bounce => pre = <<>>)
  /\ ~q.bounce => q.calls = 0
Whole(q) ==
  /\ ~q.profile.tools => q.held = <<>>
  /\ ~Suppressed(q) => IF q.profile.tools THEN WholeAnswer(q) ELSE WholeText(q)
Lossless(q) ==
  /\ q.pc \in {"idle", "queued"} => Unanswered(q)
  /\ q.pc \in {"message", "title"} => Whole(q)
  /\ q.pc = "title" => ~Suppressed(q)
  /\ q.pc # "ended" => q.outcome = "none"
  /\ q.pc = "ended" /\ q.outcome = "completed" /\ ~IsCommand(q.turns) =>
       q.held = <<>> /\ ~Suppressed(q) /\ Whole(q)

LEMMA SplitAt ==
  ASSUME NEW S, NEW s \in Seq(S), NEW n \in 0 .. Len(s)
  PROVE  /\ SubSeq(s, 1, n) \in Seq(S) /\ SubSeq(s, n + 1, Len(s)) \in Seq(S)
         /\ s = SubSeq(s, 1, n) \o SubSeq(s, n + 1, Len(s))
<1> DEFINE u == SubSeq(s, 1, n)
           v == SubSeq(s, n + 1, Len(s))
<1>1. /\ u \in Seq(S) /\ v \in Seq(S) /\ Len(u) = n /\ Len(v) = Len(s) - n
      /\ Len(s) \in Nat
  OBVIOUS
<1>2. \A k \in 1 .. n : s[k] = u[k]
  OBVIOUS
<1>3. \A k \in 1 .. Len(s) - n : s[n + k] = v[k]
  OBVIOUS
<1> HIDE DEF u, v
<1>4. Len(s) = Len(u) + Len(v)
  BY <1>1
<1>5. s = u \o v
  <2>1. \A k \in 1 .. Len(u) : s[k] = u[k]
    BY <1>1, <1>2
  <2>2. \A k \in 1 .. Len(v) : s[Len(u) + k] = v[k]
    BY <1>1, <1>3
  <2> QED  BY <1>1, <1>4, <2>1, <2>2, IsConcat
<1> QED  BY <1>1, <1>5 DEF u, v

LEMMA AppendIsConcat ==
  ASSUME NEW s \in Seq(Piece), NEW piece \in Piece
  PROVE  Append(s, piece) = s \o <<piece>>
OBVIOUS

LEMMA PiecesTwice ==
  ASSUME NEW s \in Seq(Piece), NEW t \in Seq(Piece), NEW u \in Seq(Piece)
  PROVE  (s \o t) \o u = s \o (t \o u)
OBVIOUS

LEMMA NothingMore ==
  ASSUME NEW s \in Seq(Piece)
  PROVE  s \o <<>> = s /\ <<>> \o s = s /\ <<>> \in Seq(Piece)
OBVIOUS

\* Where a concatenation is cut.
LEMMA CutConcat ==
  ASSUME NEW h \in Seq(Piece), NEW c \in Seq(Piece), NEW n \in 0 .. Len(h \o c)
  PROVE  /\ n <= Len(h) => SubSeq(h \o c, n + 1, Len(h \o c)) = SubSeq(h, n + 1, Len(h)) \o c
         /\ n > Len(h) =>
              /\ n - Len(h) \in 0 .. Len(c)
              /\ SubSeq(h \o c, 1, n) = h \o SubSeq(c, 1, n - Len(h))
              /\ SubSeq(h \o c, n + 1, Len(h \o c)) = SubSeq(c, n - Len(h) + 1, Len(c))
<1> DEFINE w == h \o c
<1>1. /\ w \in Seq(Piece) /\ Len(w) = Len(h) + Len(c)
      /\ \A i \in 1 .. Len(h) : w[i] = h[i]
      /\ \A i \in 1 .. Len(c) : w[Len(h) + i] = c[i]
      /\ Len(h) \in Nat /\ Len(c) \in Nat
  OBVIOUS
<1> HIDE DEF w
<1>2. n \in 0 .. Len(w)
  BY DEF w
<1>3. ASSUME n <= Len(h)
      PROVE  SubSeq(w, n + 1, Len(w)) = SubSeq(h, n + 1, Len(h)) \o c
  <2> DEFINE u == SubSeq(h, n + 1, Len(h))
             v == SubSeq(w, n + 1, Len(w))
  <2>1. /\ u \in Seq(Piece) /\ Len(u) = Len(h) - n /\ \A i \in 1 .. Len(h) - n : u[i] = h[n + i]
    BY <1>2, <1>3
  <2>2. /\ v \in Seq(Piece) /\ Len(v) = Len(w) - n /\ \A i \in 1 .. Len(w) - n : v[i] = w[n + i]
    BY <1>1, <1>2
  <2> HIDE DEF u, v
  <2>3. Len(v) = Len(u) + Len(c)
    BY <1>1, <1>2, <2>1, <2>2
  <2>4. \A i \in 1 .. Len(u) : v[i] = u[i]
    BY <1>1, <1>2, <2>1, <2>2
  <2>5. ASSUME NEW i \in 1 .. Len(c) PROVE v[Len(u) + i] = c[i]
    <3>1. Len(u) + i \in 1 .. Len(w) - n /\ n + (Len(u) + i) = Len(h) + i
      BY <1>1, <1>2, <1>3, <2>1
    <3> QED  BY <1>1, <2>2, <3>1
  <2>6. v = u \o c
    BY <2>1, <2>2, <2>3, <2>4, <2>5, IsConcat
  <2> QED  BY <2>6 DEF u, v
<1>4. ASSUME n > Len(h)
      PROVE  /\ n - Len(h) \in 0 .. Len(c)
             /\ SubSeq(w, 1, n) = h \o SubSeq(c, 1, n - Len(h))
             /\ SubSeq(w, n + 1, Len(w)) = SubSeq(c, n - Len(h) + 1, Len(c))
  <2> DEFINE m == n - Len(h)
             u == SubSeq(w, 1, n)
             v == SubSeq(c, 1, m)
  <2>1. m \in 0 .. Len(c) /\ n = Len(h) + m
    BY <1>1, <1>2, <1>4
  <2> HIDE DEF m
  <2>2. u \in Seq(Piece) /\ Len(u) = n /\ \A i \in 1 .. n : u[i] = w[i]
    BY <1>1, <1>2
  <2>3. v \in Seq(Piece) /\ Len(v) = m /\ \A i \in 1 .. m : v[i] = c[i]
    BY <2>1
  <2> HIDE DEF u, v
  <2>4. u = h \o v
    <3>1. Len(u) = Len(h) + Len(v)
      BY <2>1, <2>2, <2>3
    <3>2. \A i \in 1 .. Len(h) : u[i] = h[i]
      BY <1>1, <2>1, <2>2
    <3>3. ASSUME NEW i \in 1 .. Len(v) PROVE u[Len(h) + i] = v[i]
      <4>1. Len(h) + i \in 1 .. n /\ i \in 1 .. Len(c) /\ i \in 1 .. m
        BY <1>1, <2>1, <2>3
      <4> QED  BY <1>1, <2>2, <2>3, <4>1
    <3> QED  BY <2>2, <2>3, <3>1, <3>2, <3>3, IsConcat
  <2>5. SubSeq(w, n + 1, Len(w)) = SubSeq(c, m + 1, Len(c))
    <3> DEFINE x == SubSeq(w, n + 1, Len(w))
               y == SubSeq(c, m + 1, Len(c))
    <3>1. x \in Seq(Piece) /\ Len(x) = Len(w) - n /\ \A i \in 1 .. Len(w) - n : x[i] = w[n + i]
      BY <1>1, <1>2
    <3>2. y \in Seq(Piece) /\ Len(y) = Len(c) - m /\ \A i \in 1 .. Len(c) - m : y[i] = c[m + i]
      BY <2>1
    <3> HIDE DEF x, y
    <3>3. Len(x) = Len(y)
      BY <1>1, <2>1, <3>1, <3>2
    <3>4. ASSUME NEW i \in 1 .. Len(x) PROVE x[i] = y[i]
      <4>1. m + i \in 1 .. Len(c) /\ n + i = Len(h) + (m + i)
        BY <1>1, <2>1, <3>1
      <4> QED  BY <1>1, <3>1, <3>2, <3>3, <4>1
    <3>5. x = y
      BY <3>1, <3>2, <3>3, <3>4
    <3> QED  BY <3>5 DEF x, y
  <2> QED  BY <2>1, <2>4, <2>5 DEF u, v, m
<1> QED  BY <1>3, <1>4 DEF w

LEMMA ReadAsItIs ==
  ASSUME NEW a \in Seq(Piece), NEW opened
  PROVE  a \in Readings(a, opened)
<1>1. {} \in SUBSET BetweenObjects(a, opened)
  OBVIOUS
<1>2. a = [i \in DOMAIN a |-> IF i \in {} THEN "lost" ELSE a[i]]
  OBVIOUS
<1> QED  BY <1>1, <1>2 DEF Readings

\* What may be lost of two parts may be lost of the whole.
LEMMA ReadingsJoin ==
  ASSUME NEW a \in Seq(Piece), NEW b \in Seq(Piece), NEW opened,
         NEW s \in Readings(a, opened), NEW t \in Readings(b, FALSE)
  PROVE  s \o t \in Readings(a \o b, opened)
<1> DEFINE c == a \o b
           m == Len(a)
<1>1. /\ c \in Seq(Piece) /\ Len(c) = m + Len(b) /\ m \in Nat /\ Len(b) \in Nat
      /\ \A i \in 1 .. m : c[i] = a[i]
      /\ \A i \in 1 .. Len(b) : c[m + i] = b[i]
  OBVIOUS
<1>2. PICK left \in SUBSET BetweenObjects(a, opened) :
        s = [i \in DOMAIN a |-> IF i \in left THEN "lost" ELSE a[i]]
  BY DEF Readings
<1>3. PICK right \in SUBSET BetweenObjects(b, FALSE) :
        t = [i \in DOMAIN b |-> IF i \in right THEN "lost" ELSE b[i]]
  BY DEF Readings
<1>4. /\ s \in Seq(Piece) /\ Len(s) = m /\ t \in Seq(Piece) /\ Len(t) = Len(b)
  BY ReadingsType
<1> DEFINE lost == left \cup {i \in m + 1 .. m + Len(b) : i - m \in right}
           r == [i \in DOMAIN c |-> IF i \in lost THEN "lost" ELSE c[i]]
<1> HIDE DEF c, m
<1>5. left \subseteq 1 .. m /\ right \subseteq 1 .. Len(b)
  BY DEF BetweenObjects, m
<1>6. ASSUME NEW i \in left PROVE i \in BetweenObjects(c, opened)
  <2>1. /\ i \in 1 .. m /\ a[i] \notin Objects
        /\ opened \/ \E j \in 1 .. i - 1 : a[j] \in Objects
        /\ \E j \in i + 1 .. m : a[j] \in Objects
    BY <1>6 DEF BetweenObjects, m
  <2>2. i \in DOMAIN c /\ c[i] \notin Objects
    BY <1>1, <2>1
  <2>3. opened \/ \E j \in 1 .. i - 1 : c[j] \in Objects
    BY <1>1, <2>1
  <2>4. \E j \in i + 1 .. Len(c) : c[j] \in Objects
    <3>1. PICK j \in i + 1 .. m : a[j] \in Objects
      BY <2>1
    <3>2. j \in i + 1 .. Len(c) /\ j \in 1 .. m
      BY <1>1, <2>1, <3>1
    <3> QED  BY <1>1, <3>1, <3>2
  <2> QED  BY <2>2, <2>3, <2>4 DEF BetweenObjects
<1>7. ASSUME NEW k \in right PROVE m + k \in BetweenObjects(c, opened)
  <2>1. /\ k \in 1 .. Len(b) /\ b[k] \notin Objects
        /\ \E j \in 1 .. k - 1 : b[j] \in Objects
        /\ \E j \in k + 1 .. Len(b) : b[j] \in Objects
    BY <1>7 DEF BetweenObjects
  <2>2. m + k \in DOMAIN c /\ c[m + k] \notin Objects
    BY <1>1, <2>1
  <2>3. \E j \in 1 .. (m + k) - 1 : c[j] \in Objects
    <3>1. PICK j \in 1 .. k - 1 : b[j] \in Objects
      BY <2>1
    <3>2. m + j \in 1 .. (m + k) - 1 /\ j \in 1 .. Len(b)
      BY <1>1, <2>1, <3>1
    <3> QED  BY <1>1, <3>1, <3>2
  <2>4. \E j \in (m + k) + 1 .. Len(c) : c[j] \in Objects
    <3>1. PICK j \in k + 1 .. Len(b) : b[j] \in Objects
      BY <2>1
    <3>2. m + j \in (m + k) + 1 .. Len(c) /\ j \in 1 .. Len(b)
      BY <1>1, <2>1, <3>1
    <3> QED  BY <1>1, <3>1, <3>2
  <2> QED  BY <2>2, <2>3, <2>4 DEF BetweenObjects
<1>8. lost \in SUBSET BetweenObjects(c, opened)
  <2>1. ASSUME NEW i \in m + 1 .. m + Len(b), i - m \in right PROVE i \in BetweenObjects(c, opened)
    <3>1. m + (i - m) = i
      BY <1>1
    <3> QED  BY <1>7, <2>1, <3>1
  <2> QED  BY <1>6, <2>1
<1>9. \A i \in 1 .. Len(c) : r[i] = IF i \in lost THEN "lost" ELSE c[i]
  BY <1>1
<1>10. r \in Seq(Piece) /\ Len(r) = Len(c)
  <2>1. r \in Readings(c, opened)
    BY <1>8 DEF Readings
  <2> HIDE DEF r
  <2> QED  BY <1>1, <2>1, ReadingsType
<1>11. ASSUME NEW i \in 1 .. m PROVE r[i] = s[i]
  <2>1. i \in lost <=> i \in left
    BY <1>1
  <2>2. s[i] = IF i \in left THEN "lost" ELSE a[i]
    BY <1>2 DEF m
  <2> HIDE DEF lost
  <2> QED  BY <1>1, <1>9, <2>1, <2>2
<1>12. ASSUME NEW i \in 1 .. Len(b) PROVE r[m + i] = t[i]
  <2>1. m + i \in lost <=> i \in right
    <3>1. m + i \notin left /\ m + i \in m + 1 .. m + Len(b) /\ (m + i) - m = i
      BY <1>1, <1>5
    <3> QED  BY <3>1
  <2>2. t[i] = IF i \in right THEN "lost" ELSE b[i]
    BY <1>3
  <2> HIDE DEF lost
  <2>3. m + i \in 1 .. Len(c)
    BY <1>1
  <2> QED  BY <1>1, <1>9, <2>1, <2>2, <2>3
<1> HIDE DEF r, lost
<1>13. r = s \o t
  <2>1. Len(r) = Len(s) + Len(t)
    BY <1>1, <1>4, <1>10
  <2>2. \A k \in 1 .. Len(s) : r[k] = s[k]
    BY <1>4, <1>11
  <2>3. \A k \in 1 .. Len(t) : r[Len(s) + k] = t[k]
    BY <1>4, <1>12
  <2> QED  BY <1>4, <1>10, <2>1, <2>2, <2>3, IsConcat
<1> QED  BY <1>8, <1>13 DEF Readings, r, c

\* A reading of two parts is a reading of the second, whose first object may be in the first.
LEMMA ReadingsRest ==
  ASSUME NEW a \in Seq(Piece), NEW b \in Seq(Piece), NEW t \in Readings(a \o b, FALSE)
  PROVE  \E u \in Seq(Piece), v \in Readings(b, TRUE) : v \in Seq(Piece) /\ t = u \o v
<1> DEFINE c == a \o b
           m == Len(a)
<1>1. /\ c \in Seq(Piece) /\ Len(c) = m + Len(b) /\ m \in Nat /\ Len(b) \in Nat
      /\ \A i \in 1 .. Len(b) : c[m + i] = b[i]
  OBVIOUS
<1>2. PICK lost \in SUBSET BetweenObjects(c, FALSE) :
        t = [i \in DOMAIN c |-> IF i \in lost THEN "lost" ELSE c[i]]
  BY DEF Readings
<1> HIDE DEF c, m
<1>3. t \in Seq(Piece) /\ Len(t) = Len(c)
  BY <1>1, ReadingsType DEF c
<1> DEFINE right == {i \in 1 .. Len(b) : m + i \in lost}
           u == SubSeq(t, 1, m)
           v == [i \in DOMAIN b |-> IF i \in right THEN "lost" ELSE b[i]]
<1>4. ASSUME NEW i \in right PROVE i \in BetweenObjects(b, TRUE)
  <2>1. i \in 1 .. Len(b) /\ m + i \in BetweenObjects(c, FALSE)
    BY <1>2, <1>4
  <2>2. c[m + i] \notin Objects /\ \E j \in (m + i) + 1 .. Len(c) : c[j] \in Objects
    BY <2>1 DEF BetweenObjects
  <2>3. \E j \in i + 1 .. Len(b) : b[j] \in Objects
    <3>1. PICK j \in (m + i) + 1 .. Len(c) : c[j] \in Objects
      BY <2>2
    <3>2. j - m \in i + 1 .. Len(b) /\ j = m + (j - m) /\ j - m \in 1 .. Len(b)
      BY <1>1, <2>1, <3>1
    <3>3. c[m + (j - m)] = b[j - m]
      BY <1>1, <3>2
    <3> QED  BY <3>1, <3>2, <3>3
  <2>4. b[i] \notin Objects
    BY <1>1, <2>1, <2>2
  <2> QED  BY <2>1, <2>3, <2>4 DEF BetweenObjects
<1>5. v \in Readings(b, TRUE)
  <2>1. right \in SUBSET BetweenObjects(b, TRUE)
    <3> HIDE DEF right
    <3> QED  BY <1>4
  <2> HIDE DEF right
  <2> QED  BY <2>1 DEF Readings
<1>6. \A i \in 1 .. Len(b) : v[i] = IF m + i \in lost THEN "lost" ELSE b[i]
  OBVIOUS
<1> HIDE DEF v
<1>7. v \in Seq(Piece) /\ Len(v) = Len(b)
  BY <1>5, ReadingsType
<1>8. u \in Seq(Piece) /\ Len(u) = m /\ \A i \in 1 .. m : t[i] = u[i]
  BY <1>1, <1>3
<1> HIDE DEF u
<1>9. ASSUME NEW i \in 1 .. Len(b) PROVE t[m + i] = v[i]
  <2>1. m + i \in DOMAIN c
    BY <1>1
  <2> QED  BY <1>1, <1>2, <1>6, <2>1
<1>10. t = u \o v
  <2>1. Len(t) = Len(u) + Len(v)
    BY <1>1, <1>3, <1>7, <1>8
  <2>2. \A k \in 1 .. Len(u) : t[k] = u[k]
    BY <1>8
  <2>3. \A k \in 1 .. Len(v) : t[Len(u) + k] = v[k]
    BY <1>7, <1>8, <1>9
  <2> QED  BY <1>3, <1>7, <1>8, <2>1, <2>2, <2>3, IsConcat
<1> QED  BY <1>5, <1>7, <1>8, <1>10

\* A piece that is fed is streamed and held.
LEMMA FedWhole ==
  ASSUME NEW q \in Request, WholeAnswer(q), NEW piece \in Piece, NEW x,
         x.content = Append(q.content, piece), x.held = Append(q.held, piece),
         x.text = q.text, x.calls = q.calls, x.bounce = q.bounce
  PROVE  WholeAnswer(x)
<1>1. /\ q.held \in Seq(Piece) /\ q.content \in Seq(Piece) /\ <<piece>> \in Seq(Piece)
      /\ x.content = q.content \o <<piece>> /\ x.held = q.held \o <<piece>>
  BY AppendIsConcat DEF Request
<1>2. ASSUME NEW a \in Seq(Piece), NEW s \in Seq(Piece), NEW pre \in Seq(Piece),
             ReadSoFar(q, a, s, pre)
      PROVE  ReadSoFar(x, a, s, pre)
  <2> DEFINE one == <<piece>>
             h == q.held
  <2>1. /\ one \in Seq(Piece) /\ h \in Seq(Piece) /\ x.held = h \o one
        /\ x.content = q.content \o one /\ q.content = a \o h
    BY <1>1, <1>2 DEF ReadSoFar
  <2> HIDE DEF one, h
  <2>2. (a \o h) \o one = a \o (h \o one)
    BY <2>1, PiecesTwice
  <2>3. x.content = a \o x.held
    BY <2>1, <2>2, Zenon
  <2> QED  BY <1>2, <2>3 DEF ReadSoFar
<1>3. ASSUME NEW h \in Seq(Piece), AllHeld(q, h) PROVE AllHeld(x, h)
  <2> DEFINE one == <<piece>>
             c == q.content
  <2>1. /\ one \in Seq(Piece) /\ c \in Seq(Piece) /\ x.held = q.held \o one
        /\ x.content = c \o one /\ q.held = h \o c
    BY <1>1, <1>3 DEF AllHeld
  <2> HIDE DEF one, c
  <2>2. (h \o c) \o one = h \o (c \o one)
    BY <2>1, PiecesTwice
  <2>3. x.held = h \o x.content
    BY <2>1, <2>2, Zenon
  <2> QED  BY <1>3, <2>3 DEF AllHeld
<1> QED  BY <1>2, <1>3 DEF WholeAnswer

\* Whatever is released, and however it is read.
LEMMA ReleaseWhole ==
  ASSUME NEW q \in Request, WholeAnswer(q), NEW n \in 0 .. Len(q.held),
         NEW t \in Readings(SubSeq(q.held, 1, n), FALSE)
  PROVE  /\ WholeAnswer(Release(q, n, t)) /\ t \in Seq(Piece)
         /\ Release(q, n, t).held = SubSeq(q.held, n + 1, Len(q.held))
<1> DEFINE x == Release(q, n, t)
           b == SubSeq(q.held, 1, n)
           rest == SubSeq(q.held, n + 1, Len(q.held))
<1>1. /\ q.held \in Seq(Piece) /\ q.content \in Seq(Piece) /\ q.text \in Seq(Piece)
      /\ q.calls \in Nat
  BY DEF Request
<1>2. b \in Seq(Piece) /\ rest \in Seq(Piece) /\ q.held = b \o rest
  BY <1>1, SplitAt
<1>3. /\ x.held = rest /\ x.text = q.text \o Texts(t) /\ x.calls = q.calls + CountCalls(t)
      /\ x.content = q.content /\ x.bounce = q.bounce
  BY DEF Release, Request
<1>4. t \in Seq(Piece) /\ CountCalls(t) = CountCalls(b) /\ CountCalls(b) \in Nat
      /\ t \in Readings(b, FALSE)
  BY <1>2, ReadingsType, CallsType
<1>5. Texts(t) \in Seq(Piece)
  BY <1>4, TextsType
<1> HIDE DEF x, b
<1>6. ASSUME NEW a \in Seq(Piece), NEW s \in Seq(Piece), NEW pre \in Seq(Piece),
             ReadSoFar(q, a, s, pre)
      PROVE  WholeAnswer(x)
  <2> HIDE DEF rest
  <2>1. /\ s \in Readings(a, q.bounce) /\ q.content = a \o q.held /\ q.text = pre \o Texts(s)
        /\ q.calls >= CountCalls(a) /\ (~q.bounce => pre = <<>> /\ q.calls = CountCalls(a))
    BY <1>6 DEF ReadSoFar
  <2>2. s \o t \in Readings(a \o b, x.bounce)
    BY <1>2, <1>3, <1>4, <2>1, ReadingsJoin
  <2>3. x.content = (a \o b) \o x.held
    <3>1. b \o rest = q.held /\ (a \o b) \o rest = a \o (b \o rest)
      BY <1>2, PiecesTwice
    <3> QED  BY <1>3, <2>1, <3>1
  <2>4. x.text = pre \o Texts(s \o t)
    <3>1. Texts(s) \in Seq(Piece) /\ Texts(s \o t) = Texts(s) \o Texts(t)
      BY <1>4, TextsType, TextsConcat
    <3> DEFINE old == Texts(s)
               new == Texts(t)
    <3>2. /\ old \in Seq(Piece) /\ new \in Seq(Piece) /\ q.text = pre \o old
          /\ x.text = q.text \o new /\ Texts(s \o t) = old \o new
      BY <1>3, <1>5, <2>1, <3>1
    <3> HIDE DEF old, new
    <3>3. (pre \o old) \o new = pre \o (old \o new)
      BY <3>2, PiecesTwice
    <3> QED  BY <3>2, <3>3, Zenon
  <2>5. CountCalls(a \o b) = CountCalls(a) + CountCalls(b) /\ CountCalls(a) \in Nat
    BY <1>2, CallsConcat, CallsType
  <2>6. x.calls >= CountCalls(a \o b) /\ (~x.bounce => pre = <<>> /\ x.calls = CountCalls(a \o b))
    BY <1>1, <1>3, <1>4, <2>1, <2>5
  <2>7. a \o b \in Seq(Piece) /\ s \o t \in Seq(Piece)
    BY <1>2, <1>4
  <2> QED  BY <2>2, <2>3, <2>4, <2>6, <2>7 DEF WholeAnswer, ReadSoFar
<1>7. ASSUME NEW h \in Seq(Piece), AllHeld(q, h)
      PROVE  WholeAnswer(x)
  <2>1. q.bounce /\ q.held = h \o q.content
    BY <1>7 DEF AllHeld
  <2>2. CASE n <= Len(h)
    <3>1. n \in 0 .. Len(h \o q.content)
      BY <2>1
    <3>2. rest = SubSeq(h, n + 1, Len(h)) \o q.content
      <4>1. SubSeq(h \o q.content, n + 1, Len(h \o q.content))
              = SubSeq(h, n + 1, Len(h)) \o q.content
        BY <1>1, <2>2, <3>1, CutConcat
      <4> QED  BY <2>1, <4>1
    <3> HIDE DEF rest
    <3>3. x.held = SubSeq(h, n + 1, Len(h)) \o x.content
      BY <1>3, <3>2
    <3>4. SubSeq(h, n + 1, Len(h)) \in Seq(Piece)
      BY <2>2
    <3> QED  BY <1>3, <2>1, <3>3, <3>4 DEF WholeAnswer, AllHeld
  <2>3. CASE n > Len(h)
    <3> DEFINE m == n - Len(h)
               c == SubSeq(q.content, 1, m)
    <3>1. /\ m \in 0 .. Len(q.content) /\ b = h \o c
          /\ rest = SubSeq(q.content, m + 1, Len(q.content))
      <4> DEFINE w == h \o q.content
      <4>1. /\ n \in 0 .. Len(w) /\ b = SubSeq(w, 1, n)
            /\ rest = SubSeq(w, n + 1, Len(w))
        BY <2>1 DEF b
      <4>2. /\ n - Len(h) \in 0 .. Len(q.content)
            /\ SubSeq(w, 1, n) = h \o SubSeq(q.content, 1, n - Len(h))
            /\ SubSeq(w, n + 1, Len(w)) = SubSeq(q.content, n - Len(h) + 1, Len(q.content))
        BY <1>1, <2>3, <4>1, CutConcat
      <4> QED  BY <4>1, <4>2, Zenon
    <3> HIDE DEF m
    <3>2. c \in Seq(Piece) /\ q.content = c \o rest
      BY <1>1, <3>1, SplitAt
    <3> HIDE DEF c, rest
    <3>3. PICK u \in Seq(Piece), v \in Readings(c, TRUE) : v \in Seq(Piece) /\ t = u \o v
      BY <1>4, <3>1, <3>2, ReadingsRest
    <3> DEFINE pre == q.text \o Texts(u)
    <3>4. /\ Texts(u) \in Seq(Piece) /\ Texts(v) \in Seq(Piece) /\ Texts(t) = Texts(u) \o Texts(v)
      BY <3>3, TextsType, TextsConcat
    <3>5. pre \in Seq(Piece) /\ x.text = pre \o Texts(v)
      <4>1. pre \in Seq(Piece)
        BY <1>1, <3>4
      <4> DEFINE first == q.text
                 old == Texts(u)
                 new == Texts(v)
      <4>2. /\ pre = first \o old /\ Texts(v) = new
            /\ x.text = first \o Texts(t) /\ Texts(t) = old \o new
        BY <1>1, <1>3, <3>4
      <4>5. first \in Seq(Piece) /\ old \in Seq(Piece) /\ new \in Seq(Piece)
        BY <1>1, <3>4
      <4> HIDE DEF pre, first, old, new
      <4>3. (first \o old) \o new = first \o (old \o new)
        BY <4>5, PiecesTwice
      <4>4. x.text = pre \o Texts(v)
        BY <4>2, <4>3, Zenon
      <4> QED  BY <4>1, <4>4
    <3>6. CountCalls(b) = CountCalls(h) + CountCalls(c) /\ CountCalls(h) \in Nat
          /\ CountCalls(c) \in Nat
      BY <3>1, <3>2, CallsConcat, CallsType
    <3>7. x.calls >= CountCalls(c)
      BY <1>1, <1>3, <1>4, <3>6
    <3>8. v \in Readings(c, x.bounce)
      <4>1. Readings(c, x.bounce) = Readings(c, TRUE)
        BY <1>3, <2>1 DEF Readings, BetweenObjects
      <4> QED  BY <3>3, <4>1
    <3> HIDE DEF pre
    <3>9. ReadSoFar(x, c, v, pre)
      BY <1>3, <2>1, <3>2, <3>5, <3>7, <3>8 DEF ReadSoFar
    <3> QED  BY <3>2, <3>3, <3>5, <3>9 DEF WholeAnswer
  <2>4. n \in Int /\ Len(h) \in Int
    BY <1>1
  <2> QED  BY <2>2, <2>3, <2>4
<1> QED  BY <1>3, <1>4, <1>6, <1>7 DEF WholeAnswer, x

\* The chunk a streaming request is given, and what becomes of it.
LEMMA FeedWhole ==
  ASSUME NEW q \in Request, Whole(q), NEW x, Feeds(q, x)
  PROVE  Whole(x) /\ x.pc = "message" /\ x.outcome = q.outcome
<1>1. PICK piece \in Piece :
        LET fed == [q EXCEPT !.content = Append(@, piece)]
        IN  x \in IF Suppressed(fed) THEN {fed} ELSE OnChunk(fed, piece)
  BY DEF Feeds
<1> DEFINE fed == [q EXCEPT !.content = Append(@, piece)]
<1>2. /\ fed \in Request /\ fed.content = Append(q.content, piece) /\ fed.pc = "message"
      /\ fed.outcome = q.outcome /\ fed.held = q.held /\ fed.text = q.text
      /\ fed.calls = q.calls /\ fed.bounce = q.bounce /\ fed.profile = q.profile
      /\ fed.firstTool = q.firstTool
  <2>1. fed \in Request
    BY FedType
  <2> QED  BY <2>1 DEF Feeds, Request
<1>3. x \in IF Suppressed(fed) THEN {fed} ELSE OnChunk(fed, piece)
  BY <1>1
<1> HIDE DEF fed
<1>4. Suppressed(fed) = Suppressed(q)
  BY <1>2 DEF Suppressed
<1>5. CASE Suppressed(fed)
  <2>1. x = fed
    BY <1>3, <1>5
  <2>2. ~fed.profile.tools => fed.held = <<>>
    BY <1>2 DEF Whole
  <2> QED  BY <1>2, <1>5, <2>1, <2>2 DEF Whole
<1>6. CASE ~Suppressed(fed)
  <2>1. x \in OnChunk(fed, piece)
    BY <1>3, <1>6
  <2>2. x \in Request /\ Keeps(fed, x) /\ x.pc = "message" /\ x.outcome = q.outcome
    BY <1>2, <2>1, OnChunkType, OnChunkKeeps
  <2>3. /\ x.profile = q.profile /\ x.bounce = q.bounce /\ x.content = Append(q.content, piece)
        /\ x.firstTool = q.firstTool
    BY <1>2, <2>2 DEF Keeps
  <2>4. CASE q.profile.tools
    <3> DEFINE given == [fed EXCEPT !.held = Append(@, piece)]
    <3>1. PICK k \in 0 .. Len(given.held), pieces \in Seq(Piece) :
            /\ x = Release(given, k, pieces)
            /\ pieces \in Readings(SubSeq(given.held, 1, k), FALSE)
      BY <1>2, <2>1, <2>4, ChunkReleases
    <3>2. /\ given \in Request /\ given.held = Append(q.held, piece) /\ given.text = q.text
          /\ given.calls = q.calls /\ given.bounce = q.bounce
          /\ given.content = Append(q.content, piece)
      <4>1. given \in Request
        BY <1>2, FedType
      <4> QED  BY <1>2, <4>1 DEF Request
    <3> HIDE DEF given
    <3>3. WholeAnswer(q)
      BY <1>4, <1>6, <2>4 DEF Whole
    <3>4. WholeAnswer(given)
      BY <3>2, <3>3, FedWhole
    <3>5. WholeAnswer(x)
      BY <3>1, <3>2, <3>4, ReleaseWhole
    <3> QED  BY <2>2, <2>3, <2>4, <3>5 DEF Whole
  <2>5. CASE ~q.profile.tools
    <3>1. x = [fed EXCEPT !.text = Append(@, piece),
                          !.events = Emit(fed, TextDelta(fed.profile, <<piece>>))]
      BY <1>2, <2>1, <2>5 DEF OnChunk
    <3>2. x.text = Append(q.text, piece) /\ x.held = q.held /\ x.calls = q.calls
      BY <1>2, <3>1 DEF Request
    <3>3. q.held = <<>> /\ WholeText(q)
      BY <1>4, <1>6, <2>5 DEF Whole
    <3>4. /\ q.text \in Seq(Piece) /\ q.content \in Seq(Piece) /\ <<piece>> \in Seq(Piece)
          /\ x.text = q.text \o <<piece>> /\ x.content = q.content \o <<piece>>
      <4>1. q.text \in Seq(Piece) /\ q.content \in Seq(Piece)
        BY DEF Request
      <4>2. x.content = Append(q.content, piece) /\ x.text = Append(q.text, piece)
        BY <2>3, <3>2
      <4> QED  BY <4>1, <4>2, AppendIsConcat
    <3>5. PICK pre \in Seq(Piece) : q.text = pre \o q.content /\ (~q.bounce => pre = <<>>)
      BY <3>3 DEF WholeText
    <3>6. x.text = pre \o x.content
      <4> DEFINE one == <<piece>>
                 c == q.content
      <4>1. /\ one \in Seq(Piece) /\ c \in Seq(Piece) /\ x.text = q.text \o one
            /\ x.content = c \o one /\ q.text = pre \o c
        BY <3>4, <3>5
      <4> HIDE DEF one, c
      <4>2. (pre \o c) \o one = pre \o (c \o one)
        BY <4>1, PiecesTwice
      <4> QED  BY <4>1, <4>2, Zenon
    <3>7. WholeText(x)
      BY <2>3, <3>2, <3>3, <3>5, <3>6 DEF WholeText
    <3> QED  BY <2>2, <2>3, <2>5, <3>2, <3>3, <3>7 DEF Whole
  <2> QED  BY <2>4, <2>5
<1> QED  BY <1>5, <1>6

\* Steps that leave the answer alone.
LEMMA WholeKept ==
  ASSUME NEW q, NEW x, Whole(q), x.profile = q.profile, x.bounce = q.bounce,
         x.content = q.content, x.held = q.held, x.text = q.text, x.calls = q.calls,
         ~Suppressed(x) => ~Suppressed(q)
  PROVE  Whole(x)
<1>1. WholeAnswer(q) => WholeAnswer(x)
  BY DEF WholeAnswer, ReadSoFar, AllHeld
<1>2. WholeText(q) => WholeText(x)
  BY DEF WholeText
<1> QED  BY <1>1, <1>2 DEF Whole

\* The second completion begins: what the first has returned comes before.
LEMMA BounceWhole ==
  ASSUME NEW q \in Request, Whole(q)
  PROVE  Whole(Bounced(q)) /\ ~Suppressed(Bounced(q))
<1> DEFINE x == Bounced(q)
<1>1. /\ x.bounce /\ x.content = <<>> /\ x.held = q.held /\ x.text = q.text /\ x.calls = q.calls
      /\ x.profile = q.profile
  BY DEF Bounced, Request
<1> HIDE DEF x
<1>2. q.text \in Seq(Piece) /\ q.held \in Seq(Piece)
  BY DEF Request
<1>3. WholeAnswer(x)
  BY <1>1, <1>2, NothingMore DEF WholeAnswer, AllHeld
<1>4. WholeText(x)
  BY <1>1, <1>2, NothingMore DEF WholeText
<1>5. Whole(x)
  BY <1>1, <1>3, <1>4 DEF Whole
<1> QED  BY <1>1, <1>5 DEF x, Suppressed

\* The end of the stream: what is held is released, and nothing is held any more.
LEMMA FinalWhole ==
  ASSUME NEW q \in Request, Whole(q), ~Suppressed(q)
  PROVE  LET final == Finalize(q)
         IN  /\ final \in Request /\ final.held = <<>> /\ Whole(final) /\ ~Suppressed(final)
             /\ Keeps(q, final)
<1> DEFINE final == Finalize(q)
           n == Len(q.held)
<1>1. q.held \in Seq(Piece) /\ n \in 0 .. n /\ n \in Nat
  BY DEF Request
<1>2. final = Release(q, n, q.held)
  BY DEF Finalize
<1> HIDE DEF final
<1>3. /\ final \in Request /\ Keeps(q, final)
      /\ final.held = SubSeq(q.held, n + 1, n)
      /\ final.text = q.text \o Texts(q.held) /\ final.calls = q.calls + CountCalls(q.held)
  BY <1>1, <1>2, ReleaseType, ReleaseKeeps DEF Release, Request
<1>4. SubSeq(q.held, n + 1, n) = <<>> /\ SubSeq(q.held, 1, n) = q.held
  BY <1>1
<1>5. Suppressed(final) = Suppressed(q) /\ final.bounce = q.bounce
      /\ final.profile = q.profile /\ final.content = q.content
  BY <1>3 DEF Suppressed, Keeps
<1>6. CASE q.profile.tools
  <2>1. WholeAnswer(q)
    BY <1>6 DEF Whole
  <2>2. q.held \in Readings(SubSeq(q.held, 1, n), FALSE)
    BY <1>1, <1>4, ReadAsItIs
  <2>3. WholeAnswer(final)
    BY <1>1, <1>2, <2>1, <2>2, ReleaseWhole
  <2> QED  BY <1>3, <1>4, <1>5, <1>6, <2>3 DEF Whole, final
<1>7. CASE ~q.profile.tools
  <2>1. q.held = <<>> /\ WholeText(q)
    BY <1>7 DEF Whole
  <2>2. final.text = q.text /\ final.calls = q.calls
    <3>1. q.text \in Seq(Piece) /\ q.calls \in Nat
      BY DEF Request
    <3> QED  BY <1>3, <2>1, <3>1, NoTexts, NothingMore
  <2>3. WholeText(final)
    BY <1>5, <2>1, <2>2 DEF WholeText
  <2> QED  BY <1>3, <1>4, <1>5, <1>7, <2>3 DEF Whole, final
<1> QED  BY <1>6, <1>7

LEMMA LosslessMoves ==
  ASSUME NEW q \in Request, Lossless(q), NEW x, Moves(q, x)
  PROVE  Lossless(x)
<1>1. ASSUME Commands(x) PROVE Lossless(x)
  <2>1. PICK p \in Profiles, turns \in Seq(Message) :
          /\ IsCommand(turns)
          /\ x = Closing([Opened(p, turns) EXCEPT
                            !.text = <<"reply">>,
                            !.events = Emit(Opened(p, turns), TextDelta(p, <<"reply">>))], 0)
    BY <1>1 DEF Commands
  <2> DEFINE open == Opened(p, turns)
             reply == [open EXCEPT !.text = <<"reply">>,
                                   !.events = Emit(open, TextDelta(p, <<"reply">>))]
  <2>2. open \in Request /\ open.turns = turns
    BY OpenedType, OpenedFields
  <2>3. x = Closing(reply, 0)
    BY <2>1
  <2> HIDE DEF open
  <2>4. Emit(open, TextDelta(p, <<"reply">>)) \in Seq(Event) /\ <<"reply">> \in Seq(Piece)
    BY <2>2, EventTypes, EmitType DEF Piece
  <2>5. reply \in Request /\ reply.turns = turns
    BY <2>2, <2>4 DEF Request
  <2> HIDE DEF reply
  <2>6. x.pc = "ended" /\ x.turns = turns
    BY <2>3, <2>5, ClosingKeeps DEF Keeps
  <2> QED  BY <2>1, <2>6 DEF Lossless
<1>2. ASSUME Queues(x) PROVE Lossless(x)
  <2>1. PICK p \in Profiles, turns \in Seq(Message), title \in Titles :
          x = [Opened(p, turns) EXCEPT !.pc = "queued", !.title = title]
    BY <1>2 DEF Queues
  <2> DEFINE open == Opened(p, turns)
  <2>2. open \in Request /\ Unanswered(open)
    BY OpenedType, OpenedFields
  <2>3. x = [open EXCEPT !.pc = "queued", !.title = title]
    BY <2>1
  <2> HIDE DEF open
  <2>4. x.pc = "queued" /\ Unanswered(x)
    BY <2>2, <2>3 DEF Request, Unanswered
  <2> QED  BY <2>4 DEF Lossless, Unanswered
<1>3. ASSUME Starts(q, x) PROVE Lossless(x)
  <2>1. PICK title \in Titles : x = [q EXCEPT !.pc = "message", !.title = title]
    BY <1>3 DEF Starts
  <2>2. /\ q.content = <<>> /\ q.held = <<>> /\ q.text = <<>> /\ q.calls = 0 /\ ~q.bounce
        /\ q.outcome = "none"
    BY <1>3 DEF Starts, Lossless, Unanswered
  <2>3. /\ x.content = <<>> /\ x.held = <<>> /\ x.text = <<>> /\ x.calls = 0 /\ ~x.bounce
        /\ x.outcome = "none" /\ x.pc = "message"
    BY <2>1, <2>2 DEF Request
  <2>4. <<>> \in Seq(Piece) /\ <<>> \o <<>> = <<>>
    OBVIOUS
  <2>5. WholeText(x)
    BY <2>3, <2>4 DEF WholeText
  <2>6. Whole(x)
    <3>1. <<>> \in Readings(<<>>, x.bounce)
      BY <2>4, ReadAsItIs
    <3>2. ReadSoFar(x, <<>>, <<>>, <<>>)
      BY <2>3, <2>4, <3>1, NoTexts DEF ReadSoFar
    <3>3. WholeAnswer(x)
      BY <2>4, <3>2 DEF WholeAnswer
    <3> QED  BY <2>3, <2>5, <3>3 DEF Whole
  <2> QED  BY <2>3, <2>6 DEF Lossless
<1>4. ASSUME Feeds(q, x) PROVE Lossless(x)
  BY <1>4, FeedWhole DEF Lossless, Feeds
<1>5. ASSUME Thinks(q, x) PROVE Lossless(x)
  <2>1. q.pc = "message" /\ Whole(q) /\ q.outcome = "none"
    BY <1>5 DEF Thinks, Lossless
  <2>2. /\ x.profile = q.profile /\ x.bounce = q.bounce /\ x.content = q.content
        /\ x.held = q.held /\ x.text = q.text /\ x.calls = q.calls /\ x.pc = "message"
        /\ x.firstTool = q.firstTool /\ x.outcome = "none"
    BY <1>5, <2>1 DEF Thinks, Request
  <2>3. Whole(x)
    BY <2>1, <2>2, WholeKept DEF Suppressed
  <2> QED  BY <2>2, <2>3 DEF Lossless
<1>6. ASSUME CallsTool(q, x) PROVE Lossless(x)
  <2>1. q.pc = "message" /\ Whole(q) /\ q.outcome = "none" /\ q.firstTool = "none"
    BY <1>6 DEF CallsTool, Lossless
  <2>2. PICK kind \in {"native", "misrouted"} : x = [q EXCEPT !.firstTool = kind]
    BY <1>6 DEF CallsTool
  <2>3. /\ x.profile = q.profile /\ x.bounce = q.bounce /\ x.content = q.content
        /\ x.held = q.held /\ x.text = q.text /\ x.calls = q.calls /\ x.pc = "message"
        /\ x.outcome = "none"
    BY <2>1, <2>2 DEF Request
  <2>4. ~Suppressed(q)
    BY <2>1 DEF Suppressed
  <2>5. Whole(x)
    BY <2>1, <2>3, <2>4, WholeKept
  <2> QED  BY <2>3, <2>5 DEF Lossless
<1>7. ASSUME Bounces(q, x) PROVE Lossless(x)
  <2>1. q.pc = "message" /\ Whole(q) /\ q.outcome = "none" /\ x = Bounced(q)
    BY <1>7 DEF Bounces, Lossless
  <2>2. x.pc = "message" /\ x.outcome = "none"
    BY <2>1 DEF Bounced, Request
  <2>3. Whole(x)
    BY <2>1, BounceWhole
  <2> QED  BY <2>2, <2>3 DEF Lossless
<1>8. ASSUME AwaitsTitle(q, x) \/ GetsTitle(q, x) PROVE Lossless(x)
  <2>1. /\ q.pc \in {"message", "title"} /\ Whole(q) /\ q.outcome = "none"
        /\ q.pc = "title" => ~Suppressed(q)
    BY <1>8 DEF AwaitsTitle, GetsTitle, Lossless
  <2>2. /\ x.profile = q.profile /\ x.bounce = q.bounce /\ x.content = q.content
        /\ x.held = q.held /\ x.text = q.text /\ x.calls = q.calls
        /\ x.firstTool = q.firstTool /\ x.outcome = "none"
        /\ x.pc \in {"message", "title"} /\ (x.pc = "title" => ~Suppressed(q))
    <3>1. CASE AwaitsTitle(q, x)
      BY <2>1, <3>1 DEF AwaitsTitle, Request
    <3>2. CASE GetsTitle(q, x)
      <4>1. PICK title \in Titles : x = [q EXCEPT !.title = title]
        BY <3>2 DEF GetsTitle
      <4> QED  BY <2>1, <4>1 DEF Request
    <3> QED  BY <1>8, <3>1, <3>2
  <2>3. Suppressed(x) = Suppressed(q)
    BY <2>2 DEF Suppressed
  <2>4. Whole(x)
    BY <2>1, <2>2, <2>3, WholeKept
  <2> QED  BY <2>2, <2>3, <2>4 DEF Lossless
<1>9. ASSUME Completes(q, x) PROVE Lossless(x)
  <2>1. PICK title \in Titles :
          LET final == Finalize([q EXCEPT !.title = title]) IN x = Closing(final, final.calls)
    BY <1>9 DEF Completes
  <2> DEFINE titled == [q EXCEPT !.title = title]
             final == Finalize(titled)
  <2>2. Whole(q) /\ ~Suppressed(q)
    BY <1>9 DEF Completes, Lossless
  <2>3. /\ titled \in Request /\ titled.profile = q.profile /\ titled.bounce = q.bounce
        /\ titled.content = q.content /\ titled.held = q.held /\ titled.text = q.text
        /\ titled.calls = q.calls /\ titled.firstTool = q.firstTool
    BY DEF Request, Titles
  <2>4. x = Closing(final, final.calls)
    BY <2>1
  <2> HIDE DEF titled
  <2>5. Whole(titled) /\ ~Suppressed(titled)
    <3>1. Suppressed(titled) = Suppressed(q)
      BY <2>3 DEF Suppressed
    <3> QED  BY <2>2, <2>3, <3>1, WholeKept
  <2>6. final \in Request /\ final.held = <<>> /\ Whole(final) /\ ~Suppressed(final)
    BY <2>3, <2>5, FinalWhole
  <2> HIDE DEF final
  <2>7. /\ Keeps(final, x) /\ x.pc = "ended" /\ x.held = final.held /\ x.text = final.text
        /\ x.calls = final.calls
    BY <2>4, <2>6, ClosingKeeps
  <2>8. Suppressed(x) = Suppressed(final)
    BY <2>7 DEF Keeps, Suppressed
  <2>9. Whole(x)
    BY <2>6, <2>7, <2>8, WholeKept DEF Keeps
  <2> QED  BY <2>6, <2>7, <2>8, <2>9 DEF Lossless
<1>10. ASSUME Breaks(q, x) PROVE Lossless(x)
  BY <1>10, FailingKeeps DEF Breaks, Lossless
<1>11. ASSUME Clears(q, x) PROVE Lossless(x)
  BY <1>11 DEF Clears, IdleRequest, Lossless, Unanswered
<1> QED  BY <1>1, <1>2, <1>3, <1>4, <1>5, <1>6, <1>7, <1>8, <1>9, <1>10, <1>11 DEF Moves

LEMMA NextLossless ==
  PipelineOK /\ (\A r \in Slots : Lossless(request[r])) /\ [Next]_vars
    => \A r \in Slots : Lossless(request'[r])
<1> SUFFICES ASSUME TypeOK, Waiting, \A r \in Slots : Lossless(request[r]), [Next]_vars,
                    NEW s \in Slots
             PROVE  Lossless(request'[s])
  BY DEF PipelineOK
<1>1. CASE UNCHANGED <<request, queue, running>>
  BY <1>1
<1>2. ASSUME NEW r \in Slots, NEW x, Step(r, x) PROVE Lossless(request'[s])
  <2>1. /\ request'[r] = x /\ x \in Request /\ request[r] \in Request
        /\ s # r => request'[s] = request[s]
    BY <1>2, StepAlone
  <2>2. Lossless(x)
    BY <1>2, <2>1, LosslessMoves DEF Step
  <2> QED  BY <2>1, <2>2
<1> QED  BY <1>1, <1>2, NextMoves

LEMMA SuffixOfConcat ==
  ASSUME NEW u \in Seq(Piece), NEW v \in Seq(Piece)
  PROVE  IsSuffix(v, u \o v)
<1> DEFINE w == u \o v
           r == [i \in 1 .. Len(w) |-> w[(Len(w) - i) + 1]]
           p == [i \in 1 .. Len(v) |-> v[(Len(v) - i) + 1]]
<1>1. /\ w \in Seq(Piece) /\ Len(w) = Len(u) + Len(v) /\ Len(u) \in Nat /\ Len(v) \in Nat
      /\ \A i \in 1 .. Len(v) : w[Len(u) + i] = v[i]
  OBVIOUS
<1> HIDE DEF w
<1>2. /\ p \in Seq(Piece) /\ Len(p) = Len(v) /\ \A i \in 1 .. Len(v) : p[i] = v[(Len(v) - i) + 1]
  OBVIOUS
<1>3. /\ r \in Seq(Piece) /\ Len(r) = Len(w) /\ \A i \in 1 .. Len(w) : r[i] = w[(Len(w) - i) + 1]
  BY <1>1
<1>4. p = Reverse(v) /\ r = Reverse(w)
  BY DEF Reverse
<1> HIDE DEF p, r
<1>5. ASSUME NEW i \in 1 .. Len(p) PROVE p[i] = r[i]
  <2>1. (Len(v) - i) + 1 \in 1 .. Len(v) /\ (Len(w) - i) + 1 = Len(u) + ((Len(v) - i) + 1)
        /\ i \in 1 .. Len(w)
    BY <1>1, <1>2
  <2> QED  BY <1>1, <1>2, <1>3, <2>1
<1>6. Len(p) <= Len(r)
  BY <1>1, <1>2, <1>3
<1>7. SubSeq(p, 1, Len(p)) = SubSeq(r, 1, Len(p))
  BY <1>2, <1>3, <1>5, <1>6
<1> QED  BY <1>4, <1>6, <1>7 DEF IsSuffix, IsPrefix, w

\* AnswersAreWhole: a completed answer has all the calls Lumo streamed, and all the text, in
\* order, but for some that stood between two JSON objects, wherever the chunks are cut and
\* whatever the detector held back of them
\* (streaming-processor.ts:60-75, json-brace-tracker.ts:53-95, request-handlers.ts:268).
THEOREM AnswersAreWhole == Spec => []LostBetweenObjects
<1> DEFINE Inv == \A r \in Slots : Lossless(request[r])
<1>1. Init => Inv
  <2> SUFFICES ASSUME Init, NEW r \in Slots PROVE Lossless(request[r])
    OBVIOUS
  <2>1. request[r] = IdleRequest
    BY DEF Init
  <2> QED  BY <2>1 DEF Lossless, IdleRequest, Unanswered
<1>2. PipelineOK /\ Inv /\ [Next]_vars => Inv'
  BY NextLossless
<1>3. PipelineOK /\ Inv => LostBetweenObjects
  <2> SUFFICES ASSUME TypeOK, Inv, NEW r \in Slots, request[r].outcome = "completed",
                      ~IsCommand(request[r].turns)
               PROVE  LET q == request[r]
                          readings == IF q.profile.tools
                                      THEN {Texts(pieces) : pieces \in Readings(q.content, q.bounce)}
                                      ELSE {q.content}
                          calls == IF q.profile.tools THEN CountCalls(q.content) ELSE 0
                      IN  /\ q.held = <<>>
                          /\ \E texts \in readings :
                               IsSuffix(texts, q.text) /\ (~q.bounce => texts = q.text)
                          /\ q.calls >= calls
                          /\ ~q.bounce => q.calls = calls
    BY DEF PipelineOK, LostBetweenObjects
  <2> DEFINE q == request[r]
  <2>1. q \in Request /\ Lossless(q)
    BY DEF TypeOK
  <2>2. q.held = <<>> /\ ~Suppressed(q) /\ Whole(q)
    BY <2>1 DEF Lossless
  <2> HIDE DEF q
  <2>3. q.text \in Seq(Piece) /\ q.calls \in Nat /\ q.content \in Seq(Piece)
    BY <2>1 DEF Request
  <2>4. CASE ~q.profile.tools
    <3>1. PICK pre \in Seq(Piece) : q.text = pre \o q.content /\ (~q.bounce => pre = <<>>)
      BY <2>2, <2>4 DEF Whole, WholeText
    <3>2. IsSuffix(q.content, q.text) /\ (~q.bounce => q.content = q.text)
      BY <2>3, <3>1, SuffixOfConcat, NothingMore
    <3>3. q.calls >= 0 /\ (~q.bounce => q.calls = 0)
      BY <2>2, <2>3, <2>4 DEF Whole, WholeText
    <3> QED  BY <2>2, <2>4, <3>2, <3>3 DEF q
  <2>5. ASSUME q.profile.tools, NEW a \in Seq(Piece), NEW s \in Seq(Piece),
               NEW pre \in Seq(Piece), ReadSoFar(q, a, s, pre)
        PROVE  /\ \E texts \in {Texts(pieces) : pieces \in Readings(q.content, q.bounce)} :
                    IsSuffix(texts, q.text) /\ (~q.bounce => texts = q.text)
               /\ q.calls >= CountCalls(q.content)
               /\ ~q.bounce => q.calls = CountCalls(q.content)
    <3>1. q.content = a
      BY <2>2, <2>5, NothingMore DEF ReadSoFar
    <3>2. /\ s \in Readings(q.content, q.bounce) /\ q.text = pre \o Texts(s)
          /\ q.calls >= CountCalls(q.content)
          /\ ~q.bounce => pre = <<>> /\ q.calls = CountCalls(q.content)
      BY <2>5, <3>1 DEF ReadSoFar
    <3>3. Texts(s) \in Seq(Piece)
      BY TextsType
    <3>4. IsSuffix(Texts(s), q.text) /\ (~q.bounce => Texts(s) = q.text)
      BY <3>2, <3>3, SuffixOfConcat, NothingMore
    <3> QED  BY <3>2, <3>4
  <2>6. ASSUME q.profile.tools, NEW h \in Seq(Piece), AllHeld(q, h)
        PROVE  /\ \E texts \in {Texts(pieces) : pieces \in Readings(q.content, q.bounce)} :
                    IsSuffix(texts, q.text) /\ (~q.bounce => texts = q.text)
               /\ q.calls >= CountCalls(q.content)
               /\ ~q.bounce => q.calls = CountCalls(q.content)
    <3>1. q.bounce /\ h \o q.content = <<>>
      BY <2>2, <2>6 DEF AllHeld
    <3>2. q.content = <<>>
      BY <2>3, <3>1
    <3>3. <<>> \in Readings(q.content, q.bounce) /\ <<>> \in Seq(Piece)
      BY <3>2, NothingMore, ReadAsItIs
    <3>4. IsSuffix(<<>>, q.text)
      BY <2>3, <3>3, SuffixOfConcat, NothingMore
    <3>5. Texts(<<>>) = <<>> /\ CountCalls(q.content) = 0
      BY <3>2, NoTexts
    <3>6. \E texts \in {Texts(pieces) : pieces \in Readings(q.content, q.bounce)} :
            IsSuffix(texts, q.text) /\ (~q.bounce => texts = q.text)
      BY <3>1, <3>3, <3>4, <3>5
    <3>7. q.calls >= CountCalls(q.content)
      BY <2>3, <3>5
    <3>8. ~q.bounce => q.calls = CountCalls(q.content)
      BY <3>1
    <3> QED  BY <3>6, <3>7, <3>8, Zenon
  <2>7. CASE q.profile.tools
    <3>1. WholeAnswer(q)
      BY <2>2, <2>7 DEF Whole
    <3> QED  BY <2>2, <2>5, <2>6, <2>7, <3>1 DEF WholeAnswer, q
  <2> QED  BY <2>4, <2>7 DEF q
<1> HIDE DEF Inv
<1>4. Spec => []Inv
  BY <1>1, <1>2, PipelineAlways, PTL DEF Spec
<1> QED  BY <1>3, <1>4, PipelineAlways, PTL
-------------------------------------------------------------------------------
(* The events of a response *)

Running(e) == \A i \in DOMAIN e : ~Terminal(e[i])

\* The item that has each index: reasoning if it is announced, the message, the calls.
ItemAt(m, k) == IF k = m THEN "message" ELSE IF k < m THEN "reasoning" ELSE "call"

\* While a response streams: the message at index m and the items before it are open, the
\* n calls after it are announced and closed.
Listed(e, m, n) ==
  \A i \in DOMAIN e : e[i].type \in {"added", "delta", "done"} =>
    e[i].index \in 0 .. m + n /\ e[i].item = ItemAt(m, e[i].index)
AddedOnce(e) ==
  \A i, j \in DOMAIN e :
    e[i].type = "added" /\ e[j].type = "added" /\ e[i].index = e[j].index => i = j
AllAdded(e, first, last) ==
  \A k \in first .. last : \E i \in DOMAIN e : e[i].type = "added" /\ e[i].index = k
AddedBefore(e, i) == \E j \in 1 .. i - 1 : e[j].type = "added" /\ e[j].index = e[i].index
DoneOnce(e) ==
  \A i, j \in DOMAIN e :
    e[i].type = "done" /\ e[j].type = "done" /\ e[i].index = e[j].index => i = j
DoneAfter(e, m) ==
  \A i \in DOMAIN e : e[i].type = "done" => e[i].index > m /\ AddedBefore(e, i)
DeltaAfter(e, m) ==
  \A i \in DOMAIN e : e[i].type = "delta" => e[i].index <= m /\ AddedBefore(e, i)
CallsDone(e, m) ==
  \A i \in DOMAIN e : e[i].type = "added" /\ e[i].index > m =>
    \E k \in i .. Len(e) : e[k].type = "done" /\ e[k].index = e[i].index
Open(e, m, n) ==
  /\ Running(e) /\ Listed(e, m, n) /\ AddedOnce(e) /\ AllAdded(e, 0, m + n)
  /\ DoneOnce(e) /\ DoneAfter(e, m) /\ DeltaAfter(e, m) /\ CallsDone(e, m)

\* What may follow: deltas of open items, and whole calls with the next indexes.
Follows(c, m, n, new) ==
  /\ Running(c) /\ Listed(c, m, n + new) /\ AddedOnce(c)
  /\ \A i \in DOMAIN c : c[i].type = "added" => c[i].index > m + n
  /\ AllAdded(c, m + n + 1, m + n + new)
  /\ DoneOnce(c) /\ DoneAfter(c, m + n)
  /\ \A i \in DOMAIN c : c[i].type = "delta" => c[i].index <= m
  /\ CallsDone(c, m + n)

LEMMA EventParts ==
  ASSUME NEW e \in Seq(Event), NEW c \in Seq(Event)
  PROVE  /\ e \o c \in Seq(Event) /\ Len(e \o c) = Len(e) + Len(c)
         /\ DOMAIN (e \o c) = 1 .. Len(e) + Len(c)
         /\ DOMAIN e = 1 .. Len(e) /\ DOMAIN c = 1 .. Len(c)
         /\ Len(e) \in Nat /\ Len(c) \in Nat
         /\ \A i \in 1 .. Len(e) : (e \o c)[i] = e[i]
         /\ \A i \in 1 .. Len(c) : (e \o c)[Len(e) + i] = c[i]
         /\ \A i \in 1 .. Len(e) + Len(c) :
              i \in 1 .. Len(e) \/ (i - Len(e) \in 1 .. Len(c) /\ (e \o c)[i] = c[i - Len(e)])
OBVIOUS

LEMMA RunningOn ==
  ASSUME NEW e \in Seq(Event), NEW c \in Seq(Event), Running(e), Running(c)
  PROVE  Running(e \o c)
<1> DEFINE s == e \o c
<1>1. \A i \in DOMAIN s : (i \in DOMAIN e /\ s[i] = e[i])
                          \/ (i - Len(e) \in DOMAIN c /\ s[i] = c[i - Len(e)])
  BY EventParts
<1> HIDE DEF s
<1>2. Running(s)
  BY <1>1 DEF Running
<1> QED  BY <1>2 DEF s

LEMMA OpenOn ==
  ASSUME NEW e \in Seq(Event), NEW c \in Seq(Event), NEW m \in Nat, NEW n \in Nat, NEW new \in Nat,
         Open(e, m, n), Follows(c, m, n, new)
  PROVE  Open(e \o c, m, n + new)
<1> DEFINE s == e \o c
           l == Len(e)
<1>1. /\ s \in Seq(Event) /\ Len(s) = l + Len(c) /\ DOMAIN s = 1 .. l + Len(c)
      /\ DOMAIN e = 1 .. l /\ DOMAIN c = 1 .. Len(c)
      /\ l \in Nat /\ Len(c) \in Nat
      /\ \A i \in 1 .. l : s[i] = e[i]
      /\ \A i \in 1 .. Len(c) : s[l + i] = c[i]
  BY EventParts
<1>2. \A i \in DOMAIN s : i \in DOMAIN e \/ (i - l \in DOMAIN c /\ s[i] = c[i - l])
  BY EventParts
<1> HIDE DEF s, l
<1>3. \A i \in DOMAIN e : i \in DOMAIN s /\ s[i] = e[i] /\ i \in Nat /\ i <= l
  BY <1>1
<1>4. \A i \in DOMAIN c : l + i \in DOMAIN s /\ s[l + i] = c[i] /\ i \in Nat /\ i >= 1
  BY <1>1
<1>5. /\ \A i \in DOMAIN s : s[i] \in Event
      /\ \A i \in DOMAIN e : e[i] \in Event
      /\ \A i \in DOMAIN c : c[i] \in Event
  BY <1>1
<1>6. \A x \in Event : x.index \in Nat
  BY DEF Event
<1>7. Running(s)
  BY RunningOn DEF s, Open, Follows
<1>8. Listed(s, m, n + new)
  <2>1. \A k \in 0 .. m + n : k \in 0 .. m + (n + new)
    OBVIOUS
  <2> QED  BY <1>2, <1>3, <2>1 DEF Listed, Open, Follows
<1>9. AddedOnce(s)
  <2>1. ASSUME NEW i \in DOMAIN s, NEW j \in DOMAIN s, s[i].type = "added", s[j].type = "added",
               s[i].index = s[j].index
        PROVE  i = j
    <3>1. ASSUME NEW a \in DOMAIN e, NEW b \in DOMAIN c, e[a].type = "added", c[b].type = "added"
          PROVE  e[a].index # c[b].index
      <4>1. e[a].index \in 0 .. m + n /\ c[b].index > m + n
        BY <3>1 DEF Open, Listed, Follows
      <4> QED  BY <4>1
    <3>2. CASE i \in DOMAIN e /\ j \in DOMAIN e
      BY <1>3, <2>1, <3>2 DEF Open, AddedOnce
    <3>3. CASE i \in DOMAIN e /\ j \notin DOMAIN e
      BY <1>2, <1>3, <2>1, <3>1, <3>3
    <3>4. CASE i \notin DOMAIN e /\ j \in DOMAIN e
      BY <1>2, <1>3, <2>1, <3>1, <3>4
    <3>5. CASE i \notin DOMAIN e /\ j \notin DOMAIN e
      <4>1. i - l \in DOMAIN c /\ j - l \in DOMAIN c /\ s[i] = c[i - l] /\ s[j] = c[j - l]
        BY <1>2, <3>5
      <4>2. i - l = j - l
        BY <2>1, <4>1 DEF Follows, AddedOnce
      <4> QED  BY <1>1, <4>2
    <3> QED  BY <3>2, <3>3, <3>4, <3>5
  <2> QED  BY <2>1 DEF AddedOnce
<1>10. AllAdded(s, 0, m + (n + new))
  <2>1. \A k \in 0 .. m + n : \E i \in DOMAIN s : s[i].type = "added" /\ s[i].index = k
    BY <1>3 DEF Open, AllAdded
  <2>2. \A k \in m + n + 1 .. m + n + new :
          \E i \in DOMAIN s : s[i].type = "added" /\ s[i].index = k
    BY <1>4 DEF Follows, AllAdded
  <2>3. \A k \in 0 .. m + (n + new) : k \in 0 .. m + n \/ k \in m + n + 1 .. m + n + new
    OBVIOUS
  <2> QED  BY <2>1, <2>2, <2>3 DEF AllAdded
<1>11. DoneOnce(s)
  <2>1. ASSUME NEW i \in DOMAIN s, NEW j \in DOMAIN s, s[i].type = "done", s[j].type = "done",
               s[i].index = s[j].index
        PROVE  i = j
    <3>1. ASSUME NEW a \in DOMAIN e, NEW b \in DOMAIN c, e[a].type = "done", c[b].type = "done"
          PROVE  e[a].index # c[b].index
      <4>1. e[a].index \in 0 .. m + n /\ c[b].index > m + n
        BY <3>1 DEF Open, Listed, Follows, DoneAfter
      <4> QED  BY <4>1
    <3>2. CASE i \in DOMAIN e /\ j \in DOMAIN e
      BY <1>3, <2>1, <3>2 DEF Open, DoneOnce
    <3>3. CASE i \in DOMAIN e /\ j \notin DOMAIN e
      BY <1>2, <1>3, <2>1, <3>1, <3>3
    <3>4. CASE i \notin DOMAIN e /\ j \in DOMAIN e
      BY <1>2, <1>3, <2>1, <3>1, <3>4
    <3>5. CASE i \notin DOMAIN e /\ j \notin DOMAIN e
      <4>1. i - l \in DOMAIN c /\ j - l \in DOMAIN c /\ s[i] = c[i - l] /\ s[j] = c[j - l]
        BY <1>2, <3>5
      <4>2. i - l = j - l
        BY <2>1, <4>1 DEF Follows, DoneOnce
      <4> QED  BY <1>1, <4>2
    <3> QED  BY <3>2, <3>3, <3>4, <3>5
  <2> QED  BY <2>1 DEF DoneOnce
<1>12. ASSUME NEW i \in DOMAIN e, AddedBefore(e, i) PROVE AddedBefore(s, i)
  <2>1. PICK j \in 1 .. i - 1 : e[j].type = "added" /\ e[j].index = e[i].index
    BY <1>12 DEF AddedBefore
  <2>2. j \in DOMAIN e
    BY <1>1
  <2> QED  BY <1>3, <2>1, <2>2 DEF AddedBefore
<1>13. DoneAfter(s, m)
  <2>1. ASSUME NEW i \in DOMAIN s, s[i].type = "done" PROVE s[i].index > m /\ AddedBefore(s, i)
    <3>1. CASE i \in DOMAIN e
      BY <1>3, <1>12, <2>1, <3>1 DEF Open, DoneAfter
    <3>2. CASE i \notin DOMAIN e
      <4> DEFINE a == i - l
      <4>1. a \in DOMAIN c /\ s[i] = c[a]
        BY <1>2, <3>2
      <4>2. c[a].index > m + n /\ AddedBefore(c, a)
        BY <2>1, <4>1 DEF Follows, DoneAfter
      <4>3. PICK j \in 1 .. a - 1 : c[j].type = "added" /\ c[j].index = c[a].index
        BY <4>2 DEF AddedBefore
      <4>4. j \in DOMAIN c /\ l + j \in 1 .. i - 1
        BY <1>1, <4>1
      <4>5. s[l + j].type = "added" /\ s[l + j].index = s[i].index
        BY <1>4, <4>1, <4>3, <4>4
      <4>6. c[a].index > m
        <5>1. c[a].index \in Nat
          BY <1>5, <1>6, <4>1
        <5> QED  BY <4>2, <5>1
      <4> QED  BY <4>1, <4>4, <4>5, <4>6 DEF AddedBefore
    <3> QED  BY <3>1, <3>2
  <2> QED  BY <2>1 DEF DoneAfter
<1>14. DeltaAfter(s, m)
  <2>1. ASSUME NEW i \in DOMAIN s, s[i].type = "delta" PROVE s[i].index <= m /\ AddedBefore(s, i)
    <3>1. CASE i \in DOMAIN e
      BY <1>3, <1>12, <2>1, <3>1 DEF Open, DeltaAfter
    <3>2. CASE i \notin DOMAIN e
      <4> DEFINE a == i - l
      <4>1. a \in DOMAIN c /\ s[i] = c[a]
        BY <1>2, <3>2
      <4>2. c[a].index <= m /\ c[a].index \in Nat
        BY <1>5, <1>6, <2>1, <4>1 DEF Follows
      <4>3. c[a].index \in 0 .. m + n
        BY <4>2
      <4>4. PICK j \in DOMAIN e : e[j].type = "added" /\ e[j].index = c[a].index
        BY <4>3 DEF Open, AllAdded
      <4>5. j \in 1 .. i - 1 /\ s[j] = e[j]
        BY <1>1, <1>3, <3>2, <4>1
      <4> QED  BY <4>1, <4>2, <4>4, <4>5 DEF AddedBefore
    <3> QED  BY <3>1, <3>2
  <2> QED  BY <2>1 DEF DeltaAfter
<1>15. CallsDone(s, m)
  <2>1. ASSUME NEW i \in DOMAIN s, s[i].type = "added", s[i].index > m
        PROVE  \E k \in i .. Len(s) : s[k].type = "done" /\ s[k].index = s[i].index
    <3>1. CASE i \in DOMAIN e
      <4>1. PICK k \in i .. Len(e) : e[k].type = "done" /\ e[k].index = e[i].index
        BY <1>3, <2>1, <3>1 DEF Open, CallsDone
      <4>2. k \in DOMAIN e /\ k \in i .. Len(s)
        BY <1>1, <3>1 DEF l
      <4> QED  BY <1>3, <3>1, <4>1, <4>2
    <3>2. CASE i \notin DOMAIN e
      <4> DEFINE a == i - l
      <4>1. a \in DOMAIN c /\ s[i] = c[a]
        BY <1>2, <3>2
      <4>2. PICK k \in a .. Len(c) : c[k].type = "done" /\ c[k].index = c[a].index
        BY <2>1, <4>1 DEF Follows, CallsDone
      <4>3. k \in DOMAIN c /\ l + k \in i .. Len(s)
        BY <1>1, <4>1
      <4> QED  BY <1>4, <4>1, <4>2, <4>3
    <3> QED  BY <3>1, <3>2
  <2> QED  BY <2>1 DEF CallsDone
<1>16. Open(s, m, n + new)
  BY <1>7, <1>8, <1>9, <1>10, <1>11, <1>13, <1>14, <1>15 DEF Open
<1> QED  BY <1>16 DEF s

LEMMA NothingFollows ==
  ASSUME NEW m \in Nat, NEW n \in Nat
  PROVE  Follows(<<>>, m, n, 0)
<1>1. DOMAIN <<>> = {} /\ \A k : k \notin m + n + 1 .. m + n + 0
  OBVIOUS
<1> QED  BY <1>1 DEF Follows, Running, Listed, AddedOnce, AllAdded, DoneOnce, DoneAfter, CallsDone

\* A delta of an item that is open.
LEMMA DeltaFollows ==
  ASSUME NEW m \in Nat, NEW n \in Nat, NEW k \in 0 .. m
  PROVE  Follows(Event1("delta", ItemAt(m, k), k), m, n, 0)
<1> DEFINE e == Event1("delta", ItemAt(m, k), k)
<1>1. /\ DOMAIN e = {1} /\ e[1].type = "delta" /\ e[1].item = ItemAt(m, k) /\ e[1].index = k
  BY DEF Event1
<1> HIDE DEF e
<1>2. k \in 0 .. m + (n + 0) /\ k <= m /\ \A i : i \notin m + n + 1 .. m + n + 0
  OBVIOUS
<1>3. Running(e) /\ AddedOnce(e) /\ DoneOnce(e) /\ DoneAfter(e, m + n) /\ CallsDone(e, m + n)
  BY <1>1 DEF Running, Terminal, AddedOnce, DoneOnce, DoneAfter, CallsDone
<1>4. Listed(e, m, n + 0) /\ AllAdded(e, m + n + 1, m + n + 0)
  BY <1>1, <1>2 DEF Listed, AllAdded
<1>5. /\ \A i \in DOMAIN e : e[i].type = "added" => e[i].index > m + n
      /\ \A i \in DOMAIN e : e[i].type = "delta" => e[i].index <= m
  BY <1>1, <1>2
<1> QED  BY <1>3, <1>4, <1>5 DEF Follows, e

LEMMA Halves ==
  ASSUME NEW k \in Nat \ {0}
  PROVE  /\ (k - 1) \div 2 \in Nat
         /\ k % 2 = 1 => k = 2 * ((k - 1) \div 2) + 1
         /\ k % 2 # 1 => k = 2 * ((k - 1) \div 2) + 2
OBVIOUS

LEMMA OddEven ==
  ASSUME NEW h \in Nat
  PROVE  /\ (2 * h + 1) % 2 = 1 /\ (2 * h + 2) % 2 # 1
         /\ ((2 * h + 1) - 1) \div 2 = h /\ ((2 * h + 2) - 1) \div 2 = h
OBVIOUS

\* The calls that are emitted together: each is announced, and done next.
LEMMA CallsFollow ==
  ASSUME NEW p \in Profiles, NEW n \in Nat, NEW new \in Nat
  PROVE  Follows(ResponsesCallEvents(p, n, new), MessageIndex(p), n, new)
<1> DEFINE m == MessageIndex(p)
           e == ResponsesCallEvents(p, n, new)
           half(k) == (k - 1) \div 2
<1>1. m \in Nat
  BY EventTypes
<1>2. /\ DOMAIN e = 1 .. 2 * new
      /\ \A k \in 1 .. 2 * new :
           /\ e[k].type = (IF k % 2 = 1 THEN "added" ELSE "done") /\ e[k].item = "call"
           /\ e[k].index = m + 1 + (n + half(k))
  BY DEF ResponsesCallEvents, CallIndex
<1>3. \A k \in 1 .. 2 * new :
        /\ half(k) \in Nat /\ half(k) < new
        /\ k % 2 = 1 => k = 2 * half(k) + 1
        /\ k % 2 # 1 => k = 2 * half(k) + 2
  <2>1. ASSUME NEW k \in 1 .. 2 * new
        PROVE  /\ half(k) \in Nat /\ half(k) < new
               /\ k % 2 = 1 => k = 2 * half(k) + 1
               /\ k % 2 # 1 => k = 2 * half(k) + 2
    <3>1. k \in Nat \ {0} /\ k <= 2 * new
      OBVIOUS
    <3>2. /\ half(k) \in Nat
          /\ k % 2 = 1 => k = 2 * half(k) + 1
          /\ k % 2 # 1 => k = 2 * half(k) + 2
      BY <3>1, Halves
    <3> HIDE DEF half
    <3> QED  BY <3>1, <3>2
  <2> QED  BY <2>1
<1>4. \A h \in 0 .. new - 1 :
        /\ 2 * h + 1 \in 1 .. 2 * new /\ 2 * h + 2 \in 1 .. 2 * new
        /\ (2 * h + 1) % 2 = 1 /\ (2 * h + 2) % 2 # 1
        /\ half(2 * h + 1) = h /\ half(2 * h + 2) = h
  <2>1. ASSUME NEW h \in 0 .. new - 1
        PROVE  /\ 2 * h + 1 \in 1 .. 2 * new /\ 2 * h + 2 \in 1 .. 2 * new
               /\ (2 * h + 1) % 2 = 1 /\ (2 * h + 2) % 2 # 1
               /\ half(2 * h + 1) = h /\ half(2 * h + 2) = h
    <3>1. h \in Nat /\ h + 1 <= new
      OBVIOUS
    <3>2. 2 * h + 1 \in 1 .. 2 * new /\ 2 * h + 2 \in 1 .. 2 * new
      BY <3>1
    <3> QED  BY <3>1, <3>2, OddEven
  <2> QED  BY <2>1
<1> HIDE DEF e, half, m
<1>5. Running(e)
  BY <1>2 DEF Running, Terminal
<1>6. \A k \in 1 .. 2 * new : e[k].index \in m + n + 1 .. m + n + new /\ e[k].index > m + n
                              /\ e[k].index - (m + n + 1) = half(k)
  <2>1. ASSUME NEW k \in 1 .. 2 * new
        PROVE  /\ e[k].index \in m + n + 1 .. m + n + new /\ e[k].index > m + n
               /\ e[k].index - (m + n + 1) = half(k)
    <3>1. e[k].index = m + n + 1 + half(k)
      BY <1>1, <1>2, <1>3
    <3>2. half(k) \in Nat /\ half(k) < new
      BY <1>3
    <3> QED  BY <1>1, <3>1, <3>2
  <2> QED  BY <2>1
<1>7. Listed(e, m, n + new)
  <2>1. \A i \in m + n + 1 .. m + n + new : i \in 0 .. m + (n + new) /\ ItemAt(m, i) = "call"
    BY <1>1 DEF ItemAt
  <2> QED  BY <1>2, <1>6, <2>1 DEF Listed
<1>8. AddedOnce(e)
  <2>1. ASSUME NEW i \in DOMAIN e, NEW j \in DOMAIN e, e[i].type = "added", e[j].type = "added",
               e[i].index = e[j].index
        PROVE  i = j
    <3>1. i % 2 = 1 /\ j % 2 = 1
      BY <1>2, <2>1
    <3>2. half(i) = half(j)
      BY <1>2, <1>6, <2>1
    <3>3. i = 2 * half(i) + 1 /\ j = 2 * half(j) + 1
      BY <1>2, <1>3, <3>1
    <3> QED  BY <3>2, <3>3
  <2> QED  BY <2>1 DEF AddedOnce
<1>9. DoneOnce(e)
  <2>1. ASSUME NEW i \in DOMAIN e, NEW j \in DOMAIN e, e[i].type = "done", e[j].type = "done",
               e[i].index = e[j].index
        PROVE  i = j
    <3>1. i % 2 # 1 /\ j % 2 # 1
      BY <1>2, <2>1
    <3>2. half(i) = half(j)
      BY <1>2, <1>6, <2>1
    <3>3. i = 2 * half(i) + 2 /\ j = 2 * half(j) + 2
      BY <1>2, <1>3, <3>1
    <3> QED  BY <3>2, <3>3
  <2> QED  BY <2>1 DEF DoneOnce
<1>10. AllAdded(e, m + n + 1, m + n + new)
  <2>1. ASSUME NEW k \in m + n + 1 .. m + n + new
        PROVE  \E i \in DOMAIN e : e[i].type = "added" /\ e[i].index = k
    <3> DEFINE h == k - (m + n + 1)
    <3>1. h \in 0 .. new - 1 /\ k = m + 1 + (n + h)
      BY <1>1
    <3> HIDE DEF h
    <3>2. /\ 2 * h + 1 \in 1 .. 2 * new /\ (2 * h + 1) % 2 = 1 /\ half(2 * h + 1) = h
      BY <1>4, <3>1
    <3>3. e[2 * h + 1].type = "added" /\ e[2 * h + 1].index = k
      BY <1>2, <3>1, <3>2
    <3> QED  BY <1>2, <3>2, <3>3
  <2> QED  BY <2>1 DEF AllAdded
<1>11. DoneAfter(e, m + n)
  <2>1. ASSUME NEW i \in DOMAIN e, e[i].type = "done" PROVE AddedBefore(e, i)
    <3>1. i % 2 # 1 /\ half(i) \in 0 .. new - 1 /\ i = 2 * half(i) + 2
      <4>1. i \in 1 .. 2 * new /\ i % 2 # 1
        BY <1>2, <2>1
      <4>2. half(i) \in Nat /\ half(i) < new /\ i = 2 * half(i) + 2
        BY <1>3, <4>1
      <4> QED  BY <4>1, <4>2
    <3> DEFINE j == 2 * half(i) + 1
    <3>2. j \in 1 .. 2 * new /\ j % 2 = 1 /\ half(j) = half(i)
      BY <1>4, <3>1
    <3>3. j \in 1 .. i - 1
      BY <3>1, <3>2
    <3> HIDE DEF j
    <3>4. e[j].type = "added" /\ e[j].index = e[i].index
      BY <1>2, <3>2
    <3> QED  BY <3>3, <3>4 DEF AddedBefore
  <2> QED  BY <1>2, <1>6, <2>1 DEF DoneAfter
<1>12. CallsDone(e, m + n)
  <2>1. ASSUME NEW i \in DOMAIN e, e[i].type = "added"
        PROVE  \E k \in i .. Len(e) : e[k].type = "done" /\ e[k].index = e[i].index
    <3>1. i % 2 = 1 /\ half(i) \in 0 .. new - 1 /\ i = 2 * half(i) + 1
      <4>1. i \in 1 .. 2 * new /\ i % 2 = 1
        BY <1>2, <2>1
      <4>2. half(i) \in Nat /\ half(i) < new /\ i = 2 * half(i) + 1
        BY <1>3, <4>1
      <4> QED  BY <4>1, <4>2
    <3> DEFINE k == 2 * half(i) + 2
    <3>2. k \in 1 .. 2 * new /\ k % 2 # 1 /\ half(k) = half(i)
      BY <1>4, <3>1
    <3>3. Len(e) = 2 * new
      BY DEF e, ResponsesCallEvents
    <3>4. k \in i .. Len(e)
      BY <3>1, <3>2, <3>3
    <3> HIDE DEF k
    <3>5. e[k].type = "done" /\ e[k].index = e[i].index
      BY <1>2, <3>2
    <3> QED  BY <3>4, <3>5
  <2> QED  BY <2>1 DEF CallsDone
<1>13. \A i \in DOMAIN e : e[i].type = "added" => e[i].index > m + n
  BY <1>2, <1>6
<1>14. \A i \in DOMAIN e : e[i].type # "delta"
  BY <1>2
<1>15. Follows(e, m, n, new)
  BY <1>5, <1>7, <1>8, <1>9, <1>10, <1>11, <1>12, <1>13, <1>14 DEF Follows
<1> QED  BY <1>15 DEF e, m

LEMMA OneAndOne ==
  ASSUME NEW s \in Seq(Event), NEW t \in Seq(Event), Len(s) = 1, Len(t) = 1
  PROVE  s \o t \in Seq(Event) /\ Len(s \o t) = 2 /\ (s \o t)[1] = s[1] /\ (s \o t)[2] = t[1]
<1>1. /\ s \o t \in Seq(Event) /\ Len(s \o t) = Len(s) + Len(t)
      /\ \A i \in 1 .. Len(s) : (s \o t)[i] = s[i]
      /\ \A i \in 1 .. Len(t) : (s \o t)[Len(s) + i] = t[i]
  BY EventParts
<1>2. (s \o t)[1] = s[1]
  BY <1>1
<1>3. (s \o t)[1 + 1] = t[1]
  BY <1>1
<1> QED  BY <1>1, <1>2, <1>3

LEMMA InOrder ==
  ASSUME NEW a \in Event, NEW b \in Event, NEW c \in Event
  PROVE  /\ <<a>> \o <<b>> \o <<c>> = <<a, b, c>>
         /\ <<a>> \o <<>> \o <<c>> = <<a, c>>
<1> DEFINE first == <<a>>
           second == <<b>>
           last == <<c>>
           u == first \o second
           v == u \o last
           w == first \o last
<1>1. /\ first \in Seq(Event) /\ second \in Seq(Event) /\ last \in Seq(Event)
      /\ Len(first) = 1 /\ Len(second) = 1 /\ Len(last) = 1
      /\ first[1] = a /\ second[1] = b /\ last[1] = c
  OBVIOUS
<1>2. first \o <<>> = first
  BY <1>1
<1> HIDE DEF first, second, last
<1>3. u \in Seq(Event) /\ Len(u) = 2 /\ u[1] = a /\ u[2] = b
  BY <1>1, OneAndOne
<1>4. w \in Seq(Event) /\ Len(w) = 2 /\ w[1] = a /\ w[2] = c
  BY <1>1, OneAndOne
<1> HIDE DEF u, w
<1>5. v \in Seq(Event) /\ Len(v) = 3 /\ v[1] = a /\ v[2] = b /\ v[3] = c
  <2>1. v \in Seq(Event) /\ Len(v) = Len(u) + Len(last)
    BY <1>1, <1>3, EventParts
  <2>2. \A i \in 1 .. Len(u) : v[i] = u[i]
    BY <1>1, <1>3, EventParts
  <2>3. \A i \in 1 .. Len(last) : v[Len(u) + i] = last[i]
    BY <1>1, <1>3, EventParts
  <2> HIDE DEF v
  <2>4. v[1] = u[1] /\ v[2] = u[2]
    BY <1>3, <2>2
  <2>5. v[2 + 1] = last[1]
    BY <1>1, <1>3, <2>3
  <2> QED  BY <1>1, <1>3, <2>1, <2>4, <2>5
<1> HIDE DEF v
<1>6. v = <<a, b, c>> /\ w = <<a, c>>
  BY <1>3, <1>4, <1>5
<1> QED  BY <1>2, <1>6 DEF first, second, last, u, v, w

LEMMA OpeningOpen ==
  ASSUME NEW p \in Profiles, p.api # "chat"
  PROVE  Open(Opening(p), MessageIndex(p), 0)
<1> DEFINE m == MessageIndex(p)
           e == Opening(p)
<1>1. CASE HasReasoningItem(p)
  <2>1. m = 1
    BY <1>1 DEF MessageIndex
  <2>2. e = <<[type |-> "created", item |-> "response", index |-> 0],
              [type |-> "added", item |-> "reasoning", index |-> 0],
              [type |-> "added", item |-> "message", index |-> 1]>>
    <3>1. e = Event1("created", "response", 0) \o Event1("added", "reasoning", 0)
              \o Event1("added", "message", 1)
      BY <1>1, <2>1 DEF Opening, ResponsesOpening, ReasoningItemEvent
    <3>2. \A type \in {"created", "added"}, item \in {"response", "reasoning", "message"},
             index \in {0, 1} :
            [type |-> type, item |-> item, index |-> index] \in Event
      BY DEF Event
    <3> QED  BY <3>1, <3>2, InOrder DEF Event1
  <2> HIDE DEF e, m
  <2>3. /\ DOMAIN e = 1 .. 3 /\ Len(e) = 3
        /\ e[1].type = "created"
        /\ e[2].type = "added" /\ e[2].item = "reasoning" /\ e[2].index = 0
        /\ e[3].type = "added" /\ e[3].item = "message" /\ e[3].index = 1
    BY <2>2
  <2>4. 1 .. 3 = {1, 2, 3} /\ 0 .. m + 0 = {0, 1}
    BY <2>1
  <2>5. Running(e) /\ Listed(e, m, 0)
    BY <2>1, <2>3, <2>4 DEF Running, Terminal, Listed, ItemAt
  <2>6. AddedOnce(e) /\ DoneOnce(e) /\ DoneAfter(e, m) /\ DeltaAfter(e, m) /\ CallsDone(e, m)
    BY <2>1, <2>3, <2>4 DEF AddedOnce, DoneOnce, DoneAfter, DeltaAfter, CallsDone
  <2>7. AllAdded(e, 0, m + 0)
    BY <2>3, <2>4 DEF AllAdded
  <2> QED  BY <2>5, <2>6, <2>7 DEF Open, e, m
<1>2. CASE ~HasReasoningItem(p)
  <2>1. m = 0
    BY <1>2 DEF MessageIndex
  <2>2. e = <<[type |-> "created", item |-> "response", index |-> 0],
              [type |-> "added", item |-> "message", index |-> 0]>>
    <3>1. e = Event1("created", "response", 0) \o <<>> \o Event1("added", "message", 0)
      BY <1>2, <2>1 DEF Opening, ResponsesOpening, ReasoningItemEvent
    <3>2. \A type \in {"created", "added"}, item \in {"response", "reasoning", "message"},
             index \in {0, 1} :
            [type |-> type, item |-> item, index |-> index] \in Event
      BY DEF Event
    <3> QED  BY <3>1, <3>2, InOrder DEF Event1
  <2> HIDE DEF e, m
  <2>3. /\ DOMAIN e = 1 .. 2 /\ Len(e) = 2
        /\ e[1].type = "created"
        /\ e[2].type = "added" /\ e[2].item = "message" /\ e[2].index = 0
    BY <2>2
  <2>4. 1 .. 2 = {1, 2} /\ 0 .. m + 0 = {0}
    BY <2>1
  <2>5. Running(e) /\ Listed(e, m, 0)
    BY <2>1, <2>3, <2>4 DEF Running, Terminal, Listed, ItemAt
  <2>6. AddedOnce(e) /\ DoneOnce(e) /\ DoneAfter(e, m) /\ DeltaAfter(e, m) /\ CallsDone(e, m)
    BY <2>1, <2>3, <2>4 DEF AddedOnce, DoneOnce, DoneAfter, DeltaAfter, CallsDone
  <2>7. AllAdded(e, 0, m + 0)
    BY <2>3, <2>4 DEF AllAdded
  <2> QED  BY <2>5, <2>6, <2>7 DEF Open, e, m
<1> QED  BY <1>1, <1>2

\* What StreamWellFormed asks of the events of a response.
WellFormed(e) ==
  \A i \in DOMAIN e :
    /\ e[i].type = "added" => Before(e, i, "added") = {}
    /\ e[i].type \in {"delta", "done"} =>
         /\ \E j \in Before(e, i, "added") : e[j].item = e[i].item
         /\ Before(e, i, "done") = {}
    /\ e[i].type = "completed" => \A j \in 1 .. i : e[j].type = "added" =>
         \E k \in j .. i : e[k].type = "done" /\ e[k].index = e[j].index
Over(e) == e # <<>> /\ Terminal(e[Len(e)]) /\ \A i \in DOMAIN e : Terminal(e[i]) => i = Len(e)

LEMMA OpenWell ==
  ASSUME NEW e \in Seq(Event), NEW m \in Nat, NEW n \in Nat, Open(e, m, n)
  PROVE  WellFormed(e)
<1>1. DOMAIN e = 1 .. Len(e) /\ Len(e) \in Nat /\ \A i \in DOMAIN e : e[i].index \in Nat
  <2>1. DOMAIN e = 1 .. Len(e) /\ Len(e) \in Nat /\ \A i \in DOMAIN e : e[i] \in Event
    OBVIOUS
  <2>2. \A x \in Event : x.index \in Nat
    BY DEF Event
  <2> QED  BY <2>1, <2>2
<1>2. ASSUME NEW i \in DOMAIN e, e[i].type = "added" PROVE Before(e, i, "added") = {}
  <2>1. ASSUME NEW j \in Before(e, i, "added") PROVE FALSE
    <3>1. j \in 1 .. i - 1 /\ e[j].type = "added" /\ e[j].index = e[i].index
      BY <2>1 DEF Before
    <3>2. j \in DOMAIN e /\ j # i
      BY <1>1, <3>1
    <3> QED  BY <1>2, <3>1, <3>2 DEF Open, AddedOnce
  <2> QED  BY <2>1
<1>3. ASSUME NEW i \in DOMAIN e, e[i].type \in {"delta", "done"}
      PROVE  \E j \in Before(e, i, "added") : e[j].item = e[i].item
  <2>1. AddedBefore(e, i)
    BY <1>3 DEF Open, DoneAfter, DeltaAfter
  <2>2. PICK j \in 1 .. i - 1 : e[j].type = "added" /\ e[j].index = e[i].index
    BY <2>1 DEF AddedBefore
  <2>3. j \in Before(e, i, "added") /\ j \in DOMAIN e
    BY <1>1, <2>2 DEF Before
  <2>4. e[j].item = ItemAt(m, e[j].index) /\ e[i].item = ItemAt(m, e[i].index)
    BY <1>3, <2>2, <2>3 DEF Open, Listed
  <2> QED  BY <2>2, <2>3, <2>4
<1>4. ASSUME NEW i \in DOMAIN e, e[i].type \in {"delta", "done"}
      PROVE  Before(e, i, "done") = {}
  <2>1. ASSUME NEW j \in Before(e, i, "done") PROVE FALSE
    <3>1. j \in 1 .. i - 1 /\ e[j].type = "done" /\ e[j].index = e[i].index
      BY <2>1 DEF Before
    <3>2. j \in DOMAIN e /\ j # i
      BY <1>1, <3>1
    <3>3. e[j].index > m
      BY <3>1, <3>2 DEF Open, DoneAfter
    <3>4. CASE e[i].type = "done"
      BY <3>1, <3>2, <3>4 DEF Open, DoneOnce
    <3>5. CASE e[i].type = "delta"
      <4>1. e[i].index <= m
        BY <3>5 DEF Open, DeltaAfter
      <4> QED  BY <1>1, <3>1, <3>3, <4>1
    <3> QED  BY <1>4, <3>4, <3>5
  <2> QED  BY <2>1
<1>5. \A i \in DOMAIN e : e[i].type # "completed"
  BY DEF Open, Running, Terminal
<1> QED  BY <1>2, <1>3, <1>4, <1>5 DEF WellFormed

\* What closes a response: every open item, then the end.
Closes(d, m) ==
  /\ Len(d) >= 1 /\ d[Len(d)].type = "completed"
  /\ \A i \in DOMAIN d : d[i].type = "completed" => i = Len(d)
  /\ \A i \in DOMAIN d : d[i].type # "completed" =>
       d[i].type = "done" /\ d[i].index \in 0 .. m /\ d[i].item = ItemAt(m, d[i].index)
  /\ DoneOnce(d)
  /\ \A k \in 0 .. m : \E i \in DOMAIN d : d[i].type = "done" /\ d[i].index = k

LEMMA DoneCloses ==
  ASSUME NEW p \in Profiles
  PROVE  Closes(ResponsesDone(p), MessageIndex(p))
<1> DEFINE m == MessageIndex(p)
           d == ResponsesDone(p)
           ev(type, item, index) == [type |-> type, item |-> item, index |-> index]
<1>1. CASE HasReasoningItem(p)
  <2>1. m = 1
    BY <1>1 DEF MessageIndex
  <2>2. /\ ev("done", "message", 1) \in Event /\ ev("done", "reasoning", 0) \in Event
        /\ ev("completed", "response", 0) \in Event
    BY DEF Event
  <2>3. d = <<ev("done", "message", 1)>> \o <<ev("done", "reasoning", 0)>>
            \o <<ev("completed", "response", 0)>>
    BY <1>1, <2>1 DEF ResponsesDone, ReasoningItemEvent, Event1
  <2>4. d = <<ev("done", "message", 1), ev("done", "reasoning", 0), ev("completed", "response", 0)>>
    <3> HIDE DEF d, ev
    <3> QED  BY <2>2, <2>3, InOrder
  <2> HIDE DEF d, m
  <2>5. /\ DOMAIN d = 1 .. 3 /\ Len(d) = 3
        /\ d[1].type = "done" /\ d[1].item = "message" /\ d[1].index = 1
        /\ d[2].type = "done" /\ d[2].item = "reasoning" /\ d[2].index = 0
        /\ d[3].type = "completed"
    BY <2>4
  <2>6. 1 .. 3 = {1, 2, 3} /\ 0 .. m = {0, 1}
    BY <2>1
  <2>7. Closes(d, m)
    BY <2>1, <2>5, <2>6 DEF Closes, DoneOnce, ItemAt
  <2> QED  BY <2>7 DEF d, m
<1>2. CASE ~HasReasoningItem(p)
  <2>1. m = 0
    BY <1>2 DEF MessageIndex
  <2>2. ev("done", "message", 0) \in Event /\ ev("completed", "response", 0) \in Event
    BY DEF Event
  <2>3. d = <<ev("done", "message", 0)>> \o <<>> \o <<ev("completed", "response", 0)>>
    BY <1>2, <2>1 DEF ResponsesDone, ReasoningItemEvent, Event1
  <2>4. d = <<ev("done", "message", 0), ev("completed", "response", 0)>>
    <3> HIDE DEF d, ev
    <3> QED  BY <2>2, <2>3, InOrder
  <2> HIDE DEF d, m
  <2>5. /\ DOMAIN d = 1 .. 2 /\ Len(d) = 2
        /\ d[1].type = "done" /\ d[1].item = "message" /\ d[1].index = 0
        /\ d[2].type = "completed"
    BY <2>4
  <2>6. 1 .. 2 = {1, 2} /\ 0 .. m = {0}
    BY <2>1
  <2>7. Closes(d, m)
    BY <2>1, <2>5, <2>6 DEF Closes, DoneOnce, ItemAt
  <2> QED  BY <2>7 DEF d, m
<1> QED  BY <1>1, <1>2

\* One terminal event, the last one.
LEMMA OverOn ==
  ASSUME NEW e \in Seq(Event), NEW d \in Seq(Event), Running(e), Len(d) >= 1, Terminal(d[Len(d)]),
         \A i \in DOMAIN d : Terminal(d[i]) => i = Len(d)
  PROVE  Over(e \o d)
<1> DEFINE s == e \o d
           l == Len(e)
<1>1. /\ Len(s) = l + Len(d) /\ l \in Nat /\ Len(d) \in Nat /\ DOMAIN d = 1 .. Len(d)
      /\ \A i \in 1 .. Len(d) : s[l + i] = d[i]
      /\ s \in Seq(Event)
  BY EventParts
<1>2. \A i \in DOMAIN s : (i \in DOMAIN e /\ s[i] = e[i])
                          \/ (i - l \in DOMAIN d /\ s[i] = d[i - l] /\ i \in Nat)
  BY EventParts
<1> HIDE DEF s, l
<1>3. s # <<>>
  BY <1>1
<1>4. Terminal(s[Len(s)])
  <2>1. Len(d) \in 1 .. Len(d) /\ Len(s) = l + Len(d)
    BY <1>1
  <2> QED  BY <1>1, <2>1
<1>5. \A i \in DOMAIN s : Terminal(s[i]) => i = Len(s)
  <2>1. ASSUME NEW i \in DOMAIN s, Terminal(s[i]) PROVE i = Len(s)
    <3>1. i - l \in DOMAIN d /\ s[i] = d[i - l] /\ i \in Nat
      BY <1>2, <2>1 DEF Running
    <3>2. i - l = Len(d)
      BY <2>1, <3>1
    <3>3. \A x, y \in Nat : i - x = y => i = x + y
      BY <3>1
    <3>4. i = l + Len(d)
      BY <1>1, <3>2, <3>3
    <3> QED  BY <1>1, <3>4
  <2> QED  BY <2>1
<1> QED  BY <1>3, <1>4, <1>5 DEF Over, s

\* The items that were announced stay so when nothing is announced after them.
LEMMA ClosedWell ==
  ASSUME NEW e \in Seq(Event), NEW d \in Seq(Event), NEW m \in Nat, NEW n \in Nat,
         Open(e, m, n), Closes(d, m)
  PROVE  /\ WellFormed(e \o d)
         /\ AddedOnce(e \o d) /\ AllAdded(e \o d, 0, m + n)
         /\ \A i \in DOMAIN (e \o d) : (e \o d)[i].type = "added" =>
              /\ (e \o d)[i].index \in 0 .. m + n
              /\ (e \o d)[i].item = ItemAt(m, (e \o d)[i].index)
<1> DEFINE s == e \o d
           l == Len(e)
<1>1. /\ s \in Seq(Event) /\ Len(s) = l + Len(d) /\ DOMAIN s = 1 .. l + Len(d)
      /\ DOMAIN e = 1 .. l /\ DOMAIN d = 1 .. Len(d)
      /\ l \in Nat /\ Len(d) \in Nat
      /\ \A i \in 1 .. l : s[i] = e[i]
      /\ \A i \in 1 .. Len(d) : s[l + i] = d[i]
  BY EventParts
<1>2. \A i \in DOMAIN s : i \in DOMAIN e \/ (i - l \in DOMAIN d /\ s[i] = d[i - l])
  BY EventParts
<1> HIDE DEF s, l
<1>3. \A i \in DOMAIN e : i \in DOMAIN s /\ s[i] = e[i] /\ i \in Nat /\ i <= l
  BY <1>1
<1>4. \A i \in DOMAIN d : l + i \in DOMAIN s /\ s[l + i] = d[i] /\ i \in Nat /\ i >= 1
  BY <1>1
<1>5. \A i \in DOMAIN d : d[i].type \in {"done", "completed"}
  BY DEF Closes
<1>6. \A i \in DOMAIN s : s[i].type = "added" => i \in DOMAIN e
  BY <1>2, <1>5
<1>7. WellFormed(e)
  BY OpenWell
<1>8. ASSUME NEW i \in DOMAIN e, NEW type PROVE Before(s, i, type) = Before(e, i, type)
  <2>1. \A j \in 1 .. i - 1 : s[j] = e[j]
    BY <1>1
  <2> QED  BY <1>3, <2>1 DEF Before
<1>9. ASSUME NEW i \in DOMAIN s, i \in DOMAIN e
      PROVE  /\ s[i].type = "added" => Before(s, i, "added") = {}
             /\ s[i].type \in {"delta", "done"} =>
                  /\ \E j \in Before(s, i, "added") : s[j].item = s[i].item
                  /\ Before(s, i, "done") = {}
             /\ s[i].type # "completed"
  <2>1. s[i] = e[i] /\ Before(s, i, "added") = Before(e, i, "added")
        /\ Before(s, i, "done") = Before(e, i, "done")
    BY <1>3, <1>8, <1>9
  <2>2. \A j \in Before(e, i, "added") : s[j] = e[j]
    BY <1>1, <1>9 DEF Before
  <2>3. e[i].type # "completed"
    BY <1>9 DEF Open, Running, Terminal
  <2> QED  BY <1>7, <1>9, <2>1, <2>2, <2>3 DEF WellFormed
<1>10. ASSUME NEW i \in DOMAIN s, i \notin DOMAIN e, s[i].type = "done"
       PROVE  /\ \E j \in Before(s, i, "added") : s[j].item = s[i].item
              /\ Before(s, i, "done") = {}
  <2> DEFINE a == i - l
  <2>1. a \in DOMAIN d /\ s[i] = d[a] /\ i = l + a
    BY <1>1, <1>2, <1>10
  <2> HIDE DEF a
  <2>2. d[a].index \in 0 .. m /\ d[a].item = ItemAt(m, d[a].index)
    BY <1>10, <2>1 DEF Closes
  <2>3. PICK j \in DOMAIN e : e[j].type = "added" /\ e[j].index = d[a].index
    <3>1. d[a].index \in 0 .. m + n
      BY <2>2
    <3> QED  BY <3>1 DEF Open, AllAdded
  <2>4. e[j].item = ItemAt(m, e[j].index)
    BY <2>3 DEF Open, Listed
  <2>5. j \in 1 .. i - 1 /\ s[j] = e[j]
    BY <1>1, <1>3, <1>4, <2>1
  <2>6. j \in Before(s, i, "added") /\ s[j].item = s[i].item
    BY <2>1, <2>2, <2>3, <2>4, <2>5 DEF Before
  <2>7. ASSUME NEW k \in Before(s, i, "done") PROVE FALSE
    <3>1. k \in 1 .. i - 1 /\ s[k].type = "done" /\ s[k].index = d[a].index
      BY <2>1, <2>7 DEF Before
    <3>2. k \in DOMAIN s
      BY <1>1, <3>1
    <3>3. CASE k \in DOMAIN e
      <4>1. e[k].index > m
        BY <1>3, <3>1, <3>3 DEF Open, DoneAfter
      <4> QED  BY <1>3, <2>2, <3>1, <3>3, <4>1
    <3>4. CASE k \notin DOMAIN e
      <4>1. k - l \in DOMAIN d /\ s[k] = d[k - l]
        BY <1>2, <3>2, <3>4
      <4>2. k - l = a
        BY <1>10, <2>1, <3>1, <4>1 DEF Closes, DoneOnce
      <4> QED  BY <1>1, <2>1, <3>1, <4>2
    <3> QED  BY <3>3, <3>4
  <2> QED  BY <2>6, <2>7
<1>11. ASSUME NEW i \in DOMAIN s, i \notin DOMAIN e, s[i].type = "completed",
              NEW j \in 1 .. i, s[j].type = "added"
       PROVE  \E k \in j .. i : s[k].type = "done" /\ s[k].index = s[j].index
  <2>1. i - l \in DOMAIN d /\ s[i] = d[i - l]
    BY <1>2, <1>11
  <2>2. i - l = Len(d)
    BY <1>11, <2>1 DEF Closes
  <2>3. i = Len(s) /\ i = l + Len(d)
    BY <1>1, <2>2
  <2>4. j \in DOMAIN s
    BY <1>1, <1>11
  <2>5. j \in DOMAIN e /\ s[j] = e[j] /\ j <= l
    BY <1>3, <1>6, <1>11, <2>4
  <2>6. e[j].index \in 0 .. m + n
    BY <1>11, <2>5 DEF Open, Listed
  <2>7. CASE e[j].index > m
    <3>1. PICK k \in j .. Len(e) : e[k].type = "done" /\ e[k].index = e[j].index
      BY <1>11, <2>5, <2>7 DEF Open, CallsDone
    <3>2. k \in DOMAIN e /\ k \in j .. i
      BY <1>1, <2>3, <2>5 DEF l
    <3> QED  BY <1>3, <2>5, <3>1, <3>2
  <2>8. CASE ~(e[j].index > m)
    <3>1. e[j].index \in 0 .. m
      BY <2>6, <2>8
    <3>2. PICK b \in DOMAIN d : d[b].type = "done" /\ d[b].index = e[j].index
      BY <3>1 DEF Closes
    <3>3. l + b \in j .. i /\ s[l + b] = d[b]
      BY <1>1, <1>3, <1>4, <2>3, <2>5
    <3> QED  BY <2>5, <3>2, <3>3
  <2> QED  BY <2>7, <2>8
<1>12. WellFormed(s)
  <2>1. ASSUME NEW i \in DOMAIN s, i \notin DOMAIN e PROVE s[i].type \in {"done", "completed"}
    BY <1>2, <1>5, <2>1
  <2> QED  BY <1>9, <1>10, <1>11, <2>1 DEF WellFormed
<1>13. AddedOnce(s)
  BY <1>3, <1>6 DEF AddedOnce, Open
<1>14. AllAdded(s, 0, m + n)
  BY <1>3 DEF AllAdded, Open
<1>15. \A i \in DOMAIN s : s[i].type = "added" =>
         s[i].index \in 0 .. m + n /\ s[i].item = ItemAt(m, s[i].index)
  BY <1>3, <1>6 DEF Open, Listed
<1> QED  BY <1>12, <1>13, <1>14, <1>15 DEF s
-------------------------------------------------------------------------------
(* The events while a request is answered, and at its end *)

Speaks(p, e, n) == Running(e) /\ (p.api # "chat" => Open(e, MessageIndex(p), n))
Continues(p, c, n, new) ==
  Running(c) /\ (p.api # "chat" => Follows(c, MessageIndex(p), n, new))

\* Every item of an answer was announced, once, and is in its output.
Announced(q) ==
  LET m == MessageIndex(q.profile)
      e == q.events
  IN  /\ \A i \in DOMAIN e : e[i].type = "added" =>
           e[i].index \in 0 .. m + q.calls /\ e[i].item = ItemAt(m, e[i].index)
      /\ AddedOnce(e) /\ AllAdded(e, 0, m + q.calls)
      /\ q.output = OutputItems(q, q.calls)
Spoken(q) ==
  /\ Over(q.events)
  /\ q.profile.api # "chat" =>
       WellFormed(q.events) /\ (q.outcome = "completed" => Announced(q))

Streamed(q) ==
  /\ ~q.profile.stream => q.events = <<>>
  /\ q.pc = "idle" => q.events = <<>>
  /\ InProgress(q) /\ q.profile.stream => Speaks(q.profile, q.events, q.calls)
  /\ q.pc = "ended" /\ q.profile.stream => Spoken(q)

LEMMA SpeaksOn ==
  ASSUME NEW p \in Profiles, NEW e \in Seq(Event), NEW c \in Seq(Event), NEW n \in Nat,
         NEW new \in Nat, Speaks(p, e, n), Continues(p, c, n, new)
  PROVE  Speaks(p, e \o c, n + new)
<1>1. MessageIndex(p) \in Nat
  BY DEF MessageIndex
<1>2. Running(e \o c)
  BY RunningOn DEF Speaks, Continues
<1>3. ASSUME p.api # "chat" PROVE Open(e \o c, MessageIndex(p), n + new)
  BY <1>1, <1>3, OpenOn DEF Speaks, Continues
<1> QED  BY <1>2, <1>3 DEF Speaks

LEMMA OneRuns ==
  ASSUME NEW type \in {"created", "added", "delta", "done"}, NEW item, NEW index
  PROVE  Running(Event1(type, item, index))
BY DEF Running, Terminal, Event1

LEMMA NothingRuns == Running(<<>>)
BY DEF Running

LEMMA TextContinues ==
  ASSUME NEW p \in Profiles, NEW n \in Nat, NEW text
  PROVE  Continues(p, TextDelta(p, text), n, 0)
<1>1. MessageIndex(p) \in Nat /\ MessageIndex(p) \in 0 .. MessageIndex(p)
  BY EventTypes
<1>2. CASE p.api = "chat"
  BY <1>2, OneRuns, NothingRuns DEF Continues, TextDelta, ChatTextDelta
<1>3. CASE p.api # "chat"
  <2>1. Follows(<<>>, MessageIndex(p), n, 0)
    BY <1>1, NothingFollows
  <2>2. Follows(Event1("delta", "message", MessageIndex(p)), MessageIndex(p), n, 0)
    <3>1. ItemAt(MessageIndex(p), MessageIndex(p)) = "message"
      BY DEF ItemAt
    <3> QED  BY <1>1, <3>1, DeltaFollows
  <2> QED  BY <1>3, <2>1, <2>2, OneRuns, NothingRuns DEF Continues, TextDelta, ResponsesTextDelta
<1> QED  BY <1>2, <1>3

LEMMA ReasoningContinues ==
  ASSUME NEW p \in Profiles, NEW n \in Nat
  PROVE  Continues(p, ReasoningDelta(p), n, 0)
<1>1. CASE p.api = "chat"
  BY <1>1, OneRuns, NothingRuns DEF Continues, ReasoningDelta, ChatReasoningDelta
<1>2. CASE p.api # "chat"
  <2>1. CASE HasReasoningItem(p)
    <3>1. MessageIndex(p) = 1 /\ ItemAt(1, 0) = "reasoning"
      BY <2>1 DEF MessageIndex, ItemAt
    <3>2. Follows(Event1("delta", "reasoning", 0), 1, n, 0)
      <4>1. 0 \in 0 .. 1 /\ 1 \in Nat
        OBVIOUS
      <4> QED  BY <3>1, <4>1, DeltaFollows
    <3> QED  BY <1>2, <2>1, <3>1, <3>2, OneRuns DEF Continues, ReasoningDelta, ReasoningItemEvent
  <2>2. CASE ~HasReasoningItem(p)
    <3>1. MessageIndex(p) \in Nat
      BY EventTypes
    <3>2. Follows(<<>>, MessageIndex(p), n, 0)
      BY <3>1, NothingFollows
    <3> QED  BY <1>2, <2>2, <3>2, NothingRuns DEF Continues, ReasoningDelta, ReasoningItemEvent
  <2> QED  BY <2>1, <2>2
<1> QED  BY <1>1, <1>2

LEMMA CallsContinue ==
  ASSUME NEW p \in Profiles, NEW n \in Nat, NEW new \in Nat
  PROVE  Continues(p, CallEvents(p, n, new), n, new)
<1>1. CASE p.api = "chat"
  <2>1. Running(ChatCallDeltas(n, new))
    BY DEF Running, Terminal, ChatCallDeltas
  <2> QED  BY <1>1, <2>1 DEF Continues, CallEvents
<1>2. CASE p.api # "chat"
  <2>1. Follows(ResponsesCallEvents(p, n, new), MessageIndex(p), n, new)
    BY CallsFollow
  <2> QED  BY <1>2, <2>1 DEF Continues, CallEvents, Follows
<1> QED  BY <1>1, <1>2

LEMMA OpeningSpeaks ==
  ASSUME NEW p \in Profiles
  PROVE  Speaks(p, Opening(p), 0)
<1>1. CASE p.api = "chat"
  BY <1>1, NothingRuns DEF Speaks, Opening
<1>2. CASE p.api # "chat"
  BY <1>2, OpeningOpen DEF Speaks, Open
<1> QED  BY <1>1, <1>2

LEMMA EventsTwice ==
  ASSUME NEW e \in Seq(Event), NEW t \in Seq(Event), NEW c \in Seq(Event)
  PROVE  (e \o t) \o c = e \o (t \o c)
OBVIOUS

\* What the detector releases is written to the message, then its calls are announced.
LEMMA ReleaseSpeaks ==
  ASSUME NEW q \in Request, NEW n \in 0 .. Len(q.held), NEW pieces \in Seq(Piece),
         q.profile.stream,
         Speaks(q.profile, q.events, q.calls)
  PROVE  Speaks(q.profile, Release(q, n, pieces).events, Release(q, n, pieces).calls)
<1> DEFINE p == q.profile
           t == TextDelta(p, Texts(pieces))
           new == CountCalls(pieces)
           c == CallEvents(p, q.calls, new)
           e == q.events
<1>1. q.calls \in Nat /\ p \in Profiles /\ e \in Seq(Event)
  BY DEF Request
<1>3. Release(q, n, pieces).events = e \o (t \o c) /\ Release(q, n, pieces).calls = q.calls + new
  BY DEF Release, Emit, Request
<1>4. new \in Nat
  BY CallsType
<1>5. t \in Seq(Event) /\ Continues(p, t, q.calls, 0)
  BY <1>1, EventTypes, TextContinues
<1> HIDE DEF new, t
<1>6. c \in Seq(Event) /\ Continues(p, c, q.calls, new)
  BY <1>1, <1>4, CallEventsType, CallsContinue
<1> HIDE DEF c, p, e
<1>7. e \o t \in Seq(Event) /\ q.calls + 0 = q.calls
  BY <1>1, <1>5
<1>8. Speaks(p, e \o t, q.calls)
  <2>1. Speaks(p, e \o t, q.calls + 0)
    <3>1. Speaks(p, e, q.calls) /\ 0 \in Nat
      BY DEF p, e
    <3> QED  BY <1>1, <1>5, <3>1, SpeaksOn
  <2> QED  BY <1>7, <2>1
<1>9. Speaks(p, (e \o t) \o c, q.calls + new)
  BY <1>1, <1>4, <1>6, <1>7, <1>8, SpeaksOn
<1>10. (e \o t) \o c = e \o (t \o c)
  BY <1>1, <1>5, <1>6, EventsTwice
<1>11. Speaks(p, Release(q, n, pieces).events, Release(q, n, pieces).calls)
  BY <1>3, <1>9, <1>10
<1> QED  BY <1>11 DEF p

LEMMA SilentRelease ==
  ASSUME NEW q \in Request, NEW n, NEW pieces, ~q.profile.stream
  PROVE  Release(q, n, pieces).events = q.events
BY DEF Release, Emit, Request

\* What is fed is held or passed on.
LEMMA FeedStreams ==
  ASSUME NEW q \in Request, Streamed(q), NEW x, Feeds(q, x), x.pc = "message"
  PROVE  Streamed(x)
<1>1. PICK piece \in Piece :
        LET fed == [q EXCEPT !.content = Append(@, piece)]
        IN  x \in IF Suppressed(fed) THEN {fed} ELSE OnChunk(fed, piece)
  BY DEF Feeds
<1> DEFINE fed == [q EXCEPT !.content = Append(@, piece)]
<1>2. /\ fed \in Request /\ fed.profile = q.profile /\ fed.events = q.events
      /\ fed.calls = q.calls
  <2>1. fed \in Request
    BY FedType
  <2> QED  BY <2>1 DEF Request
<1>3. x = fed \/ x \in OnChunk(fed, piece)
  BY <1>1
<1> HIDE DEF fed
<1>4. /\ ~fed.profile.stream => fed.events = <<>>
      /\ fed.profile.stream => Speaks(fed.profile, fed.events, fed.calls)
  BY <1>2 DEF Streamed, InProgress, Feeds
<1>5. CASE x = fed
  BY <1>2, <1>4, <1>5 DEF Streamed, InProgress
<1>6. CASE x \in OnChunk(fed, piece) /\ fed.profile.tools
  <2> DEFINE given == [fed EXCEPT !.held = Append(@, piece)]
  <2>1. PICK k \in 0 .. Len(given.held), pieces \in Seq(Piece) :
          /\ x = Release(given, k, pieces)
          /\ pieces \in Readings(SubSeq(given.held, 1, k), FALSE)
    BY <1>2, <1>6, ChunkReleases
  <2>2. /\ given \in Request /\ given.profile = fed.profile /\ given.events = fed.events
        /\ given.calls = fed.calls
    <3>1. given \in Request
      BY <1>2, FedType
    <3> QED  BY <1>2, <3>1 DEF Request
  <2> HIDE DEF given
  <2>3. x.profile = fed.profile
    BY <2>1, <2>2, ReleaseKeeps DEF Keeps
  <2>4. fed.profile.stream => Speaks(x.profile, x.events, x.calls)
    BY <1>4, <2>1, <2>2, <2>3, ReleaseSpeaks
  <2>5. ~fed.profile.stream => x.events = <<>>
    BY <1>4, <2>1, <2>2, SilentRelease
  <2> QED  BY <2>3, <2>4, <2>5 DEF Streamed, InProgress
<1>7. CASE x \in OnChunk(fed, piece) /\ ~fed.profile.tools
  <2> DEFINE t == TextDelta(fed.profile, <<piece>>)
  <2>1. x = [fed EXCEPT !.text = Append(@, piece), !.events = Emit(fed, t)]
    BY <1>7 DEF OnChunk
  <2>2. t \in Seq(Event) /\ Continues(fed.profile, t, fed.calls, 0)
        /\ fed.events \in Seq(Event) /\ fed.calls \in Nat /\ fed.profile \in Profiles
    BY <1>2, EventTypes, TextContinues DEF Request
  <2> HIDE DEF t
  <2>3. x.profile = fed.profile /\ x.calls = fed.calls /\ x.events = Emit(fed, t)
    BY <1>2, <2>1 DEF Request
  <2>4. ASSUME fed.profile.stream PROVE Speaks(x.profile, x.events, x.calls)
    <3>1. x.events = fed.events \o t
      BY <2>3, <2>4 DEF Emit
    <3>2. Speaks(fed.profile, fed.events \o t, fed.calls + 0)
      BY <1>4, <2>2, <2>4, SpeaksOn
    <3>3. fed.calls + 0 = fed.calls
      BY <2>2
    <3> QED  BY <2>3, <3>1, <3>2, <3>3
  <2>5. ~fed.profile.stream => x.events = <<>>
    BY <1>4, <2>3 DEF Emit
  <2> QED  BY <2>3, <2>4, <2>5 DEF Streamed, InProgress
<1> QED  BY <1>3, <1>5, <1>6, <1>7

\* An error ends the stream.
LEMMA ErrorEnds ==
  ASSUME NEW p \in Profiles, NEW e \in Seq(Event), NEW n \in Nat, Speaks(p, e, n)
  PROVE  LET d == Event1("error", "response", 0)
         IN  Over(e \o d) /\ (p.api # "chat" => WellFormed(e \o d))
<1> DEFINE d == Event1("error", "response", 0)
           m == MessageIndex(p)
           s == e \o d
<1>1. /\ d \in Seq(Event) /\ Len(d) = 1 /\ d[1].type = "error" /\ DOMAIN d = {1}
  BY Event1Type DEF Event1
<1> HIDE DEF d
<1>2. Over(e \o d)
  BY <1>1, OverOn DEF Speaks, Terminal
<1>3. ASSUME p.api # "chat" PROVE WellFormed(s)
  <2>1. m \in Nat /\ Open(e, m, n)
    BY <1>3 DEF Speaks, MessageIndex
  <2>2. WellFormed(e)
    BY <2>1, OpenWell
  <2>3. /\ DOMAIN e = 1 .. Len(e) /\ Len(e) \in Nat /\ DOMAIN s = 1 .. Len(e) + Len(d)
        /\ \A i \in 1 .. Len(e) : s[i] = e[i]
    BY <1>1, EventParts
  <2>4. \A i \in DOMAIN s : i \in DOMAIN e \/ s[i].type = "error"
    <3>1. \A i \in DOMAIN s : i \in DOMAIN e \/ (i - Len(e) \in DOMAIN d /\ s[i] = d[i - Len(e)])
      BY <1>1, EventParts
    <3> HIDE DEF s
    <3> QED  BY <1>1, <3>1
  <2> HIDE DEF s, m
  <2>5. ASSUME NEW i \in DOMAIN e
        PROVE  /\ s[i] = e[i] /\ Before(s, i, "added") = Before(e, i, "added")
               /\ Before(s, i, "done") = Before(e, i, "done")
               /\ \A j \in Before(e, i, "added") : s[j] = e[j]
               /\ e[i].type # "completed"
    <3>1. s[i] = e[i] /\ \A j \in 1 .. i - 1 : s[j] = e[j]
      BY <2>3
    <3>2. e[i].type # "completed"
      BY <2>1 DEF Open, Running, Terminal
    <3> QED  BY <3>1, <3>2 DEF Before
  <2> QED  BY <2>2, <2>4, <2>5 DEF WellFormed
<1> QED  BY <1>2, <1>3 DEF d

\* The end of an answer closes what is open.
LEMMA ClosingStreams ==
  ASSUME NEW q \in Request, ~q.profile.stream => q.events = <<>>,
         q.profile.stream => Speaks(q.profile, q.events, q.calls)
  PROVE  Streamed(Closing(q, q.calls))
<1> DEFINE x == Closing(q, q.calls)
           p == q.profile
           m == MessageIndex(p)
           e == q.events
           d == IF p.api = "chat" THEN ChatDone ELSE ResponsesDone(p)
<1>1. p \in Profiles /\ e \in Seq(Event) /\ q.calls \in Nat /\ m \in Nat
  BY DEF Request, MessageIndex
<1>2. /\ Keeps(q, x) /\ x.pc = "ended" /\ x.outcome = "completed" /\ x.calls = q.calls
      /\ x.output = OutputItems(q, q.calls)
  BY <1>1, ClosingKeeps
<1>3. x.events = Emit(q, d)
  BY DEF Closing, ChatClosing, ResponsesClosing, createCompletedResponse, Request
<1>4. d \in Seq(Event)
  BY <1>1, EventTypes
<1>5. Len(d) >= 1 /\ Terminal(d[Len(d)]) /\ \A i \in DOMAIN d : Terminal(d[i]) => i = Len(d)
  <2>1. CASE p.api = "chat"
    <3>1. Len(d) = 1 /\ DOMAIN d = {1} /\ d[1].type = "completed"
      BY <2>1 DEF ChatDone, Event1
    <3> HIDE DEF d
    <3> QED  BY <3>1 DEF Terminal
  <2>2. CASE p.api # "chat"
    <3>1. Closes(d, m)
      BY <1>1, <2>2, DoneCloses
    <3> HIDE DEF d, m
    <3> QED  BY <3>1 DEF Closes, Terminal
  <2> QED  BY <2>1, <2>2
<1>6. x.profile = p
  BY <1>2 DEF Keeps
<1>7. OutputItems(x, x.calls) = x.output
  BY <1>2 DEF OutputItems, Keeps
<1>8. ASSUME p.stream PROVE Spoken(x)
  <2>1. x.events = e \o d /\ Speaks(p, e, q.calls)
    BY <1>3, <1>8 DEF Emit
  <2> HIDE DEF x, d
  <2>2. Over(x.events)
    <3>1. Over(e \o d)
      <4> HIDE DEF e
      <4> QED  BY <1>1, <1>4, <1>5, <2>1, OverOn DEF Speaks
    <3> QED  BY <2>1, <3>1
  <2>3. ASSUME p.api # "chat" PROVE WellFormed(x.events) /\ Announced(x)
    <3>1. Closes(d, m) /\ Open(e, m, q.calls)
      BY <1>1, <2>1, <2>3, DoneCloses DEF d, Speaks
    <3> HIDE DEF e, m
    <3>2. /\ WellFormed(e \o d)
          /\ AddedOnce(e \o d) /\ AllAdded(e \o d, 0, m + q.calls)
          /\ \A i \in DOMAIN (e \o d) : (e \o d)[i].type = "added" =>
               /\ (e \o d)[i].index \in 0 .. m + q.calls
               /\ (e \o d)[i].item = ItemAt(m, (e \o d)[i].index)
      BY <1>1, <1>4, <3>1, ClosedWell
    <3>3. MessageIndex(x.profile) = m
      BY <1>6 DEF m
    <3> QED  BY <1>2, <1>7, <2>1, <3>2, <3>3 DEF Announced
  <2> QED  BY <1>6, <2>2, <2>3 DEF Spoken
<1>9. ~p.stream => x.events = <<>>
  BY <1>3 DEF Emit
<1> HIDE DEF x
<1>10. Streamed(x)
  BY <1>2, <1>6, <1>8, <1>9 DEF Streamed, InProgress
<1> QED  BY <1>10 DEF x

LEMMA StreamedMoves ==
  ASSUME NEW q \in Request, Streamed(q), Lossless(q), NEW x, Moves(q, x)
  PROVE  Streamed(x)
<1>1. ASSUME Commands(x) PROVE Streamed(x)
  <2>1. PICK p \in Profiles, turns \in Seq(Message) :
          x = Closing([Opened(p, turns) EXCEPT
                         !.text = <<"reply">>,
                         !.events = Emit(Opened(p, turns), TextDelta(p, <<"reply">>))], 0)
    BY <1>1 DEF Commands
  <2> DEFINE open == Opened(p, turns)
             t == TextDelta(p, <<"reply">>)
             reply == [open EXCEPT !.text = <<"reply">>, !.events = Emit(open, t)]
  <2>2. /\ open \in Request /\ open.profile = p /\ open.calls = 0
        /\ open.events = IF p.stream THEN Opening(p) ELSE <<>>
    BY OpenedType, OpenedFields
  <2>3. x = Closing(reply, 0)
    BY <2>1
  <2>4. t \in Seq(Event) /\ Opening(p) \in Seq(Event) /\ <<"reply">> \in Seq(Piece)
    BY EventTypes DEF Piece
  <2>5. Continues(p, t, 0, 0) /\ Speaks(p, Opening(p), 0)
    BY TextContinues, OpeningSpeaks
  <2> HIDE DEF open, t
  <2>6. Emit(open, t) \in Seq(Event)
    BY <2>2, <2>4, EmitType
  <2>7. reply \in Request /\ reply.profile = p /\ reply.calls = 0 /\ reply.events = Emit(open, t)
    BY <2>2, <2>4, <2>6 DEF Request
  <2> HIDE DEF reply
  <2>8. ~p.stream => reply.events = <<>>
    BY <2>2, <2>7 DEF Emit
  <2>9. ASSUME p.stream PROVE Speaks(p, reply.events, 0)
    <3>1. reply.events = Opening(p) \o t
      BY <2>2, <2>7, <2>9 DEF Emit
    <3>2. Speaks(p, Opening(p) \o t, 0 + 0)
      BY <2>4, <2>5, SpeaksOn
    <3> QED  BY <3>1, <3>2
  <2> QED  BY <2>3, <2>7, <2>8, <2>9, ClosingStreams
<1>2. ASSUME Queues(x) PROVE Streamed(x)
  <2>1. PICK p \in Profiles, turns \in Seq(Message), title \in Titles :
          x = [Opened(p, turns) EXCEPT !.pc = "queued", !.title = title]
    BY <1>2 DEF Queues
  <2> DEFINE open == Opened(p, turns)
  <2>2. /\ open \in Request /\ open.profile = p /\ open.calls = 0
        /\ open.events = IF p.stream THEN Opening(p) ELSE <<>>
    BY OpenedType, OpenedFields
  <2>3. x = [open EXCEPT !.pc = "queued", !.title = title]
    BY <2>1
  <2> HIDE DEF open
  <2>4. /\ x.pc = "queued" /\ x.profile = p /\ x.calls = 0
        /\ x.events = IF p.stream THEN Opening(p) ELSE <<>>
    BY <2>2, <2>3 DEF Request
  <2> QED  BY <2>4, OpeningSpeaks DEF Streamed
\* Steps that write nothing.
<1>3. ASSUME InProgress(q), x.pc \in {"message", "title"}, x.profile = q.profile,
             x.events = q.events, x.calls = q.calls
      PROVE  Streamed(x)
  BY <1>3 DEF Streamed, InProgress
<1>4. ASSUME Starts(q, x) \/ CallsTool(q, x) \/ Bounces(q, x) \/ AwaitsTitle(q, x) \/ GetsTitle(q, x)
      PROVE  Streamed(x)
  <2>1. CASE Starts(q, x)
    BY <1>3, <2>1 DEF Starts, InProgress, Request
  <2>2. CASE CallsTool(q, x)
    BY <1>3, <2>2 DEF CallsTool, InProgress, Request
  <2>3. CASE Bounces(q, x)
    BY <1>3, <2>3 DEF Bounces, Bounced, InProgress, Request
  <2>4. CASE AwaitsTitle(q, x)
    BY <1>3, <2>4 DEF AwaitsTitle, InProgress, Request
  <2>5. CASE GetsTitle(q, x)
    BY <1>3, <2>5 DEF GetsTitle, InProgress, Request
  <2> QED  BY <1>4, <2>1, <2>2, <2>3, <2>4, <2>5
<1>5. ASSUME Feeds(q, x) PROVE Streamed(x)
  <2>1. x.pc = "message"
    <3>1. Whole(q)
      BY <1>5 DEF Lossless, Feeds
    <3> QED  BY <1>5, <3>1, FeedWhole
  <2> QED  BY <1>5, <2>1, FeedStreams
<1>6. ASSUME Thinks(q, x) PROVE Streamed(x)
  <2> DEFINE t == ReasoningDelta(q.profile)
  <2>1. x = [q EXCEPT !.thinking = TRUE, !.events = Emit(q, t)] /\ q.pc = "message"
    BY <1>6 DEF Thinks
  <2>2. t \in Seq(Event) /\ Continues(q.profile, t, q.calls, 0)
        /\ q.events \in Seq(Event) /\ q.calls \in Nat /\ q.profile \in Profiles
    BY EventTypes, ReasoningContinues DEF Request
  <2> HIDE DEF t
  <2>3. /\ x.profile = q.profile /\ x.calls = q.calls /\ x.events = Emit(q, t)
        /\ x.pc = "message"
    BY <2>1 DEF Request
  <2>4. /\ ~q.profile.stream => q.events = <<>>
        /\ q.profile.stream => Speaks(q.profile, q.events, q.calls)
    BY <2>1 DEF Streamed, InProgress
  <2>5. ASSUME q.profile.stream PROVE Speaks(x.profile, x.events, x.calls)
    <3>1. x.events = q.events \o t
      BY <2>3, <2>5 DEF Emit
    <3>2. Speaks(q.profile, q.events \o t, q.calls + 0)
      BY <2>2, <2>4, <2>5, SpeaksOn
    <3>3. q.calls + 0 = q.calls
      BY <2>2
    <3> QED  BY <2>3, <3>1, <3>2, <3>3
  <2>6. ~q.profile.stream => x.events = <<>>
    BY <2>3, <2>4 DEF Emit
  <2> QED  BY <2>3, <2>5, <2>6 DEF Streamed, InProgress
<1>7. ASSUME Completes(q, x) PROVE Streamed(x)
  <2>1. PICK title \in Titles :
          LET final == Finalize([q EXCEPT !.title = title]) IN x = Closing(final, final.calls)
    BY <1>7 DEF Completes
  <2> DEFINE titled == [q EXCEPT !.title = title]
             final == Finalize(titled)
  <2>2. /\ titled \in Request /\ titled.profile = q.profile /\ titled.events = q.events
        /\ titled.calls = q.calls /\ titled.held \in Seq(Piece)
    BY DEF Request, Titles
  <2>3. x = Closing(final, final.calls)
    BY <2>1
  <2> HIDE DEF titled
  <2>4. Len(titled.held) \in 0 .. Len(titled.held) /\ final = Release(titled, Len(titled.held), titled.held)
    BY <2>2 DEF Finalize
  <2> HIDE DEF final
  <2>5. final \in Request /\ final.profile = q.profile
    BY <2>2, <2>4, ReleaseType, ReleaseKeeps DEF Keeps
  <2>6. /\ ~q.profile.stream => q.events = <<>>
        /\ q.profile.stream => Speaks(q.profile, q.events, q.calls)
    BY <1>7 DEF Completes, Streamed, InProgress
  <2>7. ~final.profile.stream => final.events = <<>>
    BY <2>2, <2>4, <2>5, <2>6, SilentRelease
  <2>8. final.profile.stream => Speaks(final.profile, final.events, final.calls)
    BY <2>2, <2>4, <2>5, <2>6, ReleaseSpeaks
  <2> QED  BY <2>3, <2>5, <2>7, <2>8, ClosingStreams
<1>8. ASSUME Breaks(q, x) PROVE Streamed(x)
  <2> DEFINE d == Event1("error", "response", 0)
  <2>1. /\ q.pc = "message" /\ Keeps(q, x) /\ x.pc = "ended" /\ x.outcome = "failed"
        /\ q.profile \in Profiles /\ q.events \in Seq(Event) /\ q.calls \in Nat
    BY <1>8, FailingKeeps DEF Breaks, Request
  <2>2. x.events = Emit(q, d)
    BY <1>8 DEF Breaks, Failing, ChatError, ResponsesError, Request
  <2>3. /\ ~q.profile.stream => q.events = <<>>
        /\ q.profile.stream => Speaks(q.profile, q.events, q.calls)
    BY <2>1 DEF Streamed, InProgress
  <2>4. x.profile = q.profile
    BY <2>1 DEF Keeps
  <2>5. ASSUME q.profile.stream PROVE Spoken(x)
    <3>1. Over(q.events \o d) /\ (q.profile.api # "chat" => WellFormed(q.events \o d))
      BY <2>1, <2>3, <2>5, ErrorEnds
    <3>2. x.events = q.events \o d
      BY <2>2, <2>5 DEF Emit
    <3> HIDE DEF d
    <3> QED  BY <2>1, <2>4, <3>1, <3>2 DEF Spoken
  <2> QED  BY <2>1, <2>2, <2>3, <2>4, <2>5 DEF Streamed, InProgress, Emit
<1>9. ASSUME Clears(q, x) PROVE Streamed(x)
  BY <1>9 DEF Clears, IdleRequest, Streamed, InProgress
<1> QED  BY <1>1, <1>2, <1>4, <1>5, <1>6, <1>7, <1>8, <1>9 DEF Moves

LEMMA NextStreamed ==
  PipelineOK /\ (\A r \in Slots : Streamed(request[r]) /\ Lossless(request[r])) /\ [Next]_vars
    => \A r \in Slots : Streamed(request'[r]) /\ Lossless(request'[r])
<1> SUFFICES ASSUME TypeOK, Waiting, [Next]_vars, NEW s \in Slots,
                    \A r \in Slots : Streamed(request[r]) /\ Lossless(request[r])
             PROVE  Lossless(request'[s]) /\ Streamed(request'[s])
  BY DEF PipelineOK
<1>1. CASE UNCHANGED <<request, queue, running>>
  BY <1>1
<1>2. ASSUME NEW r \in Slots, NEW x, Step(r, x)
      PROVE  Lossless(request'[s]) /\ Streamed(request'[s])
  <2>1. /\ request'[r] = x /\ x \in Request /\ request[r] \in Request
        /\ s # r => request'[s] = request[s]
    BY <1>2, StepAlone
  <2>2. Lossless(x) /\ Streamed(x)
    BY <1>2, <2>1, LosslessMoves, StreamedMoves DEF Step
  <2> QED  BY <2>1, <2>2
<1> QED  BY <1>1, <1>2, NextMoves

LEMMA StreamedLossless == Spec => [](\A r \in Slots : Streamed(request[r]) /\ Lossless(request[r]))
<1> DEFINE Inv == \A r \in Slots : Streamed(request[r]) /\ Lossless(request[r])
<1>1. Init => Inv
  <2> SUFFICES ASSUME Init, NEW r \in Slots PROVE Streamed(request[r]) /\ Lossless(request[r])
    OBVIOUS
  <2>1. request[r] = IdleRequest
    BY DEF Init
  <2> QED  BY <2>1 DEF Lossless, IdleRequest, Unanswered, Streamed, InProgress
<1>2. PipelineOK /\ Inv /\ [Next]_vars => Inv'
  BY NextStreamed
<1> HIDE DEF Inv
<1>3. Spec => []Inv
  BY <1>1, <1>2, PipelineAlways, PTL DEF Spec
<1> QED  BY <1>3 DEF Inv

\* StreamsAreWellFormed: in every streamed response each item is announced once under its own
\* index, is written to only while it is open and is closed when the response is completed,
\* and nothing follows the end: with any number of calls, wherever the detector cuts the
\* answer, after a bounce, a command or an error (events.ts:38-274).
THEOREM StreamsAreWellFormed == Spec => []StreamWellFormed
<1> DEFINE Inv == \A r \in Slots : Streamed(request[r]) /\ Lossless(request[r])
<1>1. PipelineOK /\ Inv => StreamWellFormed
  <2> SUFFICES ASSUME TypeOK, Inv, NEW r \in Slots
               PROVE  /\ \A i \in DOMAIN request[r].events :
                           Terminal(request[r].events[i]) => i = Len(request[r].events)
                      /\ request[r].pc = "ended" /\ request[r].profile.stream =>
                           request[r].events # <<>>
                           /\ Terminal(request[r].events[Len(request[r].events)])
                      /\ request[r].profile.api = "responses" => WellFormed(request[r].events)
    BY DEF PipelineOK, StreamWellFormed, WellFormed
  <2> DEFINE q == request[r]
             e == q.events
             m == MessageIndex(q.profile)
  <2>1. q \in Request /\ Streamed(q) /\ e \in Seq(Event) /\ q.calls \in Nat /\ m \in Nat
    BY DEF TypeOK, Request, MessageIndex
  <2>2. q.pc = "idle" \/ InProgress(q) \/ q.pc = "ended"
    BY <2>1 DEF Request, InProgress
  <2> HIDE DEF q
  <2>3. CASE e = <<>>
    <3>1. WellFormed(<<>>) /\ DOMAIN <<>> = {}
      BY DEF WellFormed
    <3>2. q.pc = "ended" /\ q.profile.stream => e # <<>>
      BY <2>1 DEF Streamed, Spoken, Over
    <3> QED  BY <2>3, <3>1, <3>2 DEF q
  <2>4. CASE InProgress(q) /\ q.profile.stream
    <3>1. Speaks(q.profile, e, q.calls)
      BY <2>1, <2>4 DEF Streamed
    <3> HIDE DEF e, m
    <3>2. q.profile.api = "responses" => WellFormed(e)
      BY <2>1, <3>1, OpenWell DEF Speaks, m
    <3>3. \A i \in DOMAIN e : ~Terminal(e[i])
      BY <3>1 DEF Speaks, Running
    <3> QED  BY <2>4, <3>2, <3>3 DEF q, e, InProgress
  <2>5. CASE q.pc = "ended" /\ q.profile.stream
    <3>1. Over(e) /\ (q.profile.api # "chat" => WellFormed(e))
      BY <2>1, <2>5 DEF Streamed, Spoken
    <3> QED  BY <3>1 DEF q, Over
  <2>6. e = <<>> \/ (InProgress(q) /\ q.profile.stream) \/ (q.pc = "ended" /\ q.profile.stream)
    BY <2>1, <2>2 DEF Streamed
  <2> QED  BY <2>3, <2>4, <2>5, <2>6
<1> HIDE DEF Inv
<1>2. Spec => []Inv
  BY StreamedLossless DEF Inv
<1> QED  BY <1>1, <1>2, PipelineAlways, PTL

LEMMA ConcatParts ==
  ASSUME NEW S, NEW s \in Seq(S), NEW t \in Seq(S)
  PROVE  /\ s \o t \in Seq(S) /\ Len(s \o t) = Len(s) + Len(t)
         /\ Len(s) \in Nat /\ Len(t) \in Nat
         /\ \A i \in 1 .. Len(s) : (s \o t)[i] = s[i]
         /\ \A i \in 1 .. Len(t) : (s \o t)[Len(s) + i] = t[i]
OBVIOUS

LEMMA OutputItemsAre ==
  ASSUME NEW q \in Request, HasReasoningItem(q.profile) => q.thinking,
         q.profile.api = "responses"
  PROVE  LET m == MessageIndex(q.profile)
             s == OutputItems(q, q.calls)
         IN  /\ Len(s) = m + q.calls + 1
             /\ \A k \in 0 .. m + q.calls : s[k + 1] = ItemAt(m, k)
<1> DEFINE Items == {"reasoning", "message", "call"}
           m == MessageIndex(q.profile)
           first == IF q.profile.reasoning /\ q.thinking THEN <<"reasoning">> ELSE <<>>
           message == <<"message">>
           calls == [i \in 1 .. q.calls |-> "call"]
<1>1. q.calls \in Nat
  BY DEF Request
<1>2. first \in Seq(Items) /\ message \in Seq(Items) /\ calls \in Seq(Items)
  <2>1. <<"message">> \in Seq(Items) /\ <<"reasoning">> \in Seq(Items) /\ <<>> \in Seq(Items)
    OBVIOUS
  <2>2. [i \in 1 .. q.calls |-> "call"] \in Seq(Items)
    BY <1>1
  <2> QED  BY <2>1, <2>2
<1>3. /\ Len(message) = 1 /\ message[1] = "message"
      /\ Len(calls) = q.calls /\ \A i \in 1 .. q.calls : calls[i] = "call"
  BY <1>1
<1>4. /\ m \in Nat /\ Len(first) = m /\ \A i \in 1 .. m : first[i] = "reasoning"
  BY DEF MessageIndex, HasReasoningItem
<1>5. OutputItems(q, q.calls) = (first \o message) \o calls
  BY DEF OutputItems
<1> HIDE DEF first, message, calls, m
<1> DEFINE u == first \o message
<1>6. /\ u \in Seq(Items) /\ Len(u) = m + 1 /\ \A i \in 1 .. m : u[i] = "reasoning"
      /\ u[m + 1] = "message"
  <2>1. /\ u \in Seq(Items) /\ Len(u) = Len(first) + Len(message)
        /\ \A i \in 1 .. Len(first) : u[i] = first[i]
        /\ \A i \in 1 .. Len(message) : u[Len(first) + i] = message[i]
    BY <1>2, ConcatParts
  <2> HIDE DEF u
  <2>2. 1 \in 1 .. Len(message)
    BY <1>3
  <2>3. u[m + 1] = "message"
    BY <1>3, <1>4, <2>1, <2>2
  <2> QED  BY <1>3, <1>4, <2>1, <2>3
<1> HIDE DEF u
<1> DEFINE s == u \o calls
<1>7. /\ Len(s) = m + 1 + q.calls /\ \A i \in 1 .. m + 1 : s[i] = u[i]
      /\ \A i \in 1 .. q.calls : s[(m + 1) + i] = "call"
  <2>1. /\ Len(s) = Len(u) + Len(calls)
        /\ \A i \in 1 .. Len(u) : s[i] = u[i]
        /\ \A i \in 1 .. Len(calls) : s[Len(u) + i] = calls[i]
    <3>1. u \in Seq(Items) /\ calls \in Seq(Items)
      BY <1>2, <1>6
    <3> HIDE DEF Items
    <3> QED  BY <3>1, ConcatParts
  <2> HIDE DEF s
  <2> QED  BY <1>1, <1>3, <1>6, <2>1
<1> HIDE DEF s
<1>8. ASSUME NEW k \in 0 .. m + q.calls PROVE s[k + 1] = ItemAt(m, k)
  <2>1. CASE k < m
    <3>1. k + 1 \in 1 .. m /\ k + 1 \in 1 .. m + 1 /\ k # m
      BY <1>1, <1>4, <2>1
    <3> QED  BY <1>6, <1>7, <2>1, <3>1 DEF ItemAt
  <2>2. CASE k = m
    <3>1. k + 1 = m + 1 /\ m + 1 \in 1 .. m + 1
      BY <1>4, <2>2
    <3> QED  BY <1>6, <1>7, <2>2, <3>1 DEF ItemAt
  <2>3. CASE k > m
    <3>1. k - m \in 1 .. q.calls /\ k + 1 = (m + 1) + (k - m) /\ k # m /\ ~(k < m)
      BY <1>1, <1>4, <2>3
    <3>2. s[(m + 1) + (k - m)] = "call"
      BY <1>7, <3>1
    <3> QED  BY <3>1, <3>2 DEF ItemAt
  <2> QED  BY <1>1, <1>4, <2>1, <2>2, <2>3
<1>9. OutputItems(q, q.calls) = s /\ Len(s) = m + q.calls + 1
  <2>1. Len(s) = m + q.calls + 1
    BY <1>1, <1>4, <1>7
  <2>2. OutputItems(q, q.calls) = s
    BY <1>5 DEF s, u
  <2> QED  BY <2>1, <2>2
<1> QED  BY <1>8, <1>9 DEF m

\* As many items are announced as there are indexes.
LEMMA AnnouncedCount ==
  ASSUME NEW e \in Seq(Event), NEW n \in Nat, AddedOnce(e), AllAdded(e, 0, n),
         \A i \in DOMAIN e : e[i].type = "added" => e[i].index \in 0 .. n
  PROVE  Cardinality({i \in DOMAIN e : e[i].type = "added"}) = n + 1
<1> DEFINE added == {i \in DOMAIN e : e[i].type = "added"}
           T == 0 .. n
           f == [i \in added |-> e[i].index]
<1>1. IsFiniteSet(added)
  <2>1. IsFiniteSet(1 .. Len(e)) /\ added \subseteq 1 .. Len(e)
    <3>1. Len(e) \in Nat /\ DOMAIN e = 1 .. Len(e)
      OBVIOUS
    <3> QED  BY <3>1, FS_Interval
  <2> HIDE DEF added
  <2> QED  BY <2>1, FS_Subset
<1>2. f \in [added -> T]
  OBVIOUS
<1>3. \A i, j \in added : f[i] = f[j] => i = j
  BY DEF AddedOnce
<1>4. \A k \in T : \E i \in added : f[i] = k
  BY DEF AllAdded
<1> HIDE DEF f, added
<1>5. f \in Surjection(added, T) /\ f \in Injection(added, T)
  BY <1>2, <1>3, <1>4 DEF Surjection, Injection, IsInjective
<1>6. Cardinality(T) = Cardinality(added)
  <2> HIDE DEF T
  <2> QED  BY <1>1, <1>5, FS_Surjection
<1>7. Cardinality(T) = n + 1
  BY FS_Interval
<1> QED  BY <1>6, <1>7 DEF added

\* OutputIsAsAnnounced: the object of a completed response lists exactly the items its events
\* announced, each at its output_index, with any number of tool calls
\* (request-handlers.ts:53-109, 192-217, 286-318).
THEOREM OutputIsAsAnnounced == Spec => []OutputAsAnnounced
<1> DEFINE Inv == \A r \in Slots : Streamed(request[r]) /\ Lossless(request[r])
<1>1. PipelineOK /\ (\A r \in Slots : Streamed(request[r]) /\ Lossless(request[r]))
        => OutputAsAnnounced
  <2> SUFFICES ASSUME TypeOK, NEW r \in Slots, Streamed(request[r]), Lossless(request[r]),
                      request[r].outcome = "completed",
                      request[r].profile.api = "responses", request[r].profile.stream,
                      HasReasoningItem(request[r].profile) => request[r].thinking
               PROVE  LET q == request[r]
                          added == {i \in DOMAIN q.events : q.events[i].type = "added"}
                      IN  /\ Cardinality(added) = Len(q.output)
                          /\ \A i \in added : q.output[q.events[i].index + 1] = q.events[i].item
    BY DEF PipelineOK, OutputAsAnnounced
  <2> DEFINE q == request[r]
             m == MessageIndex(q.profile)
             e == q.events
             added == {i \in DOMAIN e : e[i].type = "added"}
  <2>1. q \in Request /\ e \in Seq(Event) /\ q.calls \in Nat /\ m \in Nat
    BY DEF TypeOK, Request, MessageIndex
  <2>2. q.pc = "ended"
    BY DEF Lossless
  <2>3. Announced(q)
    <3>1. "responses" # "chat"
      OBVIOUS
    <3> QED  BY <2>2, <3>1 DEF Streamed, Spoken
  <2> HIDE DEF q
  <2>4. /\ \A i \in DOMAIN e : e[i].type = "added" =>
             e[i].index \in 0 .. m + q.calls /\ e[i].item = ItemAt(m, e[i].index)
        /\ AddedOnce(e) /\ AllAdded(e, 0, m + q.calls)
        /\ q.output = OutputItems(q, q.calls)
    BY <2>3 DEF Announced
  <2>5. /\ Len(q.output) = m + q.calls + 1
        /\ \A k \in 0 .. m + q.calls : q.output[k + 1] = ItemAt(m, k)
    <3>1. (HasReasoningItem(q.profile) => q.thinking) /\ q.profile.api = "responses"
      BY DEF q
    <3> QED  BY <2>1, <2>4, <3>1, OutputItemsAre
  <2> HIDE DEF e, m
  <2>6. Cardinality(added) = m + q.calls + 1
    <3>1. m + q.calls \in Nat
      BY <2>1
    <3> DEFINE n == m + q.calls
    <3> HIDE DEF n
    <3>2. Cardinality(added) = n + 1
      BY <2>1, <2>4, <3>1, AnnouncedCount DEF n
    <3> QED  BY <3>2 DEF n
  <2>7. \A i \in added : q.output[e[i].index + 1] = e[i].item
    BY <2>4, <2>5
  <2> QED  BY <2>5, <2>6, <2>7 DEF q, e
<1>2. Spec => []Inv
  BY StreamedLossless DEF Inv
<1> HIDE DEF Inv
<1>3. PipelineOK /\ Inv => OutputAsAnnounced
  BY <1>1 DEF Inv
<1> QED  BY <1>2, <1>3, PipelineAlways, PTL
-------------------------------------------------------------------------------
(* What the server promises *)

LEMMA PrefixIs ==
  ASSUME NEW S, NEW s \in Seq(S), NEW t \in Seq(S)
  PROVE  IsPrefix(s, s \o t) /\ IsPrefix(s, s) /\ IsPrefix(<<>>, s)
<1>1. Len(s) <= Len(s \o t) /\ SubSeq(s, 1, Len(s)) = SubSeq(s \o t, 1, Len(s))
  <2>1. Len(SubSeq(s, 1, Len(s))) = Len(s) /\ Len(SubSeq(s \o t, 1, Len(s))) = Len(s)
    OBVIOUS
  <2>2. \A i \in 1 .. Len(s) : SubSeq(s, 1, Len(s))[i] = SubSeq(s \o t, 1, Len(s))[i]
    OBVIOUS
  <2> QED  BY <2>1, <2>2
<1>2. Len(<<>>) <= Len(s) /\ SubSeq(<<>>, 1, Len(<<>>)) = SubSeq(s, 1, Len(<<>>))
  OBVIOUS
<1> QED  BY <1>1, <1>2 DEF IsPrefix

LEMMA OneChanged ==
  ASSUME NEW S, NEW f, NEW g, f = [s \in S |-> f[s]], g = [s \in S |-> g[s]],
         NEW r \in S, \A s \in S : s # r => g[s] = f[s]
  PROVE  g = [f EXCEPT ![r] = g[r]]
<1> DEFINE h == [f EXCEPT ![r] = g[r]]
<1>1. h = [s \in S |-> h[s]] /\ \A s \in S : h[s] = IF s = r THEN g[r] ELSE f[s]
  OBVIOUS
<1>2. \A s \in S : h[s] = g[s]
  BY <1>1
<1> HIDE DEF h
<1>3. [s \in S |-> h[s]] = [s \in S |-> g[s]]
  BY <1>2
<1>4. h = g
  BY <1>1, <1>3
<1> QED  BY <1>4 DEF h

LEMMA Mapped ==
  ASSUME TypeOK, NEW r \in Slots, NEW x, Step(r, x)
  PROVE  /\ State' = [State EXCEPT ![r] = StateOf(x)] /\ State'[r] = StateOf(x)
         /\ Topic' = [Topic EXCEPT ![r] = TopicOf(x)] /\ Topic'[r] = TopicOf(x)
         /\ Said' = [Said EXCEPT ![r] = x.text] /\ Said'[r] = x.text
         /\ StateOf(x) = StateOf(request[r]) => State' = State
         /\ TopicOf(x) = TopicOf(request[r]) => Topic' = Topic
         /\ x.text = request[r].text => Said' = Said
         /\ \A s \in Slots : /\ State[s] = StateOf(request[s])
                             /\ Topic[s] = TopicOf(request[s])
                             /\ Said[s] = request[s].text
<1>1. request'[r] = x /\ \A s \in Slots : s # r => request'[s] = request[s]
  BY StepAlone
<1>2. State = [s \in Slots |-> State[s]] /\ \A s \in Slots : State[s] = StateOf(request[s])
  BY DEF State
<1>3. Topic = [s \in Slots |-> Topic[s]] /\ \A s \in Slots : Topic[s] = TopicOf(request[s])
  BY DEF Topic
<1>4. Said = [s \in Slots |-> Said[s]] /\ \A s \in Slots : Said[s] = request[s].text
  BY DEF Said
<1>5. /\ State' = [s \in Slots |-> State'[s]]
      /\ \A s \in Slots : State'[s] = StateOf(request'[s])
  BY DEF State, StateOf
<1>6. /\ Topic' = [s \in Slots |-> Topic'[s]]
      /\ \A s \in Slots : Topic'[s] = TopicOf(request'[s])
  BY DEF Topic, TopicOf
<1>7. /\ Said' = [s \in Slots |-> Said'[s]]
      /\ \A s \in Slots : Said'[s] = request'[s].text
  BY DEF Said
<1>8. State' = [State EXCEPT ![r] = State'[r]]
  BY <1>1, <1>2, <1>5, OneChanged
<1>9. Topic' = [Topic EXCEPT ![r] = Topic'[r]]
  BY <1>1, <1>3, <1>6, OneChanged
<1>10. Said' = [Said EXCEPT ![r] = Said'[r]]
  BY <1>1, <1>4, <1>7, OneChanged
<1>11. State'[r] = StateOf(x) /\ Topic'[r] = TopicOf(x) /\ Said'[r] = x.text
  BY <1>1, <1>5, <1>6, <1>7
<1>12. StateOf(x) = StateOf(request[r]) => State' = State
  BY <1>2, <1>8, <1>11
<1>13. TopicOf(x) = TopicOf(request[r]) => Topic' = Topic
  BY <1>3, <1>9, <1>11
<1>14. x.text = request[r].text => Said' = Said
  BY <1>4, <1>10, <1>11
<1> QED  BY <1>2, <1>3, <1>4, <1>8, <1>9, <1>10, <1>11, <1>12, <1>13, <1>14

\* What a step of a request adds to its text.
Adds(q, x) == \E t \in Seq(Piece) : x.text = q.text \o t

LEMMA ReleaseAdds ==
  ASSUME NEW q \in Request, NEW n \in 0 .. Len(q.held), NEW pieces \in Seq(Piece)
  PROVE  Adds(q, Release(q, n, pieces))
<1>2. Texts(pieces) \in Seq(Piece)
  BY TextsType
<1>3. Release(q, n, pieces).text = q.text \o Texts(pieces)
  BY DEF Release, Request
<1> QED  BY <1>2, <1>3 DEF Adds

LEMMA SameAdds ==
  ASSUME NEW q \in Request, NEW x, x.text = q.text
  PROVE  Adds(q, x)
<1>1. q.text \in Seq(Piece) /\ <<>> \in Seq(Piece)
  BY DEF Request
<1>2. q.text = q.text \o <<>>
  BY <1>1
<1> QED  BY <1>1, <1>2 DEF Adds

LEMMA ChunkAdds ==
  ASSUME NEW q \in Request, NEW piece \in Piece, NEW x \in OnChunk(q, piece)
  PROVE  Adds(q, x)
<1>1. CASE q.profile.tools
  <2> DEFINE fed == [q EXCEPT !.held = Append(@, piece)]
  <2>1. PICK n \in 0 .. Len(fed.held), pieces \in Seq(Piece) :
          /\ x = Release(fed, n, pieces)
          /\ pieces \in Readings(SubSeq(fed.held, 1, n), FALSE)
    BY <1>1, ChunkReleases
  <2>2. fed \in Request /\ fed.text = q.text
    BY FedType DEF Request
  <2> HIDE DEF fed
  <2> QED  BY <2>1, <2>2, ReleaseAdds DEF Adds
<1>2. CASE ~q.profile.tools
  <2>1. x = [q EXCEPT !.text = Append(@, piece),
                      !.events = Emit(q, TextDelta(q.profile, <<piece>>))]
    BY <1>2 DEF OnChunk
  <2>2. q.text \in Seq(Piece) /\ x.text = Append(q.text, piece)
    BY <2>1 DEF Request
  <2>3. x.text = q.text \o <<piece>> /\ <<piece>> \in Seq(Piece)
    BY <2>2, AppendIsConcat
  <2> QED  BY <2>3 DEF Adds
<1> QED  BY <1>1, <1>2

\* An answer that is over was completed or refused; before it begins nothing is said.
Says(q, x) ==
  /\ q.pc # "ended" => Adds(q, x)
  /\ q.pc = "queued" \/ (x.pc = "ended" /\ x.outcome = "failed") => x.text = q.text
  /\ x.pc \in {"idle", "queued"} => x.text = <<>>
  /\ x.pc = "ended" => x.outcome \in {"completed", "failed"}
OutcomeKnown(q) == q.pc = "ended" => q.outcome \in {"completed", "failed"}

LEMMA FreshSays ==
  ASSUME NEW q \in Request, q.pc = "idle", Lossless(q), NEW x \in Request, Commands(x) \/ Queues(x)
  PROVE  Says(q, x)
<1>1. q.text = <<>> /\ x.text \in Seq(Piece)
  BY DEF Lossless, Unanswered, Request
<1>2. Adds(q, x)
  <2>1. x.text = <<>> \o x.text
    BY <1>1
  <2> QED  BY <1>1, <2>1 DEF Adds
<1>3. ASSUME Queues(x) PROVE x.pc = "queued" /\ x.text = <<>>
  <2>1. PICK p \in Profiles, turns \in Seq(Message), title \in Titles :
          x = [Opened(p, turns) EXCEPT !.pc = "queued", !.title = title]
    BY <1>3 DEF Queues
  <2> DEFINE open == Opened(p, turns)
  <2>2. open \in Request /\ Unanswered(open) /\ x = [open EXCEPT !.pc = "queued", !.title = title]
    BY <2>1, OpenedType, OpenedFields
  <2> HIDE DEF open
  <2> QED  BY <2>2 DEF Request, Unanswered
<1>4. ASSUME Commands(x) PROVE x.pc = "ended" /\ x.outcome = "completed"
  <2>1. PICK p \in Profiles, turns \in Seq(Message) :
          x = Closing([Opened(p, turns) EXCEPT
                         !.text = <<"reply">>,
                         !.events = Emit(Opened(p, turns), TextDelta(p, <<"reply">>))], 0)
    BY <1>4 DEF Commands
  <2> DEFINE open == Opened(p, turns)
             reply == [open EXCEPT !.text = <<"reply">>,
                                   !.events = Emit(open, TextDelta(p, <<"reply">>))]
  <2>2. open \in Request /\ x = Closing(reply, 0)
    BY <2>1, OpenedType
  <2> HIDE DEF open
  <2>3. Emit(open, TextDelta(p, <<"reply">>)) \in Seq(Event) /\ <<"reply">> \in Seq(Piece)
    BY <2>2, EventTypes, EmitType DEF Piece
  <2>4. reply \in Request
    BY <2>2, <2>3 DEF Request
  <2> HIDE DEF reply
  <2> QED  BY <2>2, <2>4, ClosingKeeps
<1> QED  BY <1>2, <1>3, <1>4 DEF Says

LEMMA MovesSays ==
  ASSUME NEW q \in Request, Lossless(q), OutcomeKnown(q), NEW x, Moves(q, x)
  PROVE  Says(q, x)
<1>0. x \in Request
  BY MovesType
<1>1. ASSUME x = q PROVE Says(q, x)
  BY <1>1, SameAdds DEF Says, OutcomeKnown, Lossless, Unanswered
<1>2. ASSUME q.pc = "idle", Commands(x) \/ Queues(x) PROVE Says(q, x)
  BY <1>0, <1>2, FreshSays
<1>3. ASSUME x.text = q.text, x.pc \in {"message", "title"} \/ (x.pc = "ended" /\ x.outcome = "failed")
      PROVE  Says(q, x)
  BY <1>3, SameAdds DEF Says
<1>4. ASSUME Starts(q, x) PROVE Says(q, x)
  <2>1. x.text = q.text /\ x.pc = "message"
    BY <1>4 DEF Starts, Request
  <2> QED  BY <1>3, <2>1
<1>5. ASSUME Feeds(q, x) PROVE Says(q, x)
  <2>1. PICK piece \in Piece :
          LET fed == [q EXCEPT !.content = Append(@, piece)]
          IN  x \in IF Suppressed(fed) THEN {fed} ELSE OnChunk(fed, piece)
    BY <1>5 DEF Feeds
  <2> DEFINE fed == [q EXCEPT !.content = Append(@, piece)]
  <2>2. fed \in Request /\ fed.text = q.text /\ fed.pc = "message"
    BY <1>5, FedType DEF Request, Feeds
  <2>3. x = fed \/ x \in OnChunk(fed, piece)
    BY <2>1
  <2> HIDE DEF fed
  <2>4. Adds(fed, x) /\ x.pc = "message"
    BY <2>2, <2>3, SameAdds, ChunkAdds, OnChunkKeeps
  <2> QED  BY <1>5, <2>2, <2>4 DEF Says, Adds, Feeds
<1>6. ASSUME Thinks(q, x) PROVE Says(q, x)
  <2>1. x.text = q.text /\ x.pc = "message"
    BY <1>6 DEF Thinks, Request
  <2> QED  BY <1>3, <2>1
<1>7. ASSUME CallsTool(q, x) PROVE Says(q, x)
  <2>1. x.text = q.text /\ x.pc = "message"
    BY <1>7 DEF CallsTool, Request
  <2> QED  BY <1>3, <2>1
<1>8. ASSUME Bounces(q, x) PROVE Says(q, x)
  <2>1. x.text = q.text /\ x.pc = "message"
    BY <1>8 DEF Bounces, Bounced, Request
  <2> QED  BY <1>3, <2>1
<1>9. ASSUME AwaitsTitle(q, x) PROVE Says(q, x)
  <2>1. x.text = q.text /\ x.pc = "title"
    BY <1>9 DEF AwaitsTitle, Request
  <2> QED  BY <1>3, <2>1
<1>10. ASSUME GetsTitle(q, x) PROVE Says(q, x)
  <2>1. x.text = q.text /\ x.pc \in {"message", "title"}
    BY <1>10 DEF GetsTitle, Request
  <2> QED  BY <1>3, <2>1
<1>11. ASSUME Completes(q, x) PROVE Says(q, x)
  <2>1. PICK title \in Titles :
          LET final == Finalize([q EXCEPT !.title = title]) IN x = Closing(final, final.calls)
    BY <1>11 DEF Completes
  <2> DEFINE titled == [q EXCEPT !.title = title]
             final == Finalize(titled)
  <2>2. titled \in Request /\ titled.text = q.text /\ titled.held \in Seq(Piece)
    BY DEF Request, Titles
  <2>3. x = Closing(final, final.calls)
    BY <2>1
  <2> HIDE DEF titled
  <2>4. Len(titled.held) \in 0 .. Len(titled.held)
    BY <2>2
  <2>5. final \in Request /\ Adds(titled, final)
    BY <2>2, <2>4, ReleaseType, ReleaseAdds DEF Finalize
  <2> HIDE DEF final
  <2>6. x.text = final.text /\ x.pc = "ended" /\ x.outcome = "completed"
    BY <2>3, <2>5, ClosingKeeps
  <2> QED  BY <1>11, <2>2, <2>5, <2>6 DEF Says, Adds, Completes
<1>12. ASSUME Breaks(q, x) PROVE Says(q, x)
  <2>1. x.text = q.text /\ x.pc = "ended" /\ x.outcome = "failed"
    BY <1>12, FailingKeeps DEF Breaks, Failing, Request
  <2> QED  BY <1>3, <2>1
<1>13. ASSUME Clears(q, x) PROVE Says(q, x)
  BY <1>13 DEF Clears, IdleRequest, Says
<1> QED  BY <1>1, <1>2, <1>4, <1>5, <1>6, <1>7, <1>8, <1>9, <1>10, <1>11, <1>12, <1>13 DEF Moves

LEMMA SpeaksOf ==
  ASSUME TypeOK, NEW r \in Slots, NEW x, Step(r, x), Adds(request[r], x)
  PROVE  Promised!Speaks(r)
<1>1. PICK t \in Seq(Piece) : x.text = request[r].text \o t
  BY DEF Adds
<1>2. request[r].text \in Seq(Piece)
  BY StepAlone DEF Request
<1>3. IsPrefix(request[r].text, x.text)
  BY <1>1, <1>2, PrefixIs
<1>4. Said[r] = request[r].text /\ Said'[r] = x.text /\ Said' = [Said EXCEPT ![r] = x.text]
  BY Mapped
<1> QED  BY <1>3, <1>4 DEF Promised!Speaks, Promised!IsPrefix, IsPrefix

\* The log of a conversation a request adds to, or of none.
LEMMA LogIs ==
  ASSUME TypeOK, NEW c, NEW s \in Seq(Message),
         \A d \in Conversations :
           stored'[d].messages = IF d = c THEN stored[d].messages \o s ELSE stored[d].messages
  PROVE  /\ Promised!Logs(c)
         /\ c \in Conversations => Log[c] = stored[c].messages /\ Log'[c] = stored[c].messages \o s
<1>1. Log = [d \in Conversations |-> Log[d]] /\ \A d \in Conversations : Log[d] = stored[d].messages
  BY DEF Log
<1>2. /\ Log' = [d \in Conversations |-> Log'[d]]
      /\ \A d \in Conversations : Log'[d] = stored'[d].messages
  BY DEF Log
<1>3. CASE c \in Conversations
  <2>1. stored[c].messages \in Seq(Message)
    BY <1>3 DEF TypeOK
  <2>2. Log'[c] = stored[c].messages \o s /\ Log[c] = stored[c].messages
    BY <1>1, <1>2, <1>3
  <2>3. IsPrefix(Log[c], Log'[c])
    BY <2>1, <2>2, PrefixIs
  <2>4. \A d \in Conversations : d # c => Log'[d] = Log[d]
    BY <1>1, <1>2
  <2>5. Log' = [Log EXCEPT ![c] = Log'[c]]
    BY <1>1, <1>2, <1>3, <2>4, OneChanged
  <2> QED  BY <1>3, <2>2, <2>3, <2>5 DEF Promised!Logs, Promised!IsPrefix, IsPrefix
<1>4. CASE c \notin Conversations
  <2>1. \A d \in Conversations : Log'[d] = Log[d]
    BY <1>1, <1>2, <1>4
  <2>2. [d \in Conversations |-> Log'[d]] = [d \in Conversations |-> Log[d]]
    BY <2>1
  <2>3. Log' = Log
    BY <1>1, <1>2, <2>2
  <2> QED  BY <1>4, <2>3 DEF Promised!Logs
<1> QED  BY <1>3, <1>4

LEMMA StartPromised ==
  ASSUME TypeOK, Waiting, \A r \in Slots : Lossless(request[r]) /\ OutcomeKnown(request[r]), StartJob
  PROVE  Promised!Next
<1> DEFINE r == Head(queue)
<1>1. r \in Slots /\ UNCHANGED stored
  BY StartMoves
<1>2. PICK x : /\ Step(r, x) /\ request[r].pc = "queued" /\ x.pc = "message"
               /\ x.profile = request[r].profile
  BY StartMoves
<1>3. running = Nobody /\ queue # <<>> /\ queue' = Tail(queue)
  BY DEF StartJob
<1> HIDE DEF r
<1>4. /\ State' = [State EXCEPT ![r] = StateOf(x)] /\ StateOf(x) = "answering"
      /\ TopicOf(x) = TopicOf(request[r])
  BY <1>1, <1>2, Mapped DEF StateOf, TopicOf
<1>5. x.text = request[r].text
  <2>1. Says(request[r], x)
    BY <1>1, <1>2, StepAlone, MovesSays DEF Step
  <2> QED  BY <1>2, <2>1 DEF Says
<1>6. Topic' = Topic /\ Said' = Said
  BY <1>1, <1>2, <1>4, <1>5, Mapped
<1>7. \A s \in Slots : State[s] # "answering"
  <2> SUFFICES ASSUME NEW s \in Slots PROVE StateOf(request[s]) # "answering"
    BY <1>1, <1>2, Mapped
  <2>1. request[s].pc \notin {"message", "title"} /\ request[s] \in Request
    BY <1>3, BoundsOK DEF Waiting, TypeOK
  <2> QED  BY <2>1 DEF StateOf, Request
<1>8. Log' = Log
  BY <1>1 DEF Log
<1>9. Promised!Begin
  BY <1>3, <1>4, <1>6, <1>7, <1>8 DEF Promised!Begin, Promised!Turns, r
<1> QED  BY <1>9 DEF Promised!Next

LEMMA LeavePromised ==
  ASSUME TypeOK, NEW r \in Slots, OutcomeKnown(request[r]), ClientReads(r)
  PROVE  Promised!Next
<1>1. Step(r, IdleRequest) /\ request[r].pc = "ended" /\ UNCHANGED <<queue, stored>>
  BY ClientMoves DEF ClientReads
<1>2. /\ StateOf(IdleRequest) = "free" /\ TopicOf(IdleRequest) = Stateless
      /\ IdleRequest.text = <<>> /\ StateOf(request[r]) \in {"completed", "failed"}
  BY <1>1 DEF IdleRequest, StateOf, TopicOf, OutcomeKnown
<1>3. Log' = Log
  BY <1>1 DEF Log
<1>4. Promised!Leave(r)
  BY <1>1, <1>2, <1>3, Mapped DEF Promised!Leave, Promised!Turns
<1> QED  BY <1>4 DEF Promised!Next

LEMMA OnPromised ==
  ASSUME TypeOK, NEW r \in Slots, Lossless(request[r]), OutcomeKnown(request[r]), NEW x, Step(r, x),
         request[r].pc \in {"message", "title"},
         x.pc \in {"message", "title"} \/ (x.pc = "ended" /\ x.outcome = "failed"),
         x.profile = request[r].profile, UNCHANGED stored
  PROVE  Promised!Next
<1>1. Says(request[r], x)
  BY StepAlone, MovesSays DEF Step
<1>2. Promised!Speaks(r)
  BY <1>1, SpeaksOf DEF Says
<1>3. TopicOf(x) = TopicOf(request[r]) /\ StateOf(request[r]) = "answering"
  BY DEF TopicOf, StateOf
<1>4. Log' = Log
  BY DEF Log
<1>5. queue' = queue
  BY DEF Step, Places
<1>6. CASE x.pc \in {"message", "title"}
  <2>1. StateOf(x) = "answering"
    BY <1>6 DEF StateOf
  <2>2. Promised!Say(r)
    BY <1>2, <1>3, <1>4, <1>5, <2>1, Mapped DEF Promised!Say
  <2> QED  BY <2>2 DEF Promised!Next
<1>7. CASE x.pc = "ended" /\ x.outcome = "failed"
  <2>1. StateOf(x) = "failed" /\ x.text = request[r].text
    BY <1>1, <1>7 DEF StateOf, Says
  <2>2. Promised!Refuse(r)
    BY <1>3, <1>4, <1>5, <2>1, Mapped DEF Promised!Refuse, Promised!Turns
  <2> QED  BY <2>2 DEF Promised!Next
<1> QED  BY <1>6, <1>7

LEMMA AnswerPromised ==
  ASSUME TypeOK, NEW r \in Slots, Lossless(request[r]), OutcomeKnown(request[r]),
         NEW title \in Titles, Finishes(r, title)
  PROVE  Promised!Next
<1> DEFINE q == request[r]
           c == q.profile.conversation
           titled == [q EXCEPT !.title = title]
<1>1. PICK final \in Request :
        /\ Step(r, Closing(final, final.calls))
        /\ Keeps(titled, final)
        /\ stored' = PersistAssistantTurn(PersistTitle(stored, final), final)
  BY FinishMoves DEF Finishes
<1> DEFINE x == Closing(final, final.calls)
<1>2. q \in Request /\ q.pc \in {"message", "title"}
  BY DEF TypeOK, Finishes
<1>3. x.pc = "ended" /\ x.outcome = "completed" /\ x.profile = final.profile
  BY ClosingKeeps DEF Keeps
<1>4. final.profile = q.profile
  <2>1. titled.profile = q.profile
    BY <1>2 DEF Request
  <2> QED  BY <1>1, <2>1 DEF Keeps
<1>5. Step(r, x)
  BY <1>1
<1> HIDE DEF x
<1>6. /\ StateOf(x) = "completed" /\ StateOf(q) = "answering" /\ TopicOf(x) = TopicOf(q)
      /\ TopicOf(q) = c
  BY <1>2, <1>3, <1>4 DEF StateOf, TopicOf
<1>7. Promised!Speaks(r)
  <2>1. Says(q, x)
    BY <1>2, <1>5, MovesSays DEF Step
  <2> QED  BY <1>2, <1>5, <2>1, SpeaksOf DEF Says
<1> DEFINE s1 == PersistTitle(stored, final)
<1>8. /\ s1 \in [Conversations -> [messages : Seq(Message),
                                   title : {"untitled", "generated", "manual"}]]
      /\ \A d \in Conversations : s1[d].messages = stored[d].messages
  BY DEF PersistTitle, TypeOK
<1>9. stored' = IF c \notin Conversations \/ final.calls > 0 THEN s1
                ELSE [s1 EXCEPT ![c].messages = Append(@, Assistant(final.content))]
  BY <1>1, <1>4 DEF PersistAssistantTurn, Stateful
<1> HIDE DEF s1
<1>10. PICK new \in Seq(Message) :
         /\ Len(new) <= 1
         /\ \A d \in Conversations :
              stored'[d].messages = IF d = c THEN stored[d].messages \o new ELSE stored[d].messages
  <2>1. CASE c \notin Conversations \/ final.calls > 0
    <3>1. \A d \in Conversations : stored[d].messages \in Seq(Message)
      BY DEF TypeOK
    <3>2. \A s \in Seq(Message) : s \o <<>> = s
      OBVIOUS
    <3>3. <<>> \in Seq(Message) /\ Len(<<>>) <= 1
      OBVIOUS
    <3> QED  BY <1>8, <1>9, <2>1, <3>1, <3>2, <3>3
  <2>2. CASE c \in Conversations /\ ~(final.calls > 0)
    <3> DEFINE m == Assistant(final.content)
    <3>1. m \in Message /\ <<m>> \in Seq(Message) /\ Len(<<m>>) <= 1
      BY DEF Assistant, Message, Request
    <3> HIDE DEF m
    <3>2. stored[c].messages \in Seq(Message)
      BY <2>2 DEF TypeOK
    <3>3. Append(stored[c].messages, m) = stored[c].messages \o <<m>>
      <4> DEFINE s == stored[c].messages
      <4>1. s \in Seq(Message)
        BY <3>2
      <4> HIDE DEF s
      <4>2. Append(s, m) = s \o <<m>>
        BY <3>1, <4>1
      <4> QED  BY <4>2 DEF s
    <3>4. stored' = [s1 EXCEPT ![c].messages = Append(@, m)]
      BY <1>9, <2>2 DEF m
    <3>5. \A d \in Conversations :
            stored'[d].messages = IF d = c THEN Append(stored[d].messages, m)
                                  ELSE stored[d].messages
      BY <1>8, <2>2, <3>4
    <3> QED  BY <3>1, <3>3, <3>5
  <2> QED  BY <2>1, <2>2
<1>11. /\ Promised!Logs(c)
       /\ c \in Conversations => Log[c] = stored[c].messages /\ Log'[c] = stored[c].messages \o new
  BY <1>10, LogIs
<1>12. c \in Conversations => Len(Log'[c]) <= Len(Log[c]) + 1
  <2> SUFFICES ASSUME c \in Conversations PROVE Len(Log'[c]) <= Len(Log[c]) + 1
    OBVIOUS
  <2>1. stored[c].messages \in Seq(Message)
    BY DEF TypeOK
  <2>2. Len(stored[c].messages \o new) <= Len(stored[c].messages) + 1
    BY <1>10, <2>1
  <2> QED  BY <1>11, <2>2
<1>13. queue' = queue
  BY <1>2, <1>3, <1>5 DEF Step, Places
<1>14. /\ State[r] = "answering" /\ State' = [State EXCEPT ![r] = "completed"]
       /\ Topic[r] = c /\ Topic' = Topic
  BY <1>5, <1>6, Mapped
<1>15. Promised!Answer(r)
  <2> HIDE DEF c
  <2> QED  BY <1>7, <1>11, <1>12, <1>13, <1>14 DEF Promised!Answer, Promised!Turns
<1> QED  BY <1>15 DEF Promised!Next

\* A request comes in with what is new of its conversation.
LEMMA ReceivePromised ==
  ASSUME TypeOK, NEW r \in Slots, Lossless(request[r]), OutcomeKnown(request[r]),
         NEW p \in Profiles, NEW turns \in Seq(Message), Receive(r, p, turns)
  PROVE  Promised!Next
<1>1. PICK x : Received(r, p, turns, x)
  BY ReceiveMoves
<1> DEFINE c == p.conversation
           open == Opened(p, turns)
           after == IF c \in Conversations THEN AppendMessages(c, turns) ELSE stored
<1>2. /\ Step(r, x) /\ x.profile = p
      /\ x.pc = "queued" \/ (x.pc = "ended" /\ x.outcome = "completed")
  BY <1>1 DEF Received
<1>3. /\ request[r].pc = "idle"
      /\ c \in Conversations => \A s \in Slots :
           request[s].pc = "idle" \/ request[s].profile.conversation # c
      /\ IF IsCommand(turns) THEN AnswerCommand(r, open, after) ELSE AddToQueue(r, open, after)
  <2>1. Stateful([IdleRequest EXCEPT !.profile = p, !.turns = turns]) = (c \in Conversations)
    BY DEF Stateful, IdleRequest
  <2> QED  BY <2>1 DEF Receive, Opened
<1>4. PICK new \in Seq(Message) : \A d \in Conversations :
        stored'[d].messages = IF d = c THEN stored[d].messages \o new ELSE stored[d].messages
  <2>1. open.profile = p
    BY OpenedFields
  <2> HIDE DEF open
  <2>2. after \in [Conversations -> [messages : Seq(Message),
                                     title : {"untitled", "generated", "manual"}]]
    BY AppendType DEF TypeOK
  <2> DEFINE known == stored[c].messages
             new == IF c \in Conversations THEN findNewMessages(SemanticIds(turns), known) ELSE <<>>
  <2>3. new \in Seq(Message)
    <3>1. CASE c \in Conversations
      <4>1. known \in Seq(Message) /\ SemanticIds(turns) \in Seq(Message)
        BY <3>1, SemanticIdsType DEF TypeOK
      <4> DEFINE ids == SemanticIds(turns)
      <4>2. findNewMessages(ids, known)
              = SubSeq(ids, Len(ids) - Len(findNewMessages(ids, known)) + 1, Len(ids))
        BY <4>1, OnlyStoredDropped
      <4>3. MatchedCount(ids, known) \in Nat
        BY <4>1, MatchedIsCount DEF Compared
      <4> HIDE DEF ids, known
      <4>4. findNewMessages(ids, known) \in Seq(Message)
        BY <4>1, <4>3 DEF findNewMessages, ids
      <4> QED  BY <3>1, <4>4 DEF ids
    <3>2. CASE c \notin Conversations
      BY <3>2
    <3> QED  BY <3>1, <3>2
  <2>4. \A d \in Conversations :
          after[d].messages = IF d = c THEN stored[d].messages \o new ELSE stored[d].messages
    BY DEF AppendMessages, TypeOK
  <2>5. stored' = after \/ stored' = [after EXCEPT ![c].title = "manual"]
    BY <1>3, <2>1 DEF AnswerCommand, AddToQueue
  <2> HIDE DEF c, after, new
  <2>6. ASSUME NEW d \in Conversations PROVE stored'[d].messages = after[d].messages
    <3>1. CASE stored' = after
      BY <3>1
    <3>2. CASE stored' = [after EXCEPT ![c].title = "manual"]
      BY <2>2, <3>2
    <3> QED  BY <2>5, <3>1, <3>2
  <2> QED  BY <2>3, <2>4, <2>6 DEF c
<1>5. Promised!Logs(c)
  BY <1>4, LogIs
<1>6. Says(request[r], x)
  BY <1>2, StepAlone, MovesSays DEF Step
<1>7. c \in Conversations \cup {Stateless}
  BY ProfilesOK DEF ProfileOK
<1>8. StateOf(request[r]) = "free" /\ TopicOf(x) = c
  BY <1>2, <1>3 DEF StateOf, TopicOf
<1>9. c \in Conversations => \A s \in Slots : State[s] = "free" \/ Topic[s] # c
  BY <1>2, <1>3, Mapped DEF StateOf, TopicOf
<1>10. Promised!Opens(r, c)
  <2> HIDE DEF c
  <2> QED  BY <1>2, <1>5, <1>8, <1>9, Mapped DEF Promised!Opens
<1>11. CASE x.pc = "queued"
  <2>1. StateOf(x) = "waiting" /\ queue' = Append(queue, r)
    BY <1>2, <1>3, <1>11 DEF StateOf, Step, Places
  <2>2. x.text = request[r].text
    BY <1>3, <1>6, <1>11 DEF Says, Lossless, Unanswered
  <2>3. Promised!Ask(r, c)
    <3> HIDE DEF c
    <3> QED  BY <1>2, <1>10, <2>1, <2>2, Mapped DEF Promised!Ask, Promised!Turns
  <2> QED  BY <1>7, <2>3 DEF Promised!Next
<1>12. CASE x.pc = "ended" /\ x.outcome = "completed"
  <2>1. StateOf(x) = "completed" /\ queue' = queue
    BY <1>2, <1>3, <1>12 DEF StateOf, Step, Places
  <2>2. Promised!Speaks(r)
    BY <1>2, <1>3, <1>6, SpeaksOf DEF Says
  <2>3. Promised!Command(r, c)
    <3> HIDE DEF c
    <3> QED  BY <1>2, <1>10, <2>1, <2>2, Mapped DEF Promised!Command, Promised!Turns
  <2> QED  BY <1>7, <2>3 DEF Promised!Next
<1> QED  BY <1>2, <1>11, <1>12

LEMMA NextPromised ==
  ASSUME PipelineOK, \A r \in Slots : Lossless(request[r]) /\ OutcomeKnown(request[r]), [Next]_vars
  PROVE  [Promised!Next]_(Promised!vars)
<1>0. TypeOK /\ Waiting
  BY DEF PipelineOK
<1>1. CASE UNCHANGED vars
  <2>1. State' = State /\ Topic' = Topic /\ Said' = Said /\ Log' = Log /\ queue' = queue
    BY <1>1 DEF vars, State, StateOf, Topic, TopicOf, Said, Log
  <2> QED  BY <2>1 DEF Promised!vars
<1>2. CASE StartJob
  BY <1>0, <1>2, StartPromised
<1>3. ASSUME NEW r \in Slots, Client(r) PROVE Promised!Next
  BY <1>0, <1>3, LeavePromised, ReceivePromised, RequestMoves DEF Client
<1>4. ASSUME NEW r \in Slots, Arrives(r) PROVE Promised!Next
  BY <1>0, <1>4, ArrivesMoves, OnPromised
<1>5. ASSUME NEW r \in Slots, Ends(r) PROVE Promised!Next
  BY <1>0, <1>5, EndsMoves, OnPromised, AnswerPromised DEF GoesOn
<1> QED  BY <1>1, <1>2, <1>3, <1>4, <1>5 DEF Next

LEMMA NextOver ==
  PipelineOK /\ (\A r \in Slots : Lossless(request[r]) /\ OutcomeKnown(request[r])) /\ [Next]_vars
    => \A r \in Slots : OutcomeKnown(request'[r])
<1> SUFFICES ASSUME TypeOK, Waiting, \A r \in Slots : Lossless(request[r]) /\ OutcomeKnown(request[r]),
                    [Next]_vars, NEW s \in Slots
             PROVE  OutcomeKnown(request'[s])
  BY DEF PipelineOK
<1>1. CASE UNCHANGED <<request, queue, running>>
  BY <1>1
<1>2. ASSUME NEW r \in Slots, NEW x, Step(r, x) PROVE OutcomeKnown(request'[s])
  <2>1. /\ request'[r] = x /\ request[r] \in Request
        /\ s # r => request'[s] = request[s]
    BY <1>2, StepAlone
  <2>2. Says(request[r], x)
    BY <1>2, <2>1, MovesSays DEF Step
  <2> QED  BY <2>1, <2>2 DEF Says, OutcomeKnown
<1> QED  BY <1>1, <1>2, NextMoves

\* ServerIsAnAnswerQueue: every step of the server is a step of the abstract queue of
\* answers or none of it, for all requests, profiles and bounds (queue.ts:6-13,
\* request-handlers.ts:180-328, shared.ts:81-111).
THEOREM ServerIsAnAnswerQueue == Spec => AnswersInOrder
<1> DEFINE Sound == \A r \in Slots : Lossless(request[r])
           Ended == \A r \in Slots : OutcomeKnown(request[r])
<1>1. Init => Promised!Init /\ Sound /\ Ended
  <2> SUFFICES ASSUME Init PROVE Promised!Init /\ Sound /\ Ended
    OBVIOUS
  <2>1. \A r \in Slots : request[r] = IdleRequest
    BY DEF Init
  <2>7. /\ IdleRequest.pc = "idle" /\ IdleRequest.text = <<>> /\ OutcomeKnown(IdleRequest)
        /\ Lossless(IdleRequest)
    BY DEF Lossless, IdleRequest, Unanswered, OutcomeKnown
  <2>8. StateOf(IdleRequest) = "free" /\ TopicOf(IdleRequest) = Stateless
    BY <2>7 DEF StateOf, TopicOf
  <2>2. Sound /\ Ended
    BY <2>1, <2>7
  <2>3. State = [r \in Slots |-> "free"]
    BY <2>1, <2>8 DEF State
  <2>4. Topic = [r \in Slots |-> Stateless]
    BY <2>1, <2>8 DEF Topic
  <2>5. Said = [r \in Slots |-> <<>>]
    BY <2>1, <2>7 DEF Said
  <2>6. Log = [c \in Conversations |-> <<>>] /\ queue = <<>>
    BY DEF Log, Init
  <2> QED  BY <2>2, <2>3, <2>4, <2>5, <2>6 DEF Promised!Init
<1>2. PipelineOK /\ Sound /\ [Next]_vars => Sound'
  BY NextLossless
<1>3. PipelineOK /\ Sound /\ Ended /\ [Next]_vars => Ended'
  BY NextOver
<1>4. PipelineOK /\ Sound /\ Ended /\ [Next]_vars => [Promised!Next]_(Promised!vars)
  BY NextPromised
<1> HIDE DEF Sound, Ended
<1> QED  BY <1>1, <1>2, <1>3, <1>4, PipelineAlways, PTL DEF Spec, AnswersInOrder, Promised!Spec
================================================================================
