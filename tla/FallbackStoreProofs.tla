-------------------------- MODULE FallbackStoreProofs --------------------------
(***************************************************************************)
(* What every operation of the fallback store preserves, for any number of *)
(* conversations and any capacity.  The lemmas are about a store s and the *)
(* store an operation makes of it; ConversationSyncProofs cites them too.  *)
(***************************************************************************)
EXTENDS FallbackStore, TLAPS, FiniteSetTheorems

-------------------------------------------------------------------------------
(* Least elements and lists without duplicates *)

\* A set of naturals has a least element, which Min finds.
LEMMA LeastExists ==
    ASSUME NEW S \in SUBSET Nat, S # {}
    PROVE  Min(S) \in S /\ \A x \in S : Min(S) <= x
<1> DEFINE T == {0 .. x : x \in S}
           Less == StrictSubsetOrdering(Nat)
<1>1. IsWellFoundedOn(Less, FiniteSubsetsOf(Nat))
  BY FS_StrictSubsetOrderingWellFounded
<1>2. T \subseteq FiniteSubsetsOf(Nat)
  <2>1. ASSUME NEW x \in S PROVE 0 .. x \in FiniteSubsetsOf(Nat)
    <3>1. IsFiniteSet(0 .. x)  BY FS_Interval
    <3>2. 0 .. x \in SUBSET Nat  OBVIOUS
    <3> QED  BY <3>1, <3>2 DEF FiniteSubsetsOf
  <2> QED  BY <2>1
<1>3. T # {}
  OBVIOUS
<1>4. \E X \in T : \A Y \in T : <<Y, X>> \notin Less
  <2> HIDE DEF T, Less
  <2> QED  BY <1>1, <1>2, <1>3, WFMin
<1>5. PICK X \in T : \A Y \in T : <<Y, X>> \notin Less
  BY <1>4
<1>6. PICK x \in S : X = 0 .. x
  BY <1>5
<1>7. ASSUME NEW y \in S PROVE x <= y
  <2>1. <<0 .. y, 0 .. x>> \notin Less
    BY <1>5, <1>6
  <2>2. y < x => 0 .. y \subseteq 0 .. x /\ x \in 0 .. x /\ x \notin 0 .. y
    OBVIOUS
  <2>3. 0 .. y \in SUBSET Nat /\ 0 .. x \in SUBSET Nat
    OBVIOUS
  <2> QED  BY <2>1, <2>2, <2>3 DEF StrictSubsetOrdering
<1> QED  BY <1>7 DEF Min

\* The list q has the elements of S, each once.
Lists(q, S) ==
    /\ q \in Seq(ConversationId)
    /\ {q[i] : i \in DOMAIN q} = S
    /\ \A i, j \in DOMAIN q : q[i] = q[j] => i = j

\* What is left of a list when position i is cut out, in either order.
LEMMA Cut ==
    ASSUME NEW T, NEW q \in Seq(T), NEW i \in DOMAIN q
    PROVE  LET before == SubSeq(q, 1, i - 1)
               after == SubSeq(q, i + 1, Len(q))
           IN  /\ before \o after \in Seq(T) /\ after \o before \in Seq(T)
               /\ Len(before \o after) = Len(q) - 1
               /\ Len(after \o before) = Len(q) - 1
               /\ \A k \in 1 .. Len(q) - 1 :
                     /\ (before \o after)[k] = q[IF k < i THEN k ELSE k + 1]
                     /\ (after \o before)[k] =
                           q[IF k <= Len(q) - i THEN k + i ELSE k - (Len(q) - i)]
<1> DEFINE before == SubSeq(q, 1, i - 1)
           after == SubSeq(q, i + 1, Len(q))
<1>1. i \in 1 .. Len(q) /\ Len(q) \in Nat
  OBVIOUS
<1>2. /\ before \in Seq(T) /\ Len(before) = i - 1
      /\ \A k \in 1 .. i - 1 : before[k] = q[k]
  BY <1>1
<1>3. /\ after \in Seq(T) /\ Len(after) = Len(q) - i
      /\ \A k \in 1 .. Len(q) - i : after[k] = q[k + i]
  BY <1>1
<1> HIDE DEF before, after
<1>4. before \o after \in Seq(T) /\ after \o before \in Seq(T)
  BY <1>2, <1>3
<1>5. Len(before \o after) = Len(q) - 1 /\ Len(after \o before) = Len(q) - 1
  BY <1>1, <1>2, <1>3
<1>6. ASSUME NEW k \in 1 .. Len(q) - 1
      PROVE  (before \o after)[k] = q[IF k < i THEN k ELSE k + 1]
  <2>1. CASE k < i  BY <2>1, <1>1, <1>2, <1>3
  <2>2. CASE ~(k < i)
    <3>1. (before \o after)[k] = after[k - (i - 1)]
      <4>1. k \in 1 .. Len(before) + Len(after) /\ k > Len(before)
        BY <2>2, <1>1, <1>2, <1>3
      <4>2. (before \o after)[k] = after[k - Len(before)]
        <5>1. \A a, b \in Seq(T) : \A n \in 1 .. Len(a) + Len(b) :
                 n > Len(a) => (a \o b)[n] = b[n - Len(a)]
          OBVIOUS
        <5> QED  BY <4>1, <5>1, <1>2, <1>3
      <4> QED  BY <4>2, <1>2
    <3>2. k - (i - 1) \in 1 .. Len(q) - i  BY <2>2, <1>1
    <3>3. k - (i - 1) + i = k + 1  BY <1>1
    <3>4. after[k - (i - 1)] = q[k - (i - 1) + i]  BY <3>2, <1>3
    <3> QED  BY <3>1, <3>3, <3>4, <2>2, <1>1
  <2> QED  BY <2>1, <2>2
<1>7. ASSUME NEW k \in 1 .. Len(q) - 1
      PROVE  (after \o before)[k] =
                q[IF k <= Len(q) - i THEN k + i ELSE k - (Len(q) - i)]
  <2>1. CASE k <= Len(q) - i  BY <2>1, <1>1, <1>2, <1>3
  <2>2. CASE ~(k <= Len(q) - i)
    <3>1. (after \o before)[k] = before[k - (Len(q) - i)]  BY <2>2, <1>1, <1>2, <1>3
    <3>2. k - (Len(q) - i) \in 1 .. i - 1  BY <2>2, <1>1
    <3> QED  BY <3>1, <3>2, <2>2, <1>1, <1>2
  <2> QED  BY <2>1, <2>2
<1> QED  BY <1>4, <1>5, <1>6, <1>7 DEF before, after

\* The list r has the elements of q but the i-th: the k-th is the at[k]-th of q.
Moved(r, q, i, at) ==
    /\ \A k \in DOMAIN r : at[k] \in DOMAIN q /\ at[k] # i /\ r[k] = q[at[k]]
    /\ \A k, j \in DOMAIN r : at[k] = at[j] => k = j
    /\ \A n \in DOMAIN q : n # i => \E k \in DOMAIN r : at[k] = n

LEMMA MovedLists ==
    ASSUME NEW S, NEW q, Lists(q, S), NEW i \in DOMAIN q,
           NEW r \in Seq(ConversationId), NEW at, Moved(r, q, i, at)
    PROVE  Lists(r, S \ {q[i]})
<1>1. S = {q[k] : k \in DOMAIN q} /\ \A k, j \in DOMAIN q : q[k] = q[j] => k = j
  BY DEF Lists
<1>2. ASSUME NEW k \in DOMAIN r PROVE r[k] \in S \ {q[i]}
  BY <1>1 DEF Moved
<1>3. ASSUME NEW x \in S \ {q[i]} PROVE \E k \in DOMAIN r : x = r[k]
  <2>1. PICK n \in DOMAIN q : x = q[n]  BY <1>1 DEF Moved
  <2>2. n # i  BY <2>1
  <2> QED  BY <2>1, <2>2 DEF Moved
<1>4. {r[k] : k \in DOMAIN r} = S \ {q[i]}
  BY <1>2, <1>3
<1>5. \A k, j \in DOMAIN r : r[k] = r[j] => k = j
  BY <1>1 DEF Moved
<1> QED  BY <1>4, <1>5 DEF Lists

LEMMA CutLists ==
    ASSUME NEW S, NEW q, Lists(q, S), NEW i \in DOMAIN q
    PROVE  /\ Lists(SubSeq(q, 1, i - 1) \o SubSeq(q, i + 1, Len(q)), S \ {q[i]})
           /\ Lists(SubSeq(q, i + 1, Len(q)) \o SubSeq(q, 1, i - 1), S \ {q[i]})
<1> DEFINE early == SubSeq(q, 1, i - 1) \o SubSeq(q, i + 1, Len(q))
           late == SubSeq(q, i + 1, Len(q)) \o SubSeq(q, 1, i - 1)
           rest == 1 .. Len(q) - 1
           at == [k \in rest |-> IF k < i THEN k ELSE k + 1]
           to == [k \in rest |-> IF k <= Len(q) - i THEN k + i ELSE k - (Len(q) - i)]
<1>1. q \in Seq(ConversationId)
  BY DEF Lists
<1>2. /\ early \in Seq(ConversationId) /\ late \in Seq(ConversationId)
      /\ Len(early) = Len(q) - 1 /\ Len(late) = Len(q) - 1
      /\ \A k \in rest : early[k] = q[at[k]] /\ late[k] = q[to[k]]
  BY <1>1, Cut
<1>3. Len(q) \in Nat /\ i \in 1 .. Len(q) /\ DOMAIN q = 1 .. Len(q)
  BY <1>1
<1>4. /\ \A k \in rest : at[k] \in DOMAIN q /\ at[k] # i
      /\ \A k \in rest : to[k] \in DOMAIN q /\ to[k] # i
  BY <1>3
<1>5. /\ \A k, j \in rest : at[k] = at[j] => k = j
      /\ \A k, j \in rest : to[k] = to[j] => k = j
  BY <1>3
<1>6. ASSUME NEW n \in DOMAIN q, n # i
      PROVE  /\ \E k \in rest : at[k] = n
             /\ \E k \in rest : to[k] = n
  <2>1. CASE n < i
    <3>1. n \in rest /\ at[n] = n  BY <2>1, <1>3
    <3>2. n + (Len(q) - i) \in rest /\ to[n + (Len(q) - i)] = n  BY <2>1, <1>3
    <3> QED  BY <3>1, <3>2
  <2>2. CASE n > i
    <3>1. n - 1 \in rest /\ at[n - 1] = n  BY <2>2, <1>3
    <3>2. n - i \in rest /\ to[n - i] = n  BY <2>2, <1>3
    <3> QED  BY <3>1, <3>2
  <2> QED  BY <2>1, <2>2, <1>3, <1>6
<1>7. DOMAIN early = rest /\ DOMAIN late = rest
  <2> HIDE DEF early, late
  <2> QED  BY <1>2
<1> HIDE DEF early, late, at, to, rest
<1>8. Moved(early, q, i, at)
  BY <1>2, <1>4, <1>5, <1>6, <1>7, Zenon DEF Moved
<1>9. Moved(late, q, i, to)
  BY <1>2, <1>4, <1>5, <1>6, <1>7, Zenon DEF Moved
<1>10. Lists(early, S \ {q[i]}) /\ Lists(late, S \ {q[i]})
  BY <1>2, <1>8, <1>9, MovedLists
<1> QED  BY <1>10 DEF early, late

\* The sequence c has the elements of a and then those of b.
Joins(c, a, b) ==
    /\ DOMAIN c = 1 .. Len(a) + Len(b)
    /\ \A i \in 1 .. Len(a) : c[i] = a[i]
    /\ \A k \in 1 .. Len(b) : c[Len(a) + k] = b[k]

LEMMA Joined ==
    ASSUME NEW T, NEW a \in Seq(T), NEW b \in Seq(T)
    PROVE  a \o b \in Seq(T) /\ Joins(a \o b, a, b)
<1>1. a \o b \in Seq(T) /\ Len(a \o b) = Len(a) + Len(b)
  OBVIOUS
<1>2. DOMAIN (a \o b) = 1 .. Len(a \o b)
  BY <1>1
<1>3. ASSUME NEW k \in 1 .. Len(b) PROVE (a \o b)[Len(a) + k] = b[k]
  <2>1. Len(a) \in Nat /\ Len(b) \in Nat  OBVIOUS
  <2>2. Len(a) + k \in 1 .. Len(a) + Len(b) /\ Len(a) + k > Len(a) /\ Len(a) + k - Len(a) = k
    BY <2>1
  <2> QED  BY <2>2
<1>4. \A i \in 1 .. Len(a) : (a \o b)[i] = a[i]
  OBVIOUS
<1> QED  BY <1>1, <1>2, <1>3, <1>4 DEF Joins

LEMMA WithoutLists ==
    ASSUME NEW S, NEW q, Lists(q, S), NEW id
    PROVE  Lists(Without(q, id), S \ {id})
<1>1. CASE \A i \in DOMAIN q : q[i] # id
  <2>1. S \ {id} = S  BY <1>1 DEF Lists
  <2> QED  BY <1>1, <2>1 DEF Without
<1>2. CASE \E i \in DOMAIN q : q[i] = id
  <2> DEFINE at == CHOOSE i \in DOMAIN q : q[i] = id
  <2>1. at \in DOMAIN q /\ q[at] = id  BY <1>2
  <2>2. Without(q, id) = SubSeq(q, 1, at - 1) \o SubSeq(q, at + 1, Len(q))
    BY <1>2 DEF Without
  <2> HIDE DEF at
  <2>3. Lists(SubSeq(q, 1, at - 1) \o SubSeq(q, at + 1, Len(q)), S \ {q[at]})
    BY <2>1, CutLists, Zenon
  <2> QED  BY <2>1, <2>2, <2>3
<1> QED  BY <1>1, <1>2

\* A touched conversation is the last of its list.
LEMMA TouchLists ==
    ASSUME NEW S, NEW q, Lists(q, S), NEW id \in ConversationId
    PROVE  LET touched == Append(Without(q, id), id)
           IN  /\ Lists(touched, S \cup {id})
               /\ Len(touched) \in DOMAIN touched /\ touched[Len(touched)] = id
<1> DEFINE w == Without(q, id)
           t == Append(w, id)
<1>1. /\ w \in Seq(ConversationId) /\ {w[i] : i \in DOMAIN w} = S \ {id}
      /\ \A i, j \in DOMAIN w : w[i] = w[j] => i = j
  <2>1. Lists(w, S \ {id})  BY WithoutLists, Zenon
  <2> QED  BY <2>1 DEF Lists
<1> HIDE DEF w
<1>2. /\ t \in Seq(ConversationId) /\ Len(t) = Len(w) + 1 /\ t[Len(t)] = id
      /\ DOMAIN w = 1 .. Len(w) /\ DOMAIN t = 1 .. Len(w) + 1 /\ Len(w) \in Nat
      /\ \A i \in 1 .. Len(w) : t[i] = w[i]
  BY <1>1
<1>3. \A i \in DOMAIN w : w[i] # id
  BY <1>1
<1>4. DOMAIN t = DOMAIN w \cup {Len(t)} /\ Len(t) \notin DOMAIN w
  BY <1>2
<1>5. {t[i] : i \in DOMAIN t} = S \cup {id}
  BY <1>1, <1>2, <1>4
<1>6. \A i, j \in DOMAIN t : t[i] = t[j] => i = j
  BY <1>1, <1>2, <1>3, <1>4
<1> QED  BY <1>2, <1>5, <1>6 DEF Lists, w

-------------------------------------------------------------------------------
(* What holds of a store between two operations *)

StateType == [id : ConversationId, title : Title, messages : Seq(Nat), dirty : BOOLEAN]
MessageType == [conversation : ConversationId, parent : Nat]
StoreType == [conversations : [ConversationId -> Nat], accessOrder : Seq(ConversationId),
              states : Seq(StateType), messages : Seq(MessageType)]

LEMMA TypeParts ==
    ASSUME NEW s, s \in StoreType
    PROVE  /\ s.conversations \in [ConversationId -> Nat]
           /\ s.accessOrder \in Seq(ConversationId)
           /\ s.states \in Seq(StateType) /\ s.messages \in Seq(MessageType)
           /\ DOMAIN s.states = 1 .. Len(s.states) /\ Len(s.states) \in Nat
           /\ DOMAIN s.messages = 1 .. Len(s.messages) /\ Len(s.messages) \in Nat
           /\ \A ref \in DOMAIN s.states : s.states[ref] \in StateType
<1>1. /\ s.conversations \in [ConversationId -> Nat]
      /\ s.accessOrder \in Seq(ConversationId)
      /\ s.states \in Seq(StateType) /\ s.messages \in Seq(MessageType)
  BY DEF StoreType
<1> QED  BY <1>1

\* The Map holds states of the right conversation.
Held(s) == \A id \in ConversationId : has(s, id) =>
    s.conversations[id] \in DOMAIN s.states /\ Current(s, id).id = id

\* The messages of a state are its own, each chained to the one before it.
Chained(s) == \A ref \in DOMAIN s.states :
    \A i \in DOMAIN s.states[ref].messages :
        LET m == s.states[ref].messages[i]
        IN  /\ m \in DOMAIN s.messages
            /\ s.messages[m].conversation = s.states[ref].id
            /\ s.messages[m].parent = IF i = 1 THEN 0 ELSE s.states[ref].messages[i - 1]

Sound(s) ==
    /\ s \in StoreType
    /\ Lists(s.accessOrder, Live(s))
    /\ Held(s)
    /\ Chained(s)

Small(s) == IsFiniteSet(Live(s)) /\ Cardinality(Live(s)) <= MaxConversations

StoreOK(s) == Sound(s) /\ Small(s)

(* What an operation may do to the states and messages of a store *)

SameHeap(s, t) == t.states = s.states /\ t.messages = s.messages

\* States and messages stay, and the messages of a state are only added to.
Grows(s, t) ==
    /\ DOMAIN s.states \subseteq DOMAIN t.states
    /\ DOMAIN s.messages \subseteq DOMAIN t.messages
    /\ \A m \in DOMAIN s.messages : t.messages[m] = s.messages[m]
    /\ \A ref \in DOMAIN s.states :
          /\ t.states[ref].id = s.states[ref].id
          /\ DOMAIN s.states[ref].messages \subseteq DOMAIN t.states[ref].messages
          /\ \A i \in DOMAIN s.states[ref].messages :
                t.states[ref].messages[i] = s.states[ref].messages[i]

\* A state that is not dirty is one that was there and is as it was.
Flagged(s, t) == \A ref \in DOMAIN t.states :
    \/ t.states[ref].dirty
    \/ ref \in DOMAIN s.states /\ t.states[ref] = s.states[ref]

LEMMA GrowsTransitive ==
    ASSUME NEW s, NEW t, NEW u, Grows(s, t), Grows(t, u)
    PROVE  Grows(s, u)
  BY DEF Grows

LEMMA FlaggedTransitive ==
    ASSUME NEW s, NEW t, NEW u, Flagged(s, t), Flagged(t, u)
    PROVE  Flagged(s, u)
  BY DEF Flagged

LEMMA SameHeapGrows ==
    ASSUME NEW s, NEW t, SameHeap(s, t)
    PROVE  Grows(s, t) /\ Flagged(s, t)
  BY DEF SameHeap, Grows, Flagged

\* An edit of the Map and the list.
LEMMA MapEdited ==
    ASSUME NEW s, s \in StoreType, Held(s), Chained(s),
           NEW t, t \in StoreType, SameHeap(s, t), Lists(t.accessOrder, Live(t)),
           \A id \in ConversationId : has(t, id) => t.conversations[id] = s.conversations[id]
    PROVE  Sound(t)
<1>1. Held(t)  BY DEF Held, SameHeap, has, Current
<1>2. Chained(t)  BY DEF Chained, SameHeap
<1> QED  BY <1>1, <1>2 DEF Sound

LEMMA TouchOK ==
    ASSUME NEW s, s \in StoreType, Held(s), Chained(s),
           NEW S, Lists(s.accessOrder, S),
           NEW id \in ConversationId, Live(s) = S \cup {id}
    PROVE  LET t == touchLRU(s, id)
           IN  /\ Sound(t) /\ SameHeap(s, t)
               /\ t.conversations = s.conversations
               /\ Len(t.accessOrder) \in DOMAIN t.accessOrder
               /\ t.accessOrder[Len(t.accessOrder)] = id
<1> DEFINE t == touchLRU(s, id)
           q == Append(Without(s.accessOrder, id), id)
<1>1. Lists(q, Live(s)) /\ Len(q) \in DOMAIN q /\ q[Len(q)] = id
  BY TouchLists
<1>2. q \in Seq(ConversationId)
  BY <1>1 DEF Lists
<1> HIDE DEF q
<1>3. t = [s EXCEPT !.accessOrder = q]
  BY DEF touchLRU, q
<1>4. /\ t \in StoreType /\ SameHeap(s, t)
      /\ t.conversations = s.conversations /\ t.accessOrder = q
  BY <1>2, <1>3 DEF StoreType, SameHeap
<1>5. Live(t) = Live(s)
  BY <1>4 DEF Live, has
<1> HIDE DEF t
<1>6. Sound(t)
  BY <1>1, <1>4, <1>5, MapEdited
<1> QED  BY <1>1, <1>4, <1>6 DEF t

LEMMA EvictAtOK ==
    ASSUME NEW s, Sound(s), NEW i \in DOMAIN s.accessOrder
    PROVE  LET t == EvictAt(s, i)
           IN  /\ Sound(t) /\ SameHeap(s, t)
               /\ s.accessOrder[i] \in Live(s)
               /\ Live(t) = Live(s) \ {s.accessOrder[i]}
               /\ t.conversations = [s.conversations EXCEPT ![s.accessOrder[i]] = Absent]
<1> DEFINE t == EvictAt(s, i)
           order == s.accessOrder
           out == order[i]
           q == SubSeq(order, i + 1, Len(order)) \o SubSeq(order, 1, i - 1)
<1>1. s \in StoreType /\ Lists(order, Live(s)) /\ Held(s) /\ Chained(s)
  BY DEF Sound
<1>2. Lists(q, Live(s) \ {out})
  BY <1>1, CutLists
<1>3. out \in Live(s) /\ q \in Seq(ConversationId)
  BY <1>1, <1>2 DEF Lists
<1> HIDE DEF q
<1>4. t = [s EXCEPT !.conversations[out] = Absent, !.accessOrder = q]
  BY DEF EvictAt, q
<1> HIDE DEF out
<1>5. out \in ConversationId
  BY <1>3 DEF Live
<1>6. /\ t \in StoreType /\ SameHeap(s, t) /\ t.accessOrder = q
      /\ t.conversations = [s.conversations EXCEPT ![out] = Absent]
  <2> HIDE DEF t
  <2> DEFINE map == [s.conversations EXCEPT ![out] = Absent]
  <2>1. map \in [ConversationId -> Nat]
    BY <1>1, <1>5 DEF StoreType, Absent
  <2>2. t = [s EXCEPT !.conversations = map, !.accessOrder = q]
    BY <1>4
  <2> HIDE DEF map
  <2>3. t \in StoreType /\ SameHeap(s, t) /\ t.accessOrder = q /\ t.conversations = map
    BY <1>1, <1>3, <2>1, <2>2 DEF StoreType, SameHeap
  <2> QED  BY <2>3 DEF map
<1>7. Live(t) = Live(s) \ {out}
  BY <1>1, <1>5, <1>6 DEF Live, has, Absent, StoreType
<1>8. \A id \in ConversationId : has(t, id) => t.conversations[id] = s.conversations[id]
  BY <1>1, <1>5, <1>6 DEF has, Absent, StoreType
<1> HIDE DEF t
<1>9. Sound(t)
  BY <1>1, <1>2, <1>6, <1>7, <1>8, MapEdited
<1> QED  BY <1>3, <1>6, <1>7, <1>9 DEF t, out

-------------------------------------------------------------------------------
(* Making room *)

\* A list of more than two elements has more than two positions.
LEMMA LongList ==
    ASSUME NEW S, NEW q, Lists(q, S), Cardinality(S) > 2
    PROVE  Len(q) > 2
<1>1. S = {q[i] : i \in DOMAIN q} /\ Len(q) \in Nat /\ DOMAIN q = 1 .. Len(q)
  BY DEF Lists
<1>2. SUFFICES ASSUME Len(q) <= 2 PROVE FALSE
  BY <1>1
<1>3. CASE Len(q) = 0
  <2>1. S = {}  BY <1>1, <1>3
  <2> QED  BY <2>1, FS_EmptySet
<1>4. CASE Len(q) = 1
  <2>1. S = {q[1]}  BY <1>1, <1>4
  <2>2. Cardinality(S) = 1  BY <2>1, FS_Singleton
  <2> QED  BY <2>2
<1>5. CASE Len(q) = 2
  <2>1. S = {q[1]} \cup {q[2]}  BY <1>1, <1>5
  <2>2. IsFiniteSet({q[1]}) /\ Cardinality({q[1]}) = 1  BY FS_Singleton
  <2>3. Cardinality(S) = 1 \/ Cardinality(S) = 2  BY <2>1, <2>2, FS_AddElement
  <2> QED  BY <2>3
<1> QED  BY <1>1, <1>2, <1>3, <1>4, <1>5

\* Which position is evicted: a clean one, or the second when all are dirty.
LEMMA EvictChoice ==
    ASSUME NEW s, Sound(s), IsFiniteSet(Live(s)), Cardinality(Live(s)) > MaxConversations
    PROVE  \E i \in DOMAIN s.accessOrder :
              /\ Evict(s) = EvictAt(s, i)
              /\ IsDirty(s, s.accessOrder[i]) => Live(s) = getDirty(s)
              /\ IsDirty(s, s.accessOrder[Len(s.accessOrder)]) => i # Len(s.accessOrder)
<1> DEFINE order == s.accessOrder
           clean == CleanPositions(s)
<1>1. Lists(order, Live(s))
  BY DEF Sound
<1>2. /\ order \in Seq(ConversationId) /\ Live(s) = {order[i] : i \in DOMAIN order}
      /\ DOMAIN order = 1 .. Len(order) /\ Len(order) \in Nat
  BY <1>1 DEF Lists
<1>3. Len(order) > 2
  <2>1. Cardinality(Live(s)) > 2  BY StoreAssumption, FS_CardinalityType
  <2> QED  BY <1>1, <2>1, LongList
<1>4. CASE clean = {}
  <2>1. Evict(s) = EvictAt(s, 2)  BY <1>4 DEF Evict
  <2>2. \A i \in DOMAIN order : IsDirty(s, order[i])  BY <1>4 DEF CleanPositions
  <2>3. Live(s) = getDirty(s)  BY <1>2, <2>2 DEF getDirty, Live, IsDirty
  <2>4. 2 \in DOMAIN order /\ 2 # Len(order)
    <3> DEFINE n == Len(order)
    <3>1. DOMAIN order = 1 .. n /\ n \in Nat /\ n > 2  BY <1>2, <1>3
    <3> HIDE DEF n
    <3>2. 2 \in 1 .. n /\ 2 # n  BY <3>1
    <3> QED  BY <3>1, <3>2 DEF n
  <2> QED  BY <2>1, <2>3, <2>4
<1>5. CASE clean # {}
  <2>1. clean \in SUBSET Nat  BY <1>2 DEF CleanPositions
  <2>2. Min(clean) \in clean  BY <1>5, <2>1, LeastExists
  <2>3. Evict(s) = EvictAt(s, Min(clean))  BY <1>5 DEF Evict
  <2>4. Min(clean) \in DOMAIN order /\ ~IsDirty(s, order[Min(clean)])
    BY <2>2 DEF CleanPositions
  <2> HIDE DEF clean
  <2> QED  BY <2>3, <2>4
<1> QED  BY <1>4, <1>5

\* What eviction leaves: the most recently used conversation stays if it is dirty.
LEMMA EvictIfNeededOK ==
    ASSUME NEW s, Sound(s), IsFiniteSet(Live(s)),
           Cardinality(Live(s)) <= MaxConversations + 1
    PROVE  LET t == evictIfNeeded(s)
               newest == s.accessOrder[Len(s.accessOrder)]
           IN  /\ StoreOK(t) /\ SameHeap(s, t)
               /\ Cardinality(Live(s)) <= MaxConversations => t = s
               /\ \A id \in ConversationId :
                     t.conversations[id] \in {s.conversations[id], Absent}
               /\ IsDirty(s, newest) => t.conversations[newest] = s.conversations[newest]
               /\ \A id \in ConversationId : IsDirty(s, id) /\ ~has(t, id) =>
                     Live(s) = getDirty(s)
<1> DEFINE t == evictIfNeeded(s)
           newest == s.accessOrder[Len(s.accessOrder)]
<1>1. CASE Cardinality(Live(s)) <= MaxConversations
  <2>1. t = s  BY <1>1 DEF evictIfNeeded
  <2>2. StoreOK(s)  BY <1>1 DEF StoreOK, Small
  <2> QED  BY <2>1, <2>2 DEF SameHeap, IsDirty
<1>2. CASE ~(Cardinality(Live(s)) <= MaxConversations)
  <2>1. Cardinality(Live(s)) > MaxConversations /\ Cardinality(Live(s)) = MaxConversations + 1
    BY <1>2, StoreAssumption, FS_CardinalityType
  <2>2. PICK i \in DOMAIN s.accessOrder :
              /\ Evict(s) = EvictAt(s, i)
              /\ IsDirty(s, s.accessOrder[i]) => Live(s) = getDirty(s)
              /\ IsDirty(s, newest) => i # Len(s.accessOrder)
    BY <2>1, EvictChoice
  <2>3. t = EvictAt(s, i)  BY <1>2, <2>2 DEF evictIfNeeded
  <2> DEFINE out == s.accessOrder[i]
  <2>4. /\ Sound(t) /\ SameHeap(s, t) /\ out \in Live(s) /\ Live(t) = Live(s) \ {out}
        /\ t.conversations = [s.conversations EXCEPT ![out] = Absent]
    BY <2>3, EvictAtOK
  <2>5. IsFiniteSet(Live(t)) /\ Cardinality(Live(t)) = Cardinality(Live(s)) - 1
    BY <2>4, FS_RemoveElement
  <2>6. StoreOK(t)  BY <2>1, <2>4, <2>5, StoreAssumption DEF StoreOK, Small
  <2>7. s.conversations \in [ConversationId -> Nat] /\ out \in ConversationId
    BY <2>4 DEF Sound, StoreType, Live
  <2>8. IsDirty(s, newest) => newest # out
    BY <2>2 DEF Sound, Lists
  <2>9. ASSUME IsDirty(s, newest) PROVE t.conversations[newest] = s.conversations[newest]
    <3>1. newest \in ConversationId  BY <2>2 DEF Sound, Lists
    <3> QED  BY <2>4, <2>7, <2>8, <2>9, <3>1
  <2>10. ASSUME NEW id \in ConversationId, IsDirty(s, id), ~has(t, id)
         PROVE  Live(s) = getDirty(s)
    <3>1. id = out  BY <2>4, <2>7, <2>10 DEF has, IsDirty
    <3> QED  BY <2>2, <2>10, <3>1
  <2>11. \A id \in ConversationId : t.conversations[id] \in {s.conversations[id], Absent}
    BY <2>4, <2>7
  <2> HIDE DEF t, newest
  <2> QED  BY <1>2, <2>4, <2>6, <2>9, <2>10, <2>11 DEF t, newest
<1> QED  BY <1>1, <1>2

-------------------------------------------------------------------------------
(* getOrCreate() *)

Created(s, id) ==
    [s EXCEPT !.states = Append(@, createEmptyState(id)),
              !.conversations[id] = Len(s.states) + 1]

LEMMA CreatedOK ==
    ASSUME NEW s, StoreOK(s), NEW id \in ConversationId, ~has(s, id)
    PROVE  LET t == Created(s, id)
               ref == Len(s.states) + 1
           IN  /\ t \in StoreType /\ Held(t) /\ Chained(t)
               /\ t.accessOrder = s.accessOrder /\ t.messages = s.messages
               /\ t.conversations = [s.conversations EXCEPT ![id] = ref]
               /\ t.states = Append(s.states, createEmptyState(id))
               /\ ref \in DOMAIN t.states /\ t.states[ref] = createEmptyState(id)
               /\ DOMAIN t.states = DOMAIN s.states \cup {ref}
               /\ \A other \in DOMAIN s.states : t.states[other] = s.states[other]
               /\ Live(t) = Live(s) \cup {id} /\ IsDirty(t, id)
               /\ Grows(s, t) /\ Flagged(s, t)
<1> DEFINE t == Created(s, id)
           ref == Len(s.states) + 1
           new == createEmptyState(id)
           map == [s.conversations EXCEPT ![id] = ref]
           states == Append(s.states, new)
<1>1. s \in StoreType /\ Held(s) /\ Chained(s)
  BY DEF StoreOK, Sound
<1>2. /\ Len(s.states) \in Nat /\ DOMAIN s.states = 1 .. Len(s.states)
      /\ s.conversations \in [ConversationId -> Nat]
  BY <1>1 DEF StoreType
<1>3. new \in StateType
  BY StoreAssumption DEF createEmptyState, StateType
<1>4. /\ states \in Seq(StateType)
      /\ DOMAIN states = DOMAIN s.states \cup {ref} /\ ref \notin DOMAIN s.states
      /\ states[ref] = new /\ \A other \in DOMAIN s.states : states[other] = s.states[other]
  <2> HIDE DEF new
  <2>1. s.states \in Seq(StateType)
    BY <1>1 DEF StoreType
  <2> QED  BY <2>1, <1>2, <1>3
<1>5. map \in [ConversationId -> Nat] /\ ref \in Nat /\ ref # Absent
  BY <1>2 DEF Absent
<1>6. t = [s EXCEPT !.states = states, !.conversations = map]
  BY <1>1 DEF Created, StoreType
<1> HIDE DEF t, states, map
<1>7. /\ t \in StoreType /\ t.accessOrder = s.accessOrder /\ t.messages = s.messages
      /\ t.conversations = map /\ t.states = states
  BY <1>1, <1>4, <1>5, <1>6 DEF StoreType
<1>8. map[id] = ref /\ \A other \in ConversationId : other # id => map[other] = s.conversations[other]
  BY <1>2 DEF map
<1> HIDE DEF ref
<1>9. Live(t) = Live(s) \cup {id}
  BY <1>5, <1>7, <1>8 DEF Live, has
<1>10. new.id = id /\ new.messages = <<>> /\ new.dirty = TRUE
  BY DEF createEmptyState
<1>11. IsDirty(t, id)
  BY <1>4, <1>5, <1>7, <1>8, <1>10 DEF IsDirty, has, Current
<1> HIDE DEF new
<1>12. Held(t)
  BY <1>1, <1>4, <1>7, <1>8, <1>10 DEF Held, has, Current
<1>13. Chained(t)
  <2>1. ASSUME NEW other \in DOMAIN states, NEW i \in DOMAIN states[other].messages
        PROVE  other \in DOMAIN s.states /\ states[other] = s.states[other]
    <3>1. DOMAIN <<>> = {}  OBVIOUS
    <3> QED  BY <2>1, <3>1, <1>4, <1>10
  <2> QED  BY <1>1, <1>7, <2>1 DEF Chained
<1>14. Grows(s, t) /\ Flagged(s, t)
  BY <1>4, <1>7, <1>10 DEF Grows, Flagged
<1>15. t.states = Append(s.states, createEmptyState(id))
  BY <1>7 DEF states, new
<1>16. t.conversations = [s.conversations EXCEPT ![id] = Len(s.states) + 1]
  BY <1>7 DEF map, ref
<1> QED  BY <1>4, <1>7, <1>9, <1>11, <1>12, <1>13, <1>14, <1>15, <1>16 DEF t, ref, new

\* What an operation on the conversation id does: id is in the Map afterwards, with the
\* state it had or a new one, and another conversation is in the Map as it was or makes
\* room, a dirty one only if all are.
Taken(s, t, id) ==
    LET ref == RefFor(s, id)
    IN  /\ StoreOK(t) /\ Grows(s, t) /\ Flagged(s, t)
        /\ DOMAIN t.states = DOMAIN s.states \cup {ref}
        /\ t.conversations[id] = ref /\ has(t, id) /\ t.states[ref].id = id
        /\ \A other \in ConversationId \ {id} :
              t.conversations[other] \in {s.conversations[other], Absent}
        /\ \A other \in ConversationId : IsDirty(s, other) /\ ~has(t, other) =>
              Live(s) = getDirty(s)
        /\ Cardinality(Live(s) \cup {id}) <= MaxConversations =>
              t.conversations = [s.conversations EXCEPT ![id] = ref]
        /\ has(s, id) => t.conversations = s.conversations

LEMMA TakenThen ==
    ASSUME NEW s, NEW t, NEW u, NEW id \in ConversationId, Taken(s, t, id),
           StoreOK(u), Grows(t, u), Flagged(t, u),
           u.conversations = t.conversations, DOMAIN u.states = DOMAIN t.states
    PROVE  Taken(s, u, id)
<1> DEFINE ref == RefFor(s, id)
<1>1. /\ Grows(s, t) /\ Flagged(s, t)
      /\ DOMAIN t.states = DOMAIN s.states \cup {ref}
      /\ t.conversations[id] = ref /\ has(t, id) /\ t.states[ref].id = id
  BY DEF Taken
<1>2. Grows(s, u) /\ Flagged(s, u)
  BY <1>1, GrowsTransitive, FlaggedTransitive
<1>3. u.states[ref].id = id
  BY <1>1 DEF Grows
<1>4. \A other \in ConversationId : has(u, other) = has(t, other)
  BY DEF has
<1> QED  BY <1>1, <1>2, <1>3, <1>4 DEF Taken

LEMMA GetOrCreateHas ==
    ASSUME NEW s, StoreOK(s), NEW id \in ConversationId, has(s, id)
    PROVE  LET t == getOrCreate(s, id)
           IN  /\ t = touchLRU(s, id) /\ StoreOK(t)
               /\ t.conversations = s.conversations /\ SameHeap(s, t)
<1> DEFINE t == touchLRU(s, id)
<1>1. Sound(s) /\ Small(s)
  BY DEF StoreOK
<1>2. Live(s) = Live(s) \cup {id}
  BY DEF Live
<1>3. /\ Sound(t) /\ SameHeap(s, t) /\ t.conversations = s.conversations
  BY <1>1, <1>2, TouchOK DEF Sound
<1>4. Live(t) = Live(s)
  BY <1>3 DEF Live, has
<1>5. StoreOK(t) /\ Cardinality(Live(t)) <= MaxConversations
  BY <1>1, <1>3, <1>4 DEF StoreOK, Small
<1>6. getOrCreate(s, id) = t
  BY <1>5 DEF getOrCreate, evictIfNeeded
<1> HIDE DEF t
<1> QED  BY <1>3, <1>5, <1>6 DEF t

LEMMA GetOrCreateOK ==
    ASSUME NEW s, StoreOK(s), NEW id \in ConversationId
    PROVE  LET t == getOrCreate(s, id)
           IN  /\ Taken(s, t, id) /\ t.messages = s.messages
               /\ ~has(s, id) => t.states = Append(s.states, createEmptyState(id))
<1> DEFINE t == getOrCreate(s, id)
           ref == RefFor(s, id)
<1>1. s \in StoreType /\ Held(s) /\ Chained(s) /\ Lists(s.accessOrder, Live(s)) /\ Small(s)
  BY DEF StoreOK, Sound
<1>2. /\ s.conversations \in [ConversationId -> Nat]
      /\ DOMAIN s.states = 1 .. Len(s.states) /\ Len(s.states) \in Nat
  BY <1>1 DEF StoreType
<1>3. CASE has(s, id)
  <2>1. StoreOK(t) /\ t.conversations = s.conversations /\ SameHeap(s, t)
    BY <1>3, GetOrCreateHas
  <2>2. Grows(s, t) /\ Flagged(s, t)
    BY <2>1, SameHeapGrows
  <2>3. ref = s.conversations[id] /\ ref \in DOMAIN s.states /\ s.states[ref].id = id
    BY <1>1, <1>3 DEF RefFor, Held, Current
  <2>4. [s.conversations EXCEPT ![id] = ref] = s.conversations
    BY <1>2, <2>3
  <2>5. \A other \in ConversationId : has(s, other) => has(t, other)
    BY <2>1 DEF has
  <2>6. DOMAIN s.states = DOMAIN s.states \cup {ref}
    BY <2>3
  <2> HIDE DEF t, ref
  <2> QED  BY <1>3, <2>1, <2>2, <2>3, <2>4, <2>5, <2>6 DEF Taken, SameHeap, IsDirty, t, ref
<1>4. CASE ~has(s, id)
  <2> DEFINE c == Created(s, id)
             g == touchLRU(c, id)
             map == [s.conversations EXCEPT ![id] = ref]
  <2>1. ref = Len(s.states) + 1
    BY <1>4 DEF RefFor
  <2>2. /\ c \in StoreType /\ Held(c) /\ Chained(c)
        /\ c.accessOrder = s.accessOrder /\ c.messages = s.messages
        /\ c.conversations = map
        /\ ref \in DOMAIN c.states /\ c.states[ref] = createEmptyState(id)
        /\ DOMAIN c.states = DOMAIN s.states \cup {ref}
        /\ \A other \in DOMAIN s.states : c.states[other] = s.states[other]
        /\ Live(c) = Live(s) \cup {id} /\ IsDirty(c, id)
        /\ Grows(s, c) /\ Flagged(s, c)
    BY <1>4, <2>1, CreatedOK
  <2>17. c.states = Append(s.states, createEmptyState(id))
    BY <1>4, CreatedOK
  <2> HIDE DEF c
  <2>3. /\ Sound(g) /\ SameHeap(c, g) /\ g.conversations = c.conversations
        /\ Len(g.accessOrder) \in DOMAIN g.accessOrder
        /\ g.accessOrder[Len(g.accessOrder)] = id
    <3>1. Lists(c.accessOrder, Live(s))  BY <1>1, <2>2
    <3>2. c \in StoreType /\ Held(c) /\ Chained(c)  BY <2>2
    <3>3. Live(c) = Live(s) \cup {id}  BY <2>2
    <3> QED  BY <3>1, <3>2, <3>3, TouchOK
  <2>4. t = evictIfNeeded(g)
    BY <1>4 DEF getOrCreate, c, Created
  <2> HIDE DEF g
  <2>5. Live(g) = Live(s) \cup {id} /\ IsDirty(g, id)
    BY <2>2, <2>3 DEF Live, has, IsDirty, Current, SameHeap
  <2>6. /\ IsFiniteSet(Live(g)) /\ Cardinality(Live(g)) <= MaxConversations + 1
    <3>1. IsFiniteSet(Live(s)) /\ Cardinality(Live(s)) \in Nat
          /\ Cardinality(Live(s)) <= MaxConversations
      BY <1>1, FS_CardinalityType DEF Small
    <3>2. id \notin Live(s)  BY <1>4 DEF Live
    <3>3. /\ IsFiniteSet(Live(s) \cup {id})
          /\ Cardinality(Live(s) \cup {id}) = Cardinality(Live(s)) + 1
      BY <3>1, <3>2, FS_AddElement
    <3> QED  BY <2>5, <3>1, <3>3, StoreAssumption
  <2>7. /\ StoreOK(t) /\ SameHeap(g, t)
        /\ Cardinality(Live(g)) <= MaxConversations => t = g
        /\ \A other \in ConversationId :
              t.conversations[other] \in {g.conversations[other], Absent}
        /\ t.conversations[id] = g.conversations[id]
        /\ \A other \in ConversationId : IsDirty(g, other) /\ ~has(t, other) =>
              Live(g) = getDirty(g)
    BY <2>3, <2>4, <2>5, <2>6, EvictIfNeededOK
  <2> HIDE DEF t
  <2>8. Grows(s, t) /\ Flagged(s, t)
    BY <2>2, <2>3, <2>7, SameHeapGrows, GrowsTransitive, FlaggedTransitive
  <2>9. /\ t.states = c.states /\ t.messages = s.messages
    BY <2>2, <2>3, <2>7 DEF SameHeap
  <2>10. /\ map[id] = ref
         /\ \A other \in ConversationId \ {id} : map[other] = s.conversations[other]
    BY <1>2
  <2>11. ASSUME NEW other \in ConversationId, has(s, other)
         PROVE  other # id /\ IsDirty(g, other) = IsDirty(s, other)
    <3>1. other # id  BY <1>4, <2>11
    <3>2. g.conversations[other] = s.conversations[other]
      BY <2>2, <2>3, <2>10, <3>1
    <3>3. s.conversations[other] \in DOMAIN s.states
      BY <1>1, <2>11 DEF Held
    <3>4. g.states[s.conversations[other]] = s.states[s.conversations[other]]
      BY <2>2, <2>3, <3>3 DEF SameHeap
    <3> QED  BY <2>11, <3>1, <3>2, <3>4 DEF IsDirty, has, Current
  <2>12. ASSUME NEW other \in ConversationId, IsDirty(s, other), ~has(t, other)
         PROVE  Live(s) = getDirty(s)
    <3>1. has(s, other) /\ IsDirty(g, other)  BY <2>11, <2>12 DEF IsDirty
    <3>2. Live(g) = getDirty(g)  BY <2>7, <2>12, <3>1
    <3>3. ASSUME NEW x \in Live(s) PROVE IsDirty(s, x)
      <4>1. x \in ConversationId /\ has(s, x) /\ x \in Live(g)  BY <2>5 DEF Live
      <4>2. IsDirty(g, x)  BY <3>2, <4>1 DEF getDirty
      <4> QED  BY <2>11, <4>1, <4>2
    <3> QED  BY <3>3 DEF Live, getDirty, IsDirty
  <2>13. Cardinality(Live(s) \cup {id}) <= MaxConversations => t.conversations = map
    BY <2>2, <2>3, <2>5, <2>7
  <2>14. t.conversations[id] = ref /\ \A other \in ConversationId \ {id} :
              t.conversations[other] \in {s.conversations[other], Absent}
    BY <2>2, <2>3, <2>7, <2>10
  <2>15. createEmptyState(id).id = id
    BY DEF createEmptyState
  <2>16. has(t, id)
    BY <2>1, <2>14, <1>2 DEF has, Absent
  <2> HIDE DEF ref, map
  <2> QED  BY <1>4, <2>2, <2>7, <2>8, <2>9, <2>12, <2>13, <2>14, <2>15, <2>16, <2>17
           DEF Taken, t, ref, map
<1> QED  BY <1>3, <1>4

-------------------------------------------------------------------------------
(* Writing to a state *)

\* What pushed has more than old is of the conversation id, each chained to the one before.
Chains(pushed, old, id, messages) == \A i \in DOMAIN pushed \ DOMAIN old :
    /\ pushed[i] \in DOMAIN messages
    /\ messages[pushed[i]].conversation = id
    /\ messages[pushed[i]].parent = IF i = 1 THEN 0 ELSE pushed[i - 1]

\* The state ref becomes state and the messages become messages: what was there stays,
\* and what is added is chained.
Extends(s, ref, state, messages) ==
    LET old == s.states[ref].messages
    IN  /\ state.id = s.states[ref].id
        /\ DOMAIN s.messages \subseteq DOMAIN messages
        /\ \A m \in DOMAIN s.messages : messages[m] = s.messages[m]
        /\ DOMAIN old \subseteq DOMAIN state.messages
        /\ \A i \in DOMAIN old : state.messages[i] = old[i]
        /\ Chains(state.messages, old, state.id, messages)

Write(s, ref, state, messages) ==
    [s EXCEPT !.states[ref] = state, !.messages = messages]

\* The store t is s with the state ref written.
Written(s, t, ref, state) ==
    /\ StoreOK(t) /\ Grows(s, t) /\ t.conversations = s.conversations
    /\ DOMAIN t.states = DOMAIN s.states /\ t.states[ref] = state
    /\ \A other \in DOMAIN s.states \ {ref} : t.states[other] = s.states[other]
    /\ state.dirty => Flagged(s, t)

LEMMA WriteOK ==
    ASSUME NEW s, StoreOK(s), NEW ref \in DOMAIN s.states,
           NEW state \in StateType, NEW messages \in Seq(MessageType),
           Extends(s, ref, state, messages)
    PROVE  Written(s, Write(s, ref, state, messages), ref, state)
           /\ Write(s, ref, state, messages).messages = messages
<1> DEFINE t == Write(s, ref, state, messages)
           states == [s.states EXCEPT ![ref] = state]
<1>1. /\ s \in StoreType /\ Lists(s.accessOrder, Live(s)) /\ Held(s) /\ Chained(s) /\ Small(s)
      /\ s.states \in Seq(StateType)
  BY TypeParts DEF StoreOK, Sound
<1>2. /\ states \in Seq(StateType) /\ DOMAIN states = DOMAIN s.states
      /\ states[ref] = state
      /\ \A other \in DOMAIN s.states \ {ref} : states[other] = s.states[other]
  BY <1>1
<1>3. t = [s EXCEPT !.states = states, !.messages = messages]
  BY DEF Write
<1> HIDE DEF states, t
<1>4. /\ t \in StoreType /\ t.conversations = s.conversations /\ t.states = states
      /\ t.messages = messages /\ t.accessOrder = s.accessOrder
  BY <1>1, <1>2, <1>3 DEF StoreType
<1>5. Live(t) = Live(s) /\ \A id \in ConversationId : has(t, id) = has(s, id)
  BY <1>4 DEF Live, has
<1>6. state.id = s.states[ref].id
  BY DEF Extends
<1>7. Held(t)
  BY <1>1, <1>2, <1>4, <1>5, <1>6 DEF Held, Current
<1>8. ASSUME NEW i \in DOMAIN state.messages
      PROVE  LET m == state.messages[i]
             IN  /\ m \in DOMAIN messages
                 /\ messages[m].conversation = state.id
                 /\ messages[m].parent = IF i = 1 THEN 0 ELSE state.messages[i - 1]
  <2> DEFINE old == s.states[ref].messages
  <2>1. CASE i \in DOMAIN old
    <3>1. /\ old[i] \in DOMAIN s.messages
          /\ s.messages[old[i]].conversation = s.states[ref].id
          /\ s.messages[old[i]].parent = IF i = 1 THEN 0 ELSE old[i - 1]
      BY <1>1, <2>1 DEF Chained
    <3>2. old \in Seq(Nat)
      <4>1. s.states[ref] \in StateType  BY <1>1
      <4> QED  BY <4>1 DEF StateType
    <3>3. i # 1 => i - 1 \in DOMAIN old
      BY <2>1, <3>2
    <3> HIDE DEF old
    <3>4. /\ state.messages[i] = old[i]
          /\ i # 1 => state.messages[i - 1] = old[i - 1]
          /\ old[i] \in DOMAIN messages /\ messages[old[i]] = s.messages[old[i]]
      BY <2>1, <3>1, <3>3 DEF Extends, old
    <3> QED  BY <3>1, <3>4, <1>6
  <2>2. CASE i \notin DOMAIN old
    BY <2>2 DEF Extends, Chains
  <2> QED  BY <2>1, <2>2
<1>9. Chained(t)
  <2>1. ASSUME NEW other \in DOMAIN s.states \ {ref}, NEW i \in DOMAIN s.states[other].messages
        PROVE  LET m == s.states[other].messages[i]
               IN  m \in DOMAIN messages /\ messages[m] = s.messages[m]
    BY <1>1 DEF Chained, Extends
  <2>2. ASSUME NEW other \in DOMAIN s.states \ {ref}, NEW i \in DOMAIN s.states[other].messages
        PROVE  LET m == s.states[other].messages[i]
               IN  /\ m \in DOMAIN messages
                   /\ messages[m].conversation = s.states[other].id
                   /\ messages[m].parent = IF i = 1 THEN 0 ELSE s.states[other].messages[i - 1]
    BY <1>1, <2>1 DEF Chained
  <2>3. \A other \in DOMAIN t.states : other # ref => t.states[other] = s.states[other]
    BY <1>2, <1>4
  <2>4. t.states[ref] = state /\ t.messages = messages /\ DOMAIN t.states = DOMAIN s.states
    BY <1>2, <1>4
  <2>5. SUFFICES ASSUME NEW other \in DOMAIN t.states, NEW i \in DOMAIN t.states[other].messages
                 PROVE  LET m == t.states[other].messages[i]
                        IN  /\ m \in DOMAIN t.messages
                            /\ t.messages[m].conversation = t.states[other].id
                            /\ t.messages[m].parent =
                                  IF i = 1 THEN 0 ELSE t.states[other].messages[i - 1]
    BY DEF Chained
  <2>6. CASE other = ref  BY <2>4, <2>6, <1>8
  <2>7. CASE other # ref  BY <2>2, <2>3, <2>4, <2>7
  <2> QED  BY <2>6, <2>7
<1>10. Grows(s, t)
  BY <1>2, <1>4 DEF Grows, Extends
<1>11. state.dirty => Flagged(s, t)
  BY <1>2, <1>4 DEF Flagged
<1>12. StoreOK(t)
  BY <1>1, <1>4, <1>5, <1>7, <1>9 DEF StoreOK, Sound, Small
<1> QED  BY <1>2, <1>4, <1>10, <1>11, <1>12 DEF Written, t

\* A state is renamed or its dirty flag is set, with no messages added.
LEMMA MarkedOK ==
    ASSUME NEW s, StoreOK(s), NEW ref \in DOMAIN s.states, NEW title \in Title,
           NEW dirty \in BOOLEAN
    PROVE  LET state == [s.states[ref] EXCEPT !.title = title, !.dirty = dirty]
           IN  Written(s, Write(s, ref, state, s.messages), ref, state)
<1> DEFINE state == [s.states[ref] EXCEPT !.title = title, !.dirty = dirty]
<1>1. s.states[ref] \in StateType /\ s.messages \in Seq(MessageType)
  BY TypeParts DEF StoreOK, Sound
<1>2. /\ state \in StateType
      /\ state.id = s.states[ref].id /\ state.messages = s.states[ref].messages
  BY <1>1 DEF StateType
<1>3. Extends(s, ref, state, s.messages)
  BY <1>2 DEF Extends, Chains
<1> HIDE DEF state
<1>4. Written(s, Write(s, ref, state, s.messages), ref, state)
  BY <1>1, <1>2, <1>3, WriteOK
<1> QED  BY <1>4 DEF state

LEMMA MarkDirtyOK ==
    ASSUME NEW s, StoreOK(s), NEW ref \in DOMAIN s.states
    PROVE  Written(s, markDirty(s, ref), ref, [s.states[ref] EXCEPT !.dirty = TRUE])
<1>1. /\ s.states[ref] \in StateType /\ s.messages \in Seq(MessageType)
      /\ s \in StoreType /\ s.states \in Seq(StateType)
  BY TypeParts DEF StoreOK, Sound
<1> DEFINE title == s.states[ref].title
           state == [s.states[ref] EXCEPT !.title = title, !.dirty = TRUE]
<1>2. title \in Title /\ state = [s.states[ref] EXCEPT !.dirty = TRUE]
  BY <1>1 DEF StateType
<1>3. Written(s, Write(s, ref, state, s.messages), ref, state)
  <2> HIDE DEF title
  <2> QED  BY <1>2, MarkedOK
<1>4. markDirty(s, ref) = Write(s, ref, state, s.messages)
  BY <1>1, <1>2 DEF markDirty, Write, StoreType
<1> QED  BY <1>2, <1>3, <1>4

\* New messages are pushed and the state is marked dirty.
LEMMA PushedOK ==
    ASSUME NEW s, StoreOK(s), NEW ref \in DOMAIN s.states, NEW n \in Nat \ {0}
    PROVE  LET t == markDirty(PushAll(s, ref, n), ref)
           IN  \E state : state.dirty /\ Written(s, t, ref, state)
<1> DEFINE t == markDirty(PushAll(s, ref, n), ref)
           old == s.states[ref]
           last == Len(s.messages)
           parent(k) == IF k = 1 THEN LastOf(old.messages) ELSE last + k - 1
           ids == [k \in 1 .. n |-> last + k]
           new == [k \in 1 .. n |-> [conversation |-> old.id, parent |-> parent(k)]]
           messages == s.messages \o new
           pushed == old.messages \o ids
           state == [old EXCEPT !.messages = pushed, !.dirty = TRUE]
<1>1. s \in StoreType /\ Chained(s)
  BY DEF StoreOK, Sound
<1>2. /\ old \in StateType /\ s.messages \in Seq(MessageType) /\ last \in Nat
      /\ s.states \in Seq(StateType)
  BY <1>1, TypeParts
<1>3. old.messages \in Seq(Nat) /\ old.id \in ConversationId
  BY <1>2 DEF StateType
<1>4. LastOf(old.messages) \in Nat
  BY <1>3 DEF LastOf
<1>5. /\ new \in Seq(MessageType) /\ Len(new) = n
      /\ \A k \in 1 .. n : new[k] = [conversation |-> old.id, parent |-> parent(k)]
  <2> HIDE DEF old, last
  <2>1. \A k \in 1 .. n : [conversation |-> old.id, parent |-> parent(k)] \in MessageType
    BY <1>2, <1>3, <1>4 DEF MessageType
  <2> HIDE DEF parent
  <2> QED  BY <2>1
<1>6. /\ ids \in Seq(Nat) /\ Len(ids) = n /\ \A k \in 1 .. n : ids[k] = last + k
  <2> HIDE DEF last
  <2> QED  BY <1>2
<1> HIDE DEF new, ids
<1>7. /\ messages \in Seq(MessageType)
      /\ DOMAIN messages = 1 .. last + n /\ DOMAIN s.messages = 1 .. last
      /\ \A m \in 1 .. last : messages[m] = s.messages[m]
      /\ \A k \in 1 .. n : messages[last + k] = new[k]
  <2>1. s.messages \in Seq(MessageType) /\ new \in Seq(MessageType) /\ Len(new) = n
    BY <1>2, <1>5
  <2>2. messages \in Seq(MessageType) /\ Joins(messages, s.messages, new)
    BY <2>1, Joined
  <2>3. DOMAIN s.messages = 1 .. last /\ Len(s.messages) = last
    BY <2>1
  <2> HIDE DEF messages, last
  <2> QED  BY <2>1, <2>2, <2>3 DEF Joins
<1> DEFINE count == Len(old.messages)
<1>8. /\ pushed \in Seq(Nat) /\ count \in Nat
      /\ DOMAIN pushed = 1 .. count + n /\ DOMAIN old.messages = 1 .. count
      /\ \A i \in 1 .. count : pushed[i] = old.messages[i]
      /\ \A k \in 1 .. n : pushed[count + k] = ids[k]
  <2>1. old.messages \in Seq(Nat) /\ ids \in Seq(Nat) /\ Len(ids) = n
    BY <1>3, <1>6
  <2>2. pushed \in Seq(Nat) /\ Joins(pushed, old.messages, ids)
    BY <2>1, Joined
  <2>3. DOMAIN old.messages = 1 .. count /\ count \in Nat /\ Len(old.messages) = count
    BY <2>1
  <2> HIDE DEF pushed, count, old
  <2> QED  BY <2>1, <2>2, <2>3 DEF Joins
<1>9. \A i \in 1 .. count + n : i > count => i - count \in 1 .. n /\ i = count + (i - count)
  BY <1>8
<1>10. count # 0 => LastOf(old.messages) = old.messages[count]
  BY <1>3 DEF LastOf
<1>11. count = 0 => LastOf(old.messages) = 0
  BY <1>3 DEF LastOf
<1> HIDE DEF pushed, messages, old, count, last
<1>12. state \in StateType /\ state.id = old.id /\ state.messages = pushed /\ state.dirty
  BY <1>2, <1>8 DEF StateType
<1> HIDE DEF state
<1>13. ASSUME NEW k \in 1 .. n, NEW i, i = count + k
       PROVE  parent(k) = IF i = 1 THEN 0 ELSE pushed[i - 1]
  <2>1. CASE k = 1
    <3>1. count # 0 => pushed[count] = old.messages[count]  BY <1>8
    <3>2. i = 1 <=> count = 0  BY <2>1, <1>8, <1>13
    <3>3. i - 1 = count  BY <2>1, <1>8, <1>13
    <3>4. parent(k) = LastOf(old.messages)  BY <2>1
    <3> HIDE DEF parent
    <3> QED  BY <1>10, <1>11, <3>1, <3>2, <3>3, <3>4
  <2>2. CASE k # 1
    <3>1. k - 1 \in 1 .. n /\ i # 1 /\ i - 1 = count + (k - 1)
      BY <2>2, <1>8, <1>13
    <3>2. pushed[count + (k - 1)] = last + (k - 1)
      BY <3>1, <1>6, <1>8
    <3>3. last + (k - 1) = last + k - 1  BY <1>2, <2>2
    <3>4. parent(k) = last + k - 1  BY <2>2
    <3> HIDE DEF parent
    <3> QED  BY <3>1, <3>2, <3>3, <3>4
  <2> QED  BY <2>1, <2>2
<1>14. ASSUME NEW k \in 1 .. n
       PROVE  /\ pushed[count + k] = last + k
              /\ last + k \in DOMAIN messages
              /\ messages[last + k] = [conversation |-> old.id, parent |-> parent(k)]
  <2> HIDE DEF parent
  <2>1. pushed[count + k] = last + k
    BY <1>6, <1>8
  <2>2. last + k \in DOMAIN messages
    BY <1>2, <1>7
  <2>3. messages[last + k] = [conversation |-> old.id, parent |-> parent(k)]
    BY <1>5, <1>7
  <2> QED  BY <2>1, <2>2, <2>3
<1> HIDE DEF parent
<1>15. Chains(pushed, old.messages, old.id, messages)
  <2>1. SUFFICES ASSUME NEW i \in DOMAIN pushed \ DOMAIN old.messages
                 PROVE  /\ pushed[i] \in DOMAIN messages
                        /\ messages[pushed[i]].conversation = old.id
                        /\ messages[pushed[i]].parent = IF i = 1 THEN 0 ELSE pushed[i - 1]
    BY DEF Chains
  <2>2. i \in 1 .. count + n /\ i > count  BY <1>8
  <2>3. i - count \in 1 .. n /\ i = count + (i - count)  BY <1>9, <2>2
  <2>4. PICK k \in 1 .. n : i = count + k  BY <2>3
  <2>5. pushed[i] = last + k /\ last + k \in DOMAIN messages
    BY <1>14, <2>4
  <2>6. messages[pushed[i]] = [conversation |-> old.id, parent |-> parent(k)]
    BY <1>14, <2>5
  <2>7. parent(k) = IF i = 1 THEN 0 ELSE pushed[i - 1]
    BY <1>13, <2>4
  <2> QED  BY <2>5, <2>6, <2>7
<1>16. Extends(s, ref, state, messages)
  <2>1. s.states[ref].messages = old.messages /\ s.states[ref].id = old.id
    BY DEF old
  <2>2. DOMAIN s.messages \subseteq DOMAIN messages /\ DOMAIN old.messages \subseteq DOMAIN pushed
    BY <1>2, <1>7, <1>8
  <2> QED  BY <1>7, <1>8, <1>12, <1>15, <2>1, <2>2 DEF Extends
<1>17. t = Write(s, ref, state, messages)
  <2> DEFINE p == PushAll(s, ref, n)
  <2>1. p = [s EXCEPT !.messages = messages, !.states[ref].messages = pushed]
    BY DEF PushAll, messages, pushed, new, ids, parent, old, last
  <2> HIDE DEF p
  <2>2. /\ p = [s EXCEPT !.messages = messages, !.states = p.states]
        /\ p.states = [s.states EXCEPT ![ref] = [old EXCEPT !.messages = pushed]]
    BY <1>1, <2>1 DEF StoreType, old
  <2>3. t = [p EXCEPT !.states = [p.states EXCEPT ![ref] = [p.states[ref] EXCEPT !.dirty = TRUE]]]
    BY <1>1, <2>2 DEF markDirty, StoreType, p
  <2>4. p.states[ref] = [old EXCEPT !.messages = pushed]
    BY <2>2
  <2>5. [p.states EXCEPT ![ref] = [p.states[ref] EXCEPT !.dirty = TRUE]]
           = [s.states EXCEPT ![ref] = state]
    BY <1>2, <2>2, <2>4 DEF state, StateType
  <2> HIDE DEF t
  <2> QED  BY <1>1, <2>2, <2>3, <2>5 DEF Write, StoreType
<1>18. Written(s, t, ref, state)
  BY <1>7, <1>12, <1>16, <1>17, WriteOK
<1> QED  BY <1>12, <1>18

-------------------------------------------------------------------------------
(* The operations *)

LEMMA WrittenTaken ==
    ASSUME NEW s, NEW t, NEW u, NEW id \in ConversationId, Taken(s, t, id),
           NEW ref, NEW state, state.dirty, Written(t, u, ref, state)
    PROVE  Taken(s, u, id)
<1>1. /\ StoreOK(u) /\ Grows(t, u) /\ Flagged(t, u)
      /\ u.conversations = t.conversations /\ DOMAIN u.states = DOMAIN t.states
  BY DEF Written
<1> QED  BY <1>1, TakenThen

LEMMA AppendMessagesOK ==
    ASSUME NEW s, StoreOK(s), NEW id \in ConversationId, NEW n \in Nat
    PROVE  Taken(s, appendMessages(s, id, n), id)
<1> DEFINE t == getOrCreate(s, id)
           ref == RefFor(s, id)
           u == markDirty(PushAll(t, ref, n), ref)
<1>1. Taken(s, t, id)
  BY GetOrCreateOK
<1>2. CASE n = 0
  BY <1>1, <1>2 DEF appendMessages
<1>3. CASE n # 0
  <2>1. StoreOK(t) /\ ref \in DOMAIN t.states
    BY <1>1 DEF Taken
  <2> HIDE DEF t, ref
  <2>2. \E state : state.dirty /\ Written(t, u, ref, state)
    BY <1>3, <2>1, PushedOK
  <2>3. Taken(s, u, id)
    BY <1>1, <2>2, WrittenTaken
  <2> QED  BY <1>3, <2>3 DEF appendMessages, t, ref
<1> QED  BY <1>2, <1>3

LEMMA JoinedLength ==
    ASSUME NEW A, NEW B, NEW a \in Seq(A), NEW b \in Seq(B)
    PROVE  Len(a \o b) = Len(a) + Len(b)
  OBVIOUS

LEMMA AppendedMessages ==
    ASSUME NEW s, StoreOK(s), NEW id \in ConversationId, NEW n \in Nat
    PROVE  Len(appendMessages(s, id, n).messages) = Len(s.messages) + n
<1> DEFINE t == getOrCreate(s, id)
           ref == RefFor(s, id)
           u == PushAll(t, ref, n)
<1>1. Taken(s, t, id) /\ t.messages = s.messages
  BY GetOrCreateOK
<1>2. t \in StoreType /\ s.messages \in Seq(MessageType) /\ Len(s.messages) \in Nat
  BY <1>1, TypeParts DEF Taken, StoreOK, Sound
<1>3. CASE n = 0
  BY <1>1, <1>2, <1>3 DEF appendMessages
<1>4. CASE n # 0
  <2> DEFINE last == Len(t.messages)
             parent(k) == IF k = 1 THEN LastOf(t.states[ref].messages) ELSE last + k - 1
             new == [k \in 1 .. n |-> [conversation |-> t.states[ref].id, parent |-> parent(k)]]
  <2> HIDE DEF t, ref
  <2>1. markDirty(u, ref).messages = u.messages
    BY <1>2 DEF markDirty, PushAll, StoreType
  <2>2. u.messages = t.messages \o new
    BY <1>2 DEF PushAll, StoreType
  <2>3. DOMAIN new = 1 .. n /\ new = [k \in 1 .. n |-> new[k]]
    OBVIOUS
  <2> HIDE DEF new
  <2> DEFINE S == {new[k] : k \in 1 .. n}
  <2>4. new \in Seq(S) /\ Len(new) = n
    BY <1>4, <2>3
  <2> HIDE DEF S
  <2>5. Len(t.messages \o new) = Len(t.messages) + Len(new)
    <3>1. t.messages \in Seq(MessageType)
      BY <1>1, <1>2
    <3> QED  BY <2>4, <3>1, JoinedLength
  <2> HIDE DEF u
  <2>6. Len(u.messages) = Len(s.messages) + n
    BY <1>1, <2>2, <2>4, <2>5
  <2>7. appendMessages(s, id, n) = markDirty(u, ref)
    BY <1>4 DEF appendMessages, t, ref, u
  <2> QED  BY <2>1, <2>6, <2>7
<1> QED  BY <1>3, <1>4

LEMMA HeldRef ==
    ASSUME NEW s, StoreOK(s), NEW id \in ConversationId, has(s, id)
    PROVE  /\ s.conversations[id] \in DOMAIN s.states
           /\ s.states[s.conversations[id]].id = id
           /\ RefFor(s, id) = s.conversations[id]
  BY DEF StoreOK, Sound, Held, Current, RefFor

\* get() moves the conversation in the list, if it is there.
LEMMA GetOK ==
    ASSUME NEW s, StoreOK(s), NEW id \in ConversationId
    PROVE  LET t == get(s, id)
           IN  StoreOK(t) /\ SameHeap(s, t) /\ t.conversations = s.conversations
<1>1. CASE has(s, id)
  BY <1>1, GetOrCreateHas DEF get
<1>2. CASE ~has(s, id)
  BY <1>2 DEF get, SameHeap
<1> QED  BY <1>1, <1>2

\* setTitle() of a conversation in the Map.
LEMMA SetTitleOK ==
    ASSUME NEW s, StoreOK(s), NEW id \in ConversationId, NEW title \in Title, has(s, id)
    PROVE  LET t == setTitle(s, id, title)
           IN  /\ StoreOK(t) /\ Grows(s, t) /\ Flagged(s, t)
               /\ t.conversations = s.conversations /\ DOMAIN t.states = DOMAIN s.states
               /\ t.states[s.conversations[id]].dirty
<1> DEFINE g == get(s, id)
           ref == s.conversations[id]
           state == [g.states[ref] EXCEPT !.title = title, !.dirty = TRUE]
           t == Write(g, ref, state, g.messages)
<1>1. StoreOK(g) /\ SameHeap(s, g) /\ g.conversations = s.conversations
  BY GetOK
<1>2. ref \in DOMAIN g.states
  BY <1>1, HeldRef DEF SameHeap
<1>3. Written(g, t, ref, state)
  <2> HIDE DEF g, ref
  <2> QED  BY <1>1, <1>2, MarkedOK
<1>4. g.states[ref] \in StateType /\ g \in StoreType
  BY <1>1, <1>2, TypeParts DEF StoreOK, Sound
<1>5. setTitle(s, id, title) = t
  <2> HIDE DEF g
  <2> QED  BY <1>2, <1>4 DEF setTitle, markDirty, Write, StateType, StoreType, g
<1>6. state.dirty
  BY <1>4 DEF StateType
<1> HIDE DEF state, g, t
<1>7. Grows(s, g) /\ Flagged(s, g)
  BY <1>1, SameHeapGrows
<1>8. Grows(s, t) /\ Flagged(s, t)
  BY <1>3, <1>6, <1>7, GrowsTransitive, FlaggedTransitive DEF Written
<1> QED  BY <1>1, <1>3, <1>5, <1>6, <1>8 DEF Written, SameHeap

LEMMA CreateFromTurnsOK ==
    ASSUME NEW s, StoreOK(s), NEW id \in ConversationId, NEW n \in Nat, NEW title \in Title
    PROVE  Taken(s, createFromTurns(s, id, n, title), id)
<1> DEFINE t == getOrCreate(s, id)
           u == appendMessages(t, id, n)
           v == setTitle(u, id, title)
<1>1. Taken(s, t, id)
  BY GetOrCreateOK
<1>2. StoreOK(t) /\ has(t, id)
  BY <1>1 DEF Taken
<1> HIDE DEF t
<1>3. Taken(t, u, id)
  BY <1>2, AppendMessagesOK
<1>4. /\ StoreOK(u) /\ Grows(t, u) /\ Flagged(t, u)
      /\ u.conversations = t.conversations /\ has(u, id)
  BY <1>2, <1>3 DEF Taken
<1>5. DOMAIN u.states = DOMAIN t.states
  <2>1. RefFor(t, id) \in DOMAIN t.states  BY <1>2, HeldRef
  <2> QED  BY <1>3, <2>1 DEF Taken
<1>6. Taken(s, u, id)
  BY <1>1, <1>4, <1>5, TakenThen
<1> HIDE DEF u
<1>7. /\ StoreOK(v) /\ Grows(u, v) /\ Flagged(u, v)
      /\ v.conversations = u.conversations /\ DOMAIN v.states = DOMAIN u.states
  BY <1>4, SetTitleOK
<1> HIDE DEF v
<1>8. Taken(s, v, id)
  BY <1>6, <1>7, TakenThen
<1> QED  BY <1>8 DEF createFromTurns, v, u, t

LEMMA MarkSyncedOK ==
    ASSUME NEW s, StoreOK(s), NEW id \in ConversationId
    PROVE  LET t == markSynced(s, id)
               ref == s.conversations[id]
           IN  IF has(s, id)
               THEN Written(s, t, ref, [s.states[ref] EXCEPT !.dirty = FALSE])
               ELSE t = s
<1>1. CASE ~has(s, id)
  BY <1>1 DEF markSynced
<1>2. CASE has(s, id)
  <2> DEFINE ref == s.conversations[id]
             title == s.states[ref].title
             state == [s.states[ref] EXCEPT !.title = title, !.dirty = FALSE]
  <2>1. ref \in DOMAIN s.states
    BY <1>2, HeldRef
  <2>2. s.states[ref] \in StateType /\ s \in StoreType /\ s.states \in Seq(StateType)
    BY <2>1, TypeParts DEF StoreOK, Sound
  <2>3. title \in Title /\ state = [s.states[ref] EXCEPT !.dirty = FALSE]
    BY <2>2 DEF StateType
  <2> HIDE DEF ref
  <2>4. Written(s, Write(s, ref, state, s.messages), ref, state)
    <3> HIDE DEF title
    <3> QED  BY <2>1, <2>3, MarkedOK
  <2>5. markSynced(s, id) = Write(s, ref, state, s.messages)
    BY <1>2, <2>2, <2>3 DEF markSynced, Write, StoreType, ref
  <2> QED  BY <1>2, <2>3, <2>4, <2>5 DEF ref
<1> QED  BY <1>1, <1>2

LEMMA DeleteOK ==
    ASSUME NEW s, StoreOK(s), NEW id \in ConversationId
    PROVE  LET t == deleteConversation(s, id)
           IN  /\ StoreOK(t) /\ SameHeap(s, t)
               /\ \A other \in ConversationId \ {id} :
                     t.conversations[other] = s.conversations[other]
<1> DEFINE t == deleteConversation(s, id)
           q == Without(s.accessOrder, id)
           map == [s.conversations EXCEPT ![id] = Absent]
<1>1. s \in StoreType /\ Lists(s.accessOrder, Live(s)) /\ Held(s) /\ Chained(s) /\ Small(s)
  BY DEF StoreOK, Sound
<1>2. CASE ~has(s, id)
  BY <1>2 DEF deleteConversation, SameHeap
<1>3. CASE has(s, id)
  <2>1. Lists(q, Live(s) \ {id})
    BY <1>1, WithoutLists
  <2>2. q \in Seq(ConversationId)
    BY <2>1 DEF Lists
  <2>3. map \in [ConversationId -> Nat] /\ s.conversations \in [ConversationId -> Nat]
    BY <1>1, TypeParts DEF Absent
  <2>4. t = [s EXCEPT !.conversations = map, !.accessOrder = q]
    BY <1>1, <1>3 DEF deleteConversation, StoreType
  <2>5. \A other \in ConversationId : map[other] = IF other = id THEN Absent ELSE s.conversations[other]
    BY <2>3
  <2> HIDE DEF map, q, t
  <2>6. /\ t \in StoreType /\ SameHeap(s, t) /\ t.conversations = map /\ t.accessOrder = q
    BY <1>1, <2>2, <2>3, <2>4 DEF StoreType, SameHeap
  <2>7. Live(t) = Live(s) \ {id}
    BY <2>5, <2>6 DEF Live, has
  <2>8. \A other \in ConversationId : has(t, other) => t.conversations[other] = s.conversations[other]
    BY <2>5, <2>6 DEF has
  <2>9. Sound(t)
    BY <1>1, <2>1, <2>6, <2>7, <2>8, MapEdited
  <2>10. Small(t)
    <3>1. IsFiniteSet(Live(s)) /\ Cardinality(Live(s)) <= MaxConversations
      BY <1>1 DEF Small
    <3>2. id \in Live(s)
      BY <1>3 DEF Live
    <3>3. /\ IsFiniteSet(Live(s) \ {id})
          /\ Cardinality(Live(s) \ {id}) = Cardinality(Live(s)) - 1
          /\ Cardinality(Live(s)) \in Nat
      BY <3>1, <3>2, FS_RemoveElement, FS_CardinalityType
    <3> QED  BY <2>7, <3>1, <3>3, StoreAssumption DEF Small
  <2> QED  BY <2>5, <2>6, <2>9, <2>10 DEF StoreOK, t
<1> QED  BY <1>2, <1>3

LEMMA MarkDirtyByIdOK ==
    ASSUME NEW s, StoreOK(s), NEW id \in ConversationId
    PROVE  LET t == markDirtyById(s, id)
               ref == s.conversations[id]
           IN  IF has(s, id)
               THEN Written(s, t, ref, [s.states[ref] EXCEPT !.dirty = TRUE])
               ELSE t = s
<1>1. CASE ~has(s, id)
  BY <1>1 DEF markDirtyById
<1>2. CASE has(s, id)
  <2>1. s.conversations[id] \in DOMAIN s.states  BY <1>2, HeldRef
  <2> QED  BY <1>2, <2>1, MarkDirtyOK DEF markDirtyById
<1> QED  BY <1>1, <1>2

-------------------------------------------------------------------------------
(* The eviction loop *)

\* The list q after k of its entries were moved to the end.
Rotated(q, k) == SubSeq(q, k + 1, Len(q)) \o SubSeq(q, 1, k)

\* The entries of a list that was rotated, and of one without the entry at k + 1.
LEMMA RotatedEntries ==
    ASSUME NEW T, NEW q \in Seq(T), NEW k \in 0 .. Len(q)
    PROVE  /\ Rotated(q, k) \in Seq(T) /\ Len(Rotated(q, k)) = Len(q)
           /\ \A j \in 1 .. Len(q) :
                 Rotated(q, k)[j] = q[IF j <= Len(q) - k THEN j + k ELSE j - (Len(q) - k)]
<1> DEFINE a == SubSeq(q, k + 1, Len(q))
           b == SubSeq(q, 1, k)
<1>1. /\ a \in Seq(T) /\ Len(a) = Len(q) - k
      /\ \A j \in 1 .. Len(q) - k : a[j] = q[j + k]
  OBVIOUS
<1>2. b \in Seq(T) /\ Len(b) = k /\ \A j \in 1 .. k : b[j] = q[j]
  OBVIOUS
<1>3. Len(q) \in Nat /\ k \in Nat /\ k <= Len(q)
  OBVIOUS
<1> HIDE DEF a, b
<1>4. a \o b \in Seq(T) /\ Len(a \o b) = Len(q) /\ Joins(a \o b, a, b)
  <2>1. a \in Seq(T) /\ b \in Seq(T)
    BY <1>1, <1>2
  <2>2. Len(a \o b) = Len(a) + Len(b)
    BY <2>1
  <2>3. a \o b \in Seq(T) /\ Joins(a \o b, a, b)
    BY <2>1, Joined
  <2> QED  BY <2>2, <2>3, <1>1, <1>2, <1>3
<1>5. ASSUME NEW j \in 1 .. Len(q)
      PROVE  (a \o b)[j] = q[IF j <= Len(q) - k THEN j + k ELSE j - (Len(q) - k)]
  <2>1. CASE j <= Len(q) - k
    <3>1. j \in 1 .. Len(a)
      BY <2>1, <1>1, <1>3
    <3>2. (a \o b)[j] = a[j]
      BY <3>1, <1>4 DEF Joins
    <3> QED  BY <3>1, <3>2, <2>1, <1>1
  <2>2. CASE ~(j <= Len(q) - k)
    <3> DEFINE i == j - (Len(q) - k)
    <3>1. i \in 1 .. k /\ Len(a) + i = j
      BY <2>2, <1>1, <1>3
    <3> HIDE DEF i
    <3>2. (a \o b)[j] = b[i]
      BY <3>1, <1>2, <1>4 DEF Joins
    <3>3. (a \o b)[j] = q[i]
      BY <3>1, <3>2, <1>2
    <3> QED  BY <3>3, <2>2 DEF i
  <2> QED  BY <2>1, <2>2
<1>6. Rotated(q, k) = a \o b
  BY DEF Rotated, a, b
<1> QED  BY <1>4, <1>5, <1>6

\* Lists of the same length with the same entries are the same.
LEMMA SameList ==
    ASSUME NEW T, NEW a \in Seq(T), NEW b \in Seq(T), Len(a) = Len(b),
           \A i \in 1 .. Len(a) : a[i] = b[i]
    PROVE  a = b
  OBVIOUS

\* What a turn does to the list: the head leaves it, or is moved to its end.
LEMMA RotatedTurn ==
    ASSUME NEW q \in Seq(ConversationId), NEW k \in 0 .. Len(q) - 1
    PROVE  LET r == Rotated(q, k)
           IN  /\ Head(r) = q[k + 1]
               /\ Tail(r) = SubSeq(q, k + 2, Len(q)) \o SubSeq(q, 1, k)
               /\ Append(Tail(r), Head(r)) = Rotated(q, k + 1)
<1> DEFINE r == Rotated(q, k)
           n == Len(q)
           next == Rotated(q, k + 1)
           cut == SubSeq(q, k + 2, n) \o SubSeq(q, 1, k)
<1>1. n \in Nat /\ k \in 0 .. n - 1 /\ k \in 0 .. n /\ k + 1 \in 0 .. n /\ k + 1 \in DOMAIN q
  OBVIOUS
<1>2. /\ r \in Seq(ConversationId) /\ Len(r) = n
      /\ \A j \in 1 .. n : r[j] = q[IF j <= n - k THEN j + k ELSE j - (n - k)]
  BY <1>1, RotatedEntries, Zenon
<1>3. /\ next \in Seq(ConversationId) /\ Len(next) = n
      /\ \A j \in 1 .. n :
            next[j] = q[IF j <= n - (k + 1) THEN j + (k + 1) ELSE j - (n - (k + 1))]
  BY <1>1, RotatedEntries, Zenon
<1>4. /\ cut \in Seq(ConversationId) /\ Len(cut) = n - 1
      /\ \A j \in 1 .. n - 1 :
            cut[j] = q[IF j <= n - (k + 1) THEN j + (k + 1) ELSE j - (n - (k + 1))]
  <2>1. (k + 1) - 1 = k /\ (k + 1) + 1 = k + 2
    BY <1>1
  <2>2. cut = SubSeq(q, (k + 1) + 1, Len(q)) \o SubSeq(q, 1, (k + 1) - 1)
    BY <2>1
  <2> HIDE DEF cut
  <2>3. /\ cut \in Seq(ConversationId) /\ Len(cut) = Len(q) - 1
        /\ \A j \in 1 .. Len(q) - 1 :
              cut[j] = q[IF j <= Len(q) - (k + 1) THEN j + (k + 1) ELSE j - (Len(q) - (k + 1))]
    BY <1>1, <2>2, Cut, Zenon
  <2> QED  BY <2>3
<1> HIDE DEF n, r, next, cut
<1>5. Head(r) = q[k + 1]
  BY <1>1, <1>2
<1>6. Tail(r) = cut
  <2>1. /\ Tail(r) \in Seq(ConversationId) /\ Len(Tail(r)) = n - 1
        /\ \A j \in 1 .. n - 1 : Tail(r)[j] = r[j + 1]
    BY <1>1, <1>2
  <2>2. ASSUME NEW j \in 1 .. n - 1 PROVE Tail(r)[j] = cut[j]
    <3>1. j + 1 \in 1 .. n /\ Tail(r)[j] = r[j + 1]
      BY <1>1, <2>1
    <3>2. CASE j <= n - (k + 1)
      <4>1. cut[j] = q[j + (k + 1)]
        BY <1>4, <3>2
      <4>2. j + 1 <= n - k /\ (j + 1) + k = j + (k + 1)
        BY <1>1, <3>2
      <4>3. r[j + 1] = q[(j + 1) + k]
        BY <1>2, <3>1, <4>2
      <4> QED  BY <3>1, <4>1, <4>2, <4>3
    <3>3. CASE ~(j <= n - (k + 1))
      <4>1. cut[j] = q[j - (n - (k + 1))]
        BY <1>4, <3>3
      <4>2. ~(j + 1 <= n - k) /\ (j + 1) - (n - k) = j - (n - (k + 1))
        BY <1>1, <3>3
      <4>3. r[j + 1] = q[(j + 1) - (n - k)]
        BY <1>2, <3>1, <4>2
      <4> QED  BY <3>1, <4>1, <4>2, <4>3
    <3> QED  BY <3>2, <3>3
  <2> QED  BY <1>1, <1>4, <2>1, <2>2, SameList
<1>7. Append(cut, q[k + 1]) = next
  <2>1. q[k + 1] \in ConversationId
    BY <1>1
  <2>2. /\ Append(cut, q[k + 1]) \in Seq(ConversationId)
        /\ Len(Append(cut, q[k + 1])) = n
        /\ \A j \in 1 .. n - 1 : Append(cut, q[k + 1])[j] = cut[j]
        /\ Append(cut, q[k + 1])[n] = q[k + 1]
    <3> DEFINE x == q[k + 1]
    <3>1. n \in Nat /\ n >= 1 /\ x \in ConversationId /\ cut \in Seq(ConversationId)
          /\ Len(cut) = n - 1
      BY <1>1, <1>4, <2>1
    <3> HIDE DEF x
    <3>2. /\ Append(cut, x) \in Seq(ConversationId) /\ Len(Append(cut, x)) = n
          /\ \A j \in 1 .. n - 1 : Append(cut, x)[j] = cut[j]
          /\ Append(cut, x)[n] = x
      BY <3>1
    <3> QED  BY <3>2 DEF x
  <2>3. \A j \in 1 .. n : Append(cut, q[k + 1])[j] = next[j]
    BY <1>1, <1>3, <1>4, <2>2
  <2> QED  BY <1>1, <1>3, <2>2, <2>3, SameList
<1> QED  BY <1>5, <1>6, <1>7 DEF r, n, next, cut

\* A function that obeys the equation of the loop is what the loop does.
Starts(s) == [store |-> s, left |-> FALSE]
Follows(run) == IF Goes(run) THEN Turn(run) ELSE run

LEMMA LoopIs ==
    ASSUME NEW s, NEW m \in Nat, m = Len(s.accessOrder),
           NEW g, g = [n \in 0 .. m |-> IF n = 0 THEN Starts(s) ELSE Follows(g[n - 1])]
    PROVE  EvictionLoop(s) = g[m]
<1> DEFINE Equation(f) ==
             f = [n \in 0 .. m |-> IF n = 0 THEN Starts(s) ELSE Follows(f[n - 1])]
           h == CHOOSE f : Equation(f)
           D == {n \in 0 .. m : h[n] # g[n]}
<1>1. EvictionLoop(s) = h[m]
  BY DEF EvictionLoop, Starts, Follows
<1>2. Equation(g)
  OBVIOUS
<1>3. Equation(h)
  <2> HIDE DEF Equation
  <2> QED  BY <1>2
<1> HIDE DEF h
<1>4. /\ g[0] = Starts(s) /\ h[0] = Starts(s)
      /\ \A n \in 1 .. m : g[n] = Follows(g[n - 1]) /\ h[n] = Follows(h[n - 1])
  BY <1>3
<1>5. SUFFICES ASSUME D # {} PROVE FALSE
  BY <1>1
<1>6. D \in SUBSET Nat
  OBVIOUS
<1>7. Min(D) \in D /\ \A x \in D : Min(D) <= x
  BY <1>5, <1>6, LeastExists
<1>8. PICK k \in D : \A x \in D : k <= x
  BY <1>7
<1>9. k \in 1 .. m
  BY <1>4, <1>8
<1>10. k - 1 \in 0 .. m /\ k - 1 \notin D
  BY <1>8, <1>9
<1>11. h[k - 1] = g[k - 1]
  BY <1>10
<1> QED  BY <1>4, <1>8, <1>9, <1>11

LEMMA RotatedNone ==
    ASSUME NEW q \in Seq(ConversationId)
    PROVE  Rotated(q, 0) = q
<1>1. /\ Rotated(q, 0) \in Seq(ConversationId) /\ Len(Rotated(q, 0)) = Len(q)
      /\ \A j \in 1 .. Len(q) :
            Rotated(q, 0)[j] = q[IF j <= Len(q) - 0 THEN j + 0 ELSE j - (Len(q) - 0)]
  <2>1. 0 \in 0 .. Len(q)  OBVIOUS
  <2> QED  BY <2>1, RotatedEntries, Zenon
<1> DEFINE r == Rotated(q, 0)
<1> HIDE DEF r
<1>2. r \in Seq(ConversationId) /\ Len(r) = Len(q) /\ \A j \in 1 .. Len(q) : r[j] = q[j]
  BY <1>1 DEF r
<1>3. r = q
  BY <1>2, SameList
<1> QED  BY <1>3 DEF r

\* The store during the loop: k entries were moved to the end of the list.
Turned(s, k) == [s EXCEPT !.accessOrder = Rotated(@, k)]

\* A store whose list was rotated: the same Map and states, and what a turn makes of it.
LEMMA TurnedOK ==
    ASSUME NEW s, s \in StoreType, NEW k \in 0 .. Len(s.accessOrder) - 1
    PROVE  LET order == s.accessOrder
               t == Turned(s, k)
               later == Rotated(order, k + 1)
           IN  /\ k = 0 => t = s
               /\ \A id : IsDirty(t, id) = IsDirty(s, id)
               /\ Live(t) = Live(s)
               /\ Head(t.accessOrder) = order[k + 1]
               /\ Append(Tail(t.accessOrder), Head(t.accessOrder)) = later
               /\ \A j \in DOMAIN later : later[j] \in {order[i] : i \in DOMAIN order}
               /\ \A i \in DOMAIN order : i > k + 1 => \E j \in DOMAIN later : later[j] = order[i]
               /\ [t EXCEPT !.accessOrder = later] = Turned(s, k + 1)
               /\ [t EXCEPT !.conversations[order[k + 1]] = Absent, !.accessOrder = Tail(@)]
                    = EvictAt(s, k + 1)
<1> DEFINE order == s.accessOrder
           r == Rotated(order, k)
           t == Turned(s, k)
           later == Rotated(order, k + 1)
           out == order[k + 1]
<1>1. order \in Seq(ConversationId)
  BY DEF StoreType
<1>2. /\ Len(order) \in Nat /\ DOMAIN order = 1 .. Len(order)
      /\ k \in Nat /\ k + 1 \in 0 .. Len(order)
  BY <1>1
<1>3. t.accessOrder = r /\ t.conversations = s.conversations /\ t.states = s.states
  BY DEF Turned, StoreType
<1>4. k = 0 => t = s
  <2>1. ASSUME k = 0 PROVE r = order
    BY <1>1, <2>1, RotatedNone
  <2> QED  BY <2>1 DEF Turned, StoreType
<1>5. (\A id : IsDirty(t, id) = IsDirty(s, id)) /\ Live(t) = Live(s)
  BY <1>3 DEF IsDirty, Live, has, Current
<1>6. /\ Head(r) = out
      /\ Tail(r) = SubSeq(order, k + 2, Len(order)) \o SubSeq(order, 1, k)
      /\ Append(Tail(r), Head(r)) = later
  BY <1>1, RotatedTurn, Zenon
<1>7. /\ later \in Seq(ConversationId) /\ Len(later) = Len(order)
      /\ \A j \in 1 .. Len(order) :
            later[j] = order[IF j <= Len(order) - (k + 1) THEN j + (k + 1)
                             ELSE j - (Len(order) - (k + 1))]
  BY <1>1, <1>2, RotatedEntries, Zenon
<1> HIDE DEF later
<1>8. DOMAIN later = 1 .. Len(order)
  BY <1>7
<1>9. \A j \in DOMAIN later : later[j] \in {order[i] : i \in DOMAIN order}
  <2>1. ASSUME NEW j \in 1 .. Len(order)
        PROVE  (IF j <= Len(order) - (k + 1) THEN j + (k + 1)
                ELSE j - (Len(order) - (k + 1))) \in 1 .. Len(order)
    <3> DEFINE n == Len(order)
    <3>1. n \in Nat /\ k \in Nat /\ k + 1 <= n /\ j \in 1 .. n
      BY <1>2
    <3> HIDE DEF n
    <3>2. (IF j <= n - (k + 1) THEN j + (k + 1) ELSE j - (n - (k + 1))) \in 1 .. n
      BY <3>1
    <3> QED  BY <3>2 DEF n
  <2> QED  BY <1>2, <1>7, <1>8, <2>1
<1>10. ASSUME NEW i \in DOMAIN order, i > k + 1
       PROVE  \E j \in DOMAIN later : later[j] = order[i]
  <2> DEFINE j == i - (k + 1)
  <2>1. j \in 1 .. Len(order) /\ j <= Len(order) - (k + 1) /\ j + (k + 1) = i
    BY <1>2, <1>10
  <2> HIDE DEF j
  <2> QED  BY <1>7, <1>8, <2>1
<1>11. [t EXCEPT !.accessOrder = later] = Turned(s, k + 1)
  BY DEF Turned, StoreType, later
<1>12. [t EXCEPT !.conversations[out] = Absent, !.accessOrder = Tail(@)] = EvictAt(s, k + 1)
  <2> DEFINE q == SubSeq(order, k + 2, Len(order)) \o SubSeq(order, 1, k)
             map == [s.conversations EXCEPT ![out] = Absent]
  <2>1. (k + 1) + 1 = k + 2 /\ (k + 1) - 1 = k
    BY <1>2
  <2>2. EvictAt(s, k + 1) = [s EXCEPT !.conversations = map, !.accessOrder = q]
    BY <2>1 DEF EvictAt, StoreType
  <2>3. Tail(t.accessOrder) = q
    BY <1>3, <1>6
  <2> HIDE DEF q, out, t, r
  <2>4. [t EXCEPT !.conversations[out] = Absent, !.accessOrder = Tail(@)]
          = [t EXCEPT !.conversations = map, !.accessOrder = q]
    BY <1>3, <2>3 DEF t, Turned, StoreType
  <2> HIDE DEF map
  <2>5. [t EXCEPT !.conversations = map, !.accessOrder = q]
          = [s EXCEPT !.conversations = map, !.accessOrder = q]
    BY DEF t, Turned, StoreType
  <2> QED  BY <2>2, <2>4, <2>5
<1> HIDE DEF t, r
<1> QED  BY <1>3, <1>4, <1>5, <1>6, <1>9, <1>10, <1>11, <1>12 DEF t, r, later, out

\* The loop ends within one turn of the list, and makes of the store what evictIfNeeded
\* makes of it.
Agrees(s) == ~Goes(EvictionLoop(s)) /\ EvictionLoop(s).store = evictIfNeeded(s)

LEMMA NothingToEvict ==
    ASSUME NEW s, s \in StoreType, IsFiniteSet(Live(s)),
           Cardinality(Live(s)) <= MaxConversations
    PROVE  Agrees(s)
<1> DEFINE m == Len(s.accessOrder)
           g == [n \in 0 .. m |-> Starts(s)]
<1>1. m \in Nat
  BY DEF StoreType
<1>2. ~Goes(Starts(s)) /\ Starts(s).store = s
  <2>1. ~(Cardinality(Live(s)) > MaxConversations)
    BY StoreAssumption, FS_CardinalityType
  <2> QED  BY <2>1 DEF Goes, Starts
<1>3. g = [n \in 0 .. m |-> IF n = 0 THEN Starts(s) ELSE Follows(g[n - 1])]
  <2>1. ASSUME NEW n \in 0 .. m, n # 0 PROVE Follows(g[n - 1]) = Starts(s)
    BY <1>2, <2>1 DEF Follows
  <2> QED  BY <2>1
<1>4. EvictionLoop(s) = Starts(s)
  <2>1. g[m] = Starts(s)
    BY <1>1
  <2> HIDE DEF g
  <2> QED  BY <1>1, <1>3, <2>1, LoopIs
<1> QED  BY <1>2, <1>4 DEF Agrees, evictIfNeeded

\* When all are dirty, the first turn forces the second entry out and leaves the loop.
LEMMA AllDirty ==
    ASSUME NEW s, Sound(s), IsFiniteSet(Live(s)), Cardinality(Live(s)) > MaxConversations,
           CleanPositions(s) = {}
    PROVE  Agrees(s)
<1> DEFINE order == s.accessOrder
           m == Len(order)
           moved == Rotated(order, 1)
           done == [store |-> EvictAt(s, 2), left |-> TRUE]
           g == [n \in 0 .. m |-> IF n = 0 THEN Starts(s) ELSE done]
<1>1. s \in StoreType /\ order \in Seq(ConversationId) /\ DOMAIN order = 1 .. m /\ m \in Nat
  BY DEF Sound, StoreType
<1>2. m > 2
  <2>1. Cardinality(Live(s)) > 2  BY StoreAssumption, FS_CardinalityType
  <2> QED  BY <2>1, LongList DEF Sound
<1>3. \A i \in DOMAIN order : IsDirty(s, order[i])
  BY DEF CleanPositions
<1>4. /\ Turned(s, 0) = s /\ Head(order) = order[1]
      /\ Append(Tail(order), Head(order)) = moved
      /\ \A j \in DOMAIN moved : moved[j] \in {order[i] : i \in DOMAIN order}
  <2>1. 0 \in 0 .. m - 1 /\ 0 + 1 = 1
    BY <1>1, <1>2
  <2> DEFINE later == Rotated(order, 0 + 1)
             t == Turned(s, 0)
  <2>2. /\ t = s /\ Head(t.accessOrder) = order[0 + 1]
        /\ Append(Tail(t.accessOrder), Head(t.accessOrder)) = later
        /\ \A j \in DOMAIN later : later[j] \in {order[i] : i \in DOMAIN order}
    BY <1>1, <2>1, TurnedOK, Zenon
  <2>3. later = moved
    BY <2>1
  <2> HIDE DEF later, t, moved
  <2> QED  BY <2>1, <2>2, <2>3 DEF t
<1>5. Head(moved) = order[2] /\ Tail(moved) = SubSeq(order, 3, m) \o SubSeq(order, 1, 1)
  <2>1. 1 \in 0 .. m - 1 /\ 1 + 1 = 2 /\ 1 + 2 = 3
    BY <1>1, <1>2
  <2> QED  BY <1>1, <2>1, RotatedTurn
<1>6. Turn(Starts(s)) = done
  <2>1. \A j \in DOMAIN moved : IsDirty(s, moved[j])
    BY <1>3, <1>4
  <2>2. IsDirty(s, Head(order))
    BY <1>1, <1>2, <1>3, <1>4
  <2>3. Starts(s).store = s
    BY DEF Starts
  <2>4. 2 + 1 = 3 /\ 2 - 1 = 1
    OBVIOUS
  <2>5. EvictAt(s, 2) = [s EXCEPT !.conversations[order[2]] = Absent,
                                  !.accessOrder = SubSeq(order, 3, m) \o SubSeq(order, 1, 1)]
    BY <2>4 DEF EvictAt
  <2> HIDE DEF moved
  <2>6. Turn(Starts(s)) = [store |-> [s EXCEPT !.conversations[Head(moved)] = Absent,
                                               !.accessOrder = Tail(moved)],
                           left |-> TRUE]
    BY <1>4, <2>1, <2>2, <2>3 DEF Turn
  <2> QED  BY <1>5, <2>5, <2>6
<1>7. Goes(Starts(s)) /\ ~Goes(done)
  BY DEF Goes, Starts
<1>8. done.store = EvictAt(s, 2)
  OBVIOUS
<1> HIDE DEF done
<1>9. g = [n \in 0 .. m |-> IF n = 0 THEN Starts(s) ELSE Follows(g[n - 1])]
  <2>1. ASSUME NEW n \in 0 .. m, n # 0 PROVE Follows(g[n - 1]) = done
    <3>1. n - 1 \in 0 .. m /\ g[n - 1] \in {Starts(s), done}
      BY <1>1, <2>1
    <3> QED  BY <1>6, <1>7, <3>1 DEF Follows
  <2> QED  BY <2>1
<1>10. EvictionLoop(s) = done
  <2>1. g[m] = done
    BY <1>1, <1>2
  <2> HIDE DEF g
  <2> QED  BY <1>1, <1>9, <2>1, LoopIs
<1>11. evictIfNeeded(s) = EvictAt(s, 2)
  <2>1. ~(Cardinality(Live(s)) <= MaxConversations)
    BY StoreAssumption, FS_CardinalityType
  <2> QED  BY <2>1 DEF evictIfNeeded, Evict
<1> QED  BY <1>7, <1>8, <1>10, <1>11 DEF Agrees

\* Otherwise the dirty entries before the first clean one are moved to the end.
LEMMA SomeClean ==
    ASSUME NEW s, Sound(s), IsFiniteSet(Live(s)),
           Cardinality(Live(s)) = MaxConversations + 1, CleanPositions(s) # {}
    PROVE  Agrees(s)
<1> DEFINE order == s.accessOrder
           m == Len(order)
           i == Min(CleanPositions(s))
           at(k) == [store |-> Turned(s, k), left |-> FALSE]
           done == [store |-> EvictAt(s, i), left |-> FALSE]
           g == [n \in 0 .. m |-> IF n < i THEN at(n) ELSE done]
<1>1. s \in StoreType /\ order \in Seq(ConversationId) /\ DOMAIN order = 1 .. m /\ m \in Nat
  BY DEF Sound, StoreType
<1>2. CleanPositions(s) \in SUBSET Nat
  BY <1>1 DEF CleanPositions
<1>3. i \in CleanPositions(s) /\ \A j \in CleanPositions(s) : i <= j
  BY <1>2, LeastExists
<1>4. i \in 1 .. m /\ ~IsDirty(s, order[i]) /\ \A j \in 1 .. i - 1 : IsDirty(s, order[j])
  <2>1. i \in 1 .. m /\ ~IsDirty(s, order[i])
    BY <1>1, <1>3 DEF CleanPositions
  <2>2. ASSUME NEW j \in 1 .. i - 1 PROVE IsDirty(s, order[j])
    <3>1. j \in DOMAIN order /\ j \notin CleanPositions(s)
      BY <1>1, <1>3, <2>1
    <3> QED  BY <3>1 DEF CleanPositions
  <2> QED  BY <2>1, <2>2
<1>5. evictIfNeeded(s) = EvictAt(s, i)
  <2>1. ~(Cardinality(Live(s)) <= MaxConversations)
    BY StoreAssumption
  <2> QED  BY <2>1 DEF evictIfNeeded, Evict
<1> HIDE DEF i
<1>6. ~Goes(done) /\ done.store = EvictAt(s, i)
  <2>1. Live(EvictAt(s, i)) = Live(s) \ {order[i]} /\ order[i] \in Live(s)
    BY <1>1, <1>4, EvictAtOK
  <2>2. Cardinality(Live(EvictAt(s, i))) = MaxConversations
    <3>1. Cardinality(Live(EvictAt(s, i))) = Cardinality(Live(s)) - 1
      BY <2>1, FS_RemoveElement
    <3> QED  BY <3>1, StoreAssumption
  <2> QED  BY <2>2, StoreAssumption DEF Goes
<1>7. ASSUME NEW k \in 0 .. i - 1
      PROVE  Goes(at(k)) /\ Turn(at(k)) = (IF k + 1 = i THEN done ELSE at(k + 1))
  <2> DEFINE t == Turned(s, k)
             later == Rotated(order, k + 1)
  <2>1. k \in 0 .. m - 1 /\ k + 1 \in 1 .. i /\ k + 1 \in DOMAIN order
    BY <1>1, <1>4
  <2>2. /\ \A id : IsDirty(t, id) = IsDirty(s, id)
        /\ Live(t) = Live(s)
        /\ Head(t.accessOrder) = order[k + 1]
        /\ Append(Tail(t.accessOrder), Head(t.accessOrder)) = later
        /\ \A j \in DOMAIN order : j > k + 1 => \E n \in DOMAIN later : later[n] = order[j]
        /\ [t EXCEPT !.accessOrder = later] = Turned(s, k + 1)
        /\ [t EXCEPT !.conversations[order[k + 1]] = Absent, !.accessOrder = Tail(@)]
             = EvictAt(s, k + 1)
    BY <1>1, <2>1, TurnedOK
  <2> HIDE DEF t, later
  <2>3. at(k).store = t /\ at(k).left = FALSE
    BY DEF t
  <2>4. Goes(at(k))
    BY <2>2, <2>3, StoreAssumption DEF Goes
  <2>5. CASE k + 1 = i
    <3>1. ~IsDirty(t, Head(t.accessOrder))
      BY <1>4, <2>2, <2>5
    <3>2. Turn(at(k)) = [at(k) EXCEPT !.store = EvictAt(s, k + 1)]
      BY <2>2, <2>3, <3>1 DEF Turn
    <3> QED  BY <2>4, <2>5, <3>2
  <2>6. CASE k + 1 # i
    <3>1. IsDirty(t, Head(t.accessOrder))
      BY <1>4, <2>1, <2>2, <2>6
    <3>2. i \in DOMAIN order /\ i > k + 1
      BY <1>1, <1>4, <2>1, <2>6
    <3>3. PICK n \in DOMAIN later : later[n] = order[i]
      BY <2>2, <3>2
    <3>4. ~IsDirty(t, later[n])
      BY <1>4, <2>2, <3>3
    <3>5. Turn(at(k)) = [at(k) EXCEPT !.store = [t EXCEPT !.accessOrder = later]]
      BY <2>2, <2>3, <3>1, <3>3, <3>4 DEF Turn
    <3>6. Turn(at(k)) = at(k + 1)
      BY <2>2, <3>5
    <3> QED  BY <2>4, <2>6, <3>6
  <2> QED  BY <2>5, <2>6
<1>8. at(0) = Starts(s)
  <2>1. 0 \in 0 .. m - 1
    BY <1>1, <1>4
  <2>2. Turned(s, 0) = s
    BY <1>1, <2>1, TurnedOK
  <2> QED  BY <2>2 DEF Starts
<1> HIDE DEF done
<1>9. g = [n \in 0 .. m |-> IF n = 0 THEN Starts(s) ELSE Follows(g[n - 1])]
  <2>1. g[0] = Starts(s)
    BY <1>1, <1>4, <1>8
  <2>2. ASSUME NEW n \in 0 .. m, n # 0 PROVE Follows(g[n - 1]) = g[n]
    <3> DEFINE k == n - 1
    <3>1. k \in 0 .. m /\ k + 1 = n
      BY <1>1, <2>2
    <3> HIDE DEF k
    <3>2. CASE k < i
      <4>1. k \in 0 .. i - 1 /\ g[k] = at(k)
        BY <1>4, <3>1, <3>2
      <4>2. Follows(at(k)) = (IF k + 1 = i THEN done ELSE at(k + 1))
        BY <1>7, <4>1 DEF Follows
      <4>3. (IF k + 1 = i THEN done ELSE at(k + 1)) = g[n]
        BY <1>4, <3>1, <3>2
      <4> QED  BY <4>1, <4>2, <4>3 DEF k
    <3>3. CASE ~(k < i)
      <4>1. g[k] = done /\ g[n] = done
        BY <1>1, <1>4, <3>1, <3>3
      <4> QED  BY <1>6, <4>1 DEF Follows, k
    <3> QED  BY <3>2, <3>3
  <2> HIDE DEF at
  <2>3. g = [n \in 0 .. m |-> g[n]]
    OBVIOUS
  <2> HIDE DEF g
  <2>4. [n \in 0 .. m |-> g[n]]
          = [n \in 0 .. m |-> IF n = 0 THEN Starts(s) ELSE Follows(g[n - 1])]
    BY <2>1, <2>2
  <2> QED  BY <2>3, <2>4, Zenon
<1>10. EvictionLoop(s) = done
  <2>1. g[m] = done
    BY <1>1, <1>4
  <2> HIDE DEF g
  <2> QED  BY <1>1, <1>9, <2>1, LoopIs
<1> QED  BY <1>5, <1>6, <1>10 DEF Agrees

LEMMA LoopAgrees ==
    ASSUME NEW s, Sound(s), IsFiniteSet(Live(s)),
           Cardinality(Live(s)) <= MaxConversations + 1
    PROVE  Agrees(s)
<1>1. Cardinality(Live(s)) \in Nat /\ MaxConversations \in Nat /\ s \in StoreType
  BY StoreAssumption, FS_CardinalityType DEF Sound
<1>2. CASE Cardinality(Live(s)) <= MaxConversations
  BY <1>1, <1>2, NothingToEvict
<1>3. CASE Cardinality(Live(s)) > MaxConversations /\ CleanPositions(s) = {}
  BY <1>3, AllDirty
<1>4. CASE Cardinality(Live(s)) > MaxConversations /\ CleanPositions(s) # {}
  <2>1. Cardinality(Live(s)) = MaxConversations + 1
    BY <1>1, <1>4
  <2> QED  BY <1>4, <2>1, SomeClean
<1> QED  BY <1>1, <1>2, <1>3, <1>4

-------------------------------------------------------------------------------
(* The store driven by arbitrary calls *)

LEMMA InitOK == Init => StoreOK(store)
<1> SUFFICES ASSUME Init PROVE StoreOK(store)
  OBVIOUS
<1>1. /\ store.conversations = [id \in ConversationId |-> Absent]
      /\ store.accessOrder = <<>> /\ store.states = <<>> /\ store.messages = <<>>
  BY DEF Init, EmptyStore
<1>2. DOMAIN <<>> = {} /\ \A T : <<>> \in Seq(T)
  OBVIOUS
<1>3. store \in StoreType
  <2>1. store.conversations \in [ConversationId -> Nat]  BY <1>1 DEF Absent
  <2> QED  BY <1>2, <2>1 DEF Init, EmptyStore, StoreType
<1>4. Live(store) = {}
  BY <1>1 DEF Live, has
<1>5. Lists(store.accessOrder, Live(store))
  BY <1>1, <1>2, <1>4 DEF Lists
<1>6. Held(store) /\ Chained(store)
  BY <1>1, <1>2, <1>4 DEF Held, Live, Chained
<1>7. Small(store)
  BY <1>4, FS_EmptySet, StoreAssumption DEF Small
<1> QED  BY <1>3, <1>5, <1>6, <1>7 DEF StoreOK, Sound

\* The operations change the Map in one of three ways.
Keeps == store'.conversations = store.conversations /\ DOMAIN store'.states = DOMAIN store.states
Deletes(id) == Delete(id) /\ SameHeap(store, store')
                 /\ \A other \in ConversationId \ {id} :
                       store'.conversations[other] = store.conversations[other]

LEMMA StepOK ==
    ASSUME StoreOK(store), [Next]_store
    PROVE  /\ StoreOK(store')
           /\ \/ Keeps
              \/ \E id \in ConversationId : Taken(store, store', id) \/ Deletes(id)
<1>1. CASE UNCHANGED store
  BY <1>1 DEF Keeps
<1>2. ASSUME NEW id \in ConversationId, NEW n \in 0 .. 2, AppendMessages(id, n)
      PROVE  Taken(store, store', id)
  BY <1>2, AppendMessagesOK DEF AppendMessages
<1>3. ASSUME NEW id \in ConversationId, AppendOne(id)
      PROVE  Taken(store, store', id)
  BY <1>3, AppendMessagesOK DEF AppendOne, appendOne
<1>4. ASSUME NEW id \in ConversationId, NEW n \in 0 .. 2, NEW title \in Title,
             CreateFromTurns(id, n, title)
      PROVE  Taken(store, store', id)
  BY <1>4, CreateFromTurnsOK DEF CreateFromTurns
<1>5. ASSUME NEW id \in ConversationId, NEW title \in Title, SetTitle(id, title)
      PROVE  StoreOK(store') /\ Keeps
  <2>1. CASE has(store, id)  BY <1>5, <2>1, SetTitleOK DEF SetTitle, Keeps
  <2>2. CASE ~has(store, id)  BY <1>5, <2>2 DEF SetTitle, setTitle, Keeps
  <2> QED  BY <2>1, <2>2
<1>6. ASSUME NEW id \in ConversationId, Get(id) PROVE StoreOK(store') /\ Keeps
  BY <1>6, GetOK DEF Get, Keeps, SameHeap
<1>7. ASSUME NEW id \in ConversationId, MarkSynced(id) PROVE StoreOK(store') /\ Keeps
  BY <1>7, MarkSyncedOK DEF MarkSynced, Keeps, Written
<1>8. ASSUME NEW id \in ConversationId, MarkDirtyById(id) PROVE StoreOK(store') /\ Keeps
  BY <1>8, MarkDirtyByIdOK DEF MarkDirtyById, Keeps, Written
<1>9. ASSUME NEW id \in ConversationId, Delete(id) PROVE StoreOK(store') /\ Deletes(id)
  BY <1>9, DeleteOK DEF Delete, Deletes
<1>10. \A id \in ConversationId : Taken(store, store', id) => StoreOK(store')
  BY DEF Taken
<1>11. CASE Next
  <2>1. PICK id \in ConversationId :
          \/ \E n \in 0 .. 2 : AppendMessages(id, n)
          \/ AppendOne(id)
          \/ \E title \in Title : SetTitle(id, title)
          \/ \E n \in 0 .. 2, title \in Title : CreateFromTurns(id, n, title)
          \/ Get(id) \/ MarkSynced(id) \/ MarkDirtyById(id) \/ Delete(id)
    BY <1>11 DEF Next
  <2> QED  BY <2>1, <1>2, <1>3, <1>4, <1>5, <1>6, <1>7, <1>8, <1>9, <1>10
<1> QED  BY <1>1, <1>11

\* OrderMatchesMap: the LRU list holds exactly the ids of the Map, each once, for any
\* number of conversations (StoreOK is the inductive invariant).
THEOREM OrderIsTheMap == Spec => []OrderMatchesMap
<1>1. StoreOK(store) => OrderMatchesMap
  BY DEF StoreOK, Sound, Lists, OrderMatchesMap
<1>2. StoreOK(store) /\ [Next]_store => StoreOK(store)'
  BY StepOK
<1> QED  BY <1>1, <1>2, InitOK, PTL DEF Spec

\* DirtyEvictedLast: eviction takes a dirty conversation only when all are dirty.
THEOREM CleanEvictedFirst == Spec => DirtyEvictedLast
<1> DEFINE Act == \A id \in ConversationId :
                    IsDirty(store, id) /\ ~has(store', id) /\ ~Delete(id)
                      => Live(store) = getDirty(store)
<1>1. StoreOK(store) /\ [Next]_store => StoreOK(store)'
  BY StepOK
<1>2. StoreOK(store) /\ [Next]_store => [Act]_store
  <2> SUFFICES ASSUME StoreOK(store), [Next]_store,
                      NEW id \in ConversationId,
                      IsDirty(store, id), ~has(store', id), ~Delete(id)
               PROVE  Live(store) = getDirty(store)
    OBVIOUS
  <2>1. CASE Keeps  BY <2>1 DEF Keeps, IsDirty, has
  <2>2. ASSUME NEW other \in ConversationId, Taken(store, store', other)
        PROVE  Live(store) = getDirty(store)
    BY <2>2 DEF Taken
  <2>3. ASSUME NEW other \in ConversationId, Deletes(other) PROVE FALSE
    BY <2>3 DEF Deletes, IsDirty, has
  <2> QED  BY <2>1, <2>2, <2>3, StepOK
<1> QED  BY <1>1, <1>2, InitOK, PTL DEF Spec, DirtyEvictedLast

\* CreatedStays: the state a call creates is in the Map when the call returns.
THEOREM CreatedIsKept == Spec => CreatedStays
<1> DEFINE Act == \A ref \in DOMAIN store'.states \ DOMAIN store.states :
                    store'.conversations[store'.states[ref].id] = ref
<1>1. StoreOK(store) /\ [Next]_store => StoreOK(store)'
  BY StepOK
<1>2. StoreOK(store) /\ [Next]_store => [Act]_store
  <2> SUFFICES ASSUME StoreOK(store), [Next]_store,
                      NEW ref \in DOMAIN store'.states \ DOMAIN store.states
               PROVE  store'.conversations[store'.states[ref].id] = ref
    OBVIOUS
  <2>1. CASE Keeps  BY <2>1 DEF Keeps
  <2>2. ASSUME NEW id \in ConversationId, Taken(store, store', id)
        PROVE  store'.conversations[store'.states[ref].id] = ref
    <3>1. ref = RefFor(store, id)  BY <2>2 DEF Taken
    <3> QED  BY <2>2, <3>1 DEF Taken
  <2>3. ASSUME NEW id \in ConversationId, Deletes(id) PROVE FALSE
    BY <2>3 DEF Deletes, SameHeap
  <2> QED  BY <2>1, <2>2, <2>3, StepOK
<1> QED  BY <1>1, <1>2, InitOK, PTL DEF Spec, CreatedStays
\* EvictsAsTheLoop: whatever the cache holds when a conversation is created, for any
\* capacity, the while loop ends, and evictIfNeeded is what it does.
THEOREM EvictionIsTheLoop == Spec => []EvictsAsTheLoop
<1>1. ASSUME StoreOK(store) PROVE EvictsAsTheLoop
  <2> SUFFICES ASSUME NEW id \in ConversationId \ Live(store),
                      Len(store.states) < MaxStates
               PROVE  Agrees(touchLRU(Created(store, id), id))
    BY DEF EvictsAsTheLoop, Agrees, Created
  <2> DEFINE c == Created(store, id)
             t == touchLRU(c, id)
  <2>1. /\ c \in StoreType /\ Held(c) /\ Chained(c)
        /\ c.accessOrder = store.accessOrder /\ Live(c) = Live(store) \cup {id}
    <3>1. id \in ConversationId /\ ~has(store, id)
      BY DEF Live
    <3> QED  BY <1>1, <3>1, CreatedOK, Zenon
  <2>2. Lists(c.accessOrder, Live(store))
    BY <1>1, <2>1 DEF StoreOK, Sound
  <2> HIDE DEF c
  <2>3. Sound(t) /\ t.conversations = c.conversations
    BY <2>1, <2>2, TouchOK
  <2>4. Live(t) = Live(store) \cup {id}
    BY <2>1, <2>3 DEF Live, has
  <2>5. IsFiniteSet(Live(store)) /\ Cardinality(Live(store)) <= MaxConversations
    BY <1>1 DEF StoreOK, Small
  <2>6. IsFiniteSet(Live(t)) /\ Cardinality(Live(t)) = Cardinality(Live(store)) + 1
    BY <2>4, <2>5, FS_AddElement
  <2>7. Cardinality(Live(t)) <= MaxConversations + 1
    BY <2>5, <2>6, FS_CardinalityType, StoreAssumption
  <2> HIDE DEF t
  <2>8. Agrees(t)
    BY <2>3, <2>6, <2>7, LoopAgrees
  <2> QED  BY <2>8 DEF t, c
<1>2. StoreOK(store) /\ [Next]_store => StoreOK(store)'
  BY StepOK
<1> QED  BY <1>1, <1>2, InitOK, PTL DEF Spec
=============================================================================
