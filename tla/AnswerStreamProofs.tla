-------------------------- MODULE AnswerStreamProofs --------------------------
(***************************************************************************)
(* What an answer keeps on its way, for any answer, any deltas, and any    *)
(* pieces of the network: every result of a block is reported              *)
(* (EveryResultIsReported), a native tool call comes out whole             *)
(* (NativeCallsAreWhole), and neither detector loses a character or emits  *)
(* one twice (EveryCharacterIsKept).                                       *)
(***************************************************************************)
EXTENDS AnswerStream, Integers, FiniteSetTheorems, WellFoundedInduction, TLAPS

-------------------------------------------------------------------------------
(* Numbers and sequences *)

\* Induction over a set of numbers.
LEMMA SetInduction ==
  ASSUME NEW T \in SUBSET Nat, 0 \in T, \A n \in T : n + 1 \in T
  PROVE  \A n \in Nat : n \in T
<1> DEFINE Less == OpToRel(<, Nat)
<1>1. IsWellFoundedOn(Less, Nat)
  BY NatLessThanWellFounded
<1>2. \A m, n \in Nat : <<m, n>> \in Less <=> m < n
  BY DEF OpToRel
<1> HIDE DEF Less
<1>3. SUFFICES ASSUME Nat \ T # {} PROVE FALSE
  OBVIOUS
<1>4. PICK m \in Nat \ T : \A n \in Nat \ T : <<n, m>> \notin Less
  BY <1>1, <1>3, WFMin
<1>5. m - 1 \in Nat /\ m - 1 < m
  BY <1>4
<1>6. m - 1 \in T
  BY <1>2, <1>4, <1>5
<1> QED  BY <1>4, <1>6

\* Joins: f[i] is the first i sequences of ss, one after the other.
Joined(f, ss, i) == IF i = 1 THEN ss[i] ELSE f[i - 1] \o ss[i]
Joins(f, ss, n) == \A i \in 1 .. n : f[i] = Joined(f, ss, i)

\* Stays: what holds of g[0], and of each g[n] when it holds of the one before, holds of all.
LEMMA Stays ==
  ASSUME NEW m \in Nat, NEW g, NEW D, g[0] \in D[0],
         \A n \in 1 .. m : g[n - 1] \in D[n - 1] => g[n] \in D[n]
  PROVE  \A n \in 0 .. m : g[n] \in D[n]
<1> DEFINE T == {n \in Nat : n <= m => g[n] \in D[n]}
<1>1. ASSUME NEW n \in Nat, n \in T PROVE n + 1 \in T
  <2>1. ASSUME n + 1 <= m PROVE g[n + 1] \in D[n + 1]
    <3>1. n + 1 \in 1 .. m /\ (n + 1) - 1 = n /\ g[n] \in D[n]
      BY <1>1, <2>1
    <3> QED  BY <3>1
  <2> QED  BY <2>1
<1>2. T \in SUBSET Nat /\ 0 \in T
  OBVIOUS
<1>3. \A n \in Nat : n \in T
  <2> HIDE DEF T
  <2> QED  BY <1>1, <1>2, SetInduction
<1> QED  BY <1>3

\* Recursion: a function that is given by its value at 0 and by a step exists.
Recurs(f, x, G, m) == f[0] = x /\ \A n \in 1 .. m : f[n] = G[<<f[n - 1], n>>]

\* A function that is defined step after step exists.
LEMMA Recursion ==
  ASSUME NEW D, NEW m \in Nat, NEW x \in D, NEW G \in [D \X (1 .. m) -> D]
  PROVE  \E f \in [0 .. m -> D] : Recurs(f, x, G, m)
<1> DEFINE Some(n) == \E f \in [0 .. n -> D] : Recurs(f, x, G, n)
           T == {n \in Nat : n <= m => Some(n)}
<1>1. Some(0)
  <2>1. [i \in 0 .. 0 |-> x] \in [0 .. 0 -> D] /\ Recurs([i \in 0 .. 0 |-> x], x, G, 0)
    BY DEF Recurs
  <2> QED  BY <2>1
<1>2. ASSUME NEW n \in Nat, n + 1 <= m, Some(n) PROVE Some(n + 1)
  <2>1. PICK f \in [0 .. n -> D] : Recurs(f, x, G, n)
    BY <1>2
  <2>2. PICK e \in D : e = G[<<f[n], n + 1>>]
    <3>1. <<f[n], n + 1>> \in D \X (1 .. m)
      BY <1>2
    <3> QED  BY <3>1
  <2> DEFINE g == [i \in 0 .. n + 1 |-> IF i = n + 1 THEN e ELSE f[i]]
  <2>3. g \in [0 .. n + 1 -> D] /\ (\A i \in 0 .. n : g[i] = f[i]) /\ g[n + 1] = e
    OBVIOUS
  <2> HIDE DEF g
  <2>4. ASSUME NEW i \in 1 .. n + 1 PROVE g[i] = G[<<g[i - 1], i>>]
    <3>1. i - 1 \in 0 .. n /\ g[i - 1] = f[i - 1]
      BY <2>3
    <3>2. CASE i = n + 1
      BY <2>2, <2>3, <3>1, <3>2
    <3>3. CASE i # n + 1
      <4>1. i \in 1 .. n /\ g[i] = f[i]
        BY <2>3, <3>3
      <4>2. f[i] = G[<<f[i - 1], i>>]
        BY <2>1, <4>1 DEF Recurs
      <4> QED  BY <3>1, <4>1, <4>2
    <3> QED  BY <3>2, <3>3
  <2>5. g[0] = x
    BY <2>1, <2>3 DEF Recurs
  <2>6. Recurs(g, x, G, n + 1)
    BY <2>4, <2>5 DEF Recurs
  <2> QED  BY <2>3, <2>6
<1>3. \A n \in Nat : n \in T
  <2> HIDE DEF Some
  <2>1. T \in SUBSET Nat /\ 0 \in T /\ \A n \in T : n + 1 \in T
    BY <1>1, <1>2
  <2> HIDE DEF T
  <2> QED  BY <2>1, SetInduction
<1>4. m \in T
  BY <1>3
<1> QED  BY <1>4

SameUpto(s, t, n) == \A i \in 1 .. n : s[i] = t[i]

\* Sequences that agree up to a place are joined to the same up to it.
LEMMA JoinsAgree ==
  ASSUME NEW ss, NEW ts, NEW f, NEW g, NEW k \in Nat, Joins(f, ss, k), Joins(g, ts, k),
         SameUpto(ss, ts, k)
  PROVE  SameUpto(f, g, k)
<1> DEFINE T == {n \in Nat : n \in 1 .. k => f[n] = g[n]}
<1>1. ASSUME NEW n \in Nat, n \in T PROVE n + 1 \in T
  <2>1. ASSUME n + 1 \in 1 .. k PROVE f[n + 1] = g[n + 1]
    <3>1. f[n + 1] = Joined(f, ss, n + 1) /\ g[n + 1] = Joined(g, ts, n + 1)
      BY <2>1 DEF Joins
    <3>2. ss[n + 1] = ts[n + 1] /\ (n + 1) - 1 = n
      BY <2>1 DEF SameUpto
    <3>3. n # 0 => f[n] = g[n]
      BY <1>1, <2>1
    <3> QED  BY <3>1, <3>2, <3>3 DEF Joined
  <2> QED  BY <2>1
<1>2. T \in SUBSET Nat /\ 0 \in T
  OBVIOUS
<1>3. \A n \in Nat : n \in T
  <2> HIDE DEF T
  <2> QED  BY <1>1, <1>2, SetInduction
<1> QED  BY <1>3 DEF SameUpto

\* The joined beginnings of a sequence of sequences.
LEMMA JoinsExists ==
  ASSUME NEW S, NEW ss \in Seq(Seq(S))
  PROVE  \E f \in [1 .. Len(ss) -> Seq(S)] : Joins(f, ss, Len(ss))
<1> DEFINE Some(n) == \E f \in [1 .. n -> Seq(S)] : Joins(f, ss, n)
           T == {n \in Nat : n <= Len(ss) => Some(n)}
<1>1. Some(0)
  <2>1. [i \in 1 .. 0 |-> <<>>] \in [1 .. 0 -> Seq(S)] /\ Joins([i \in 1 .. 0 |-> <<>>], ss, 0)
    BY DEF Joins
  <2> QED  BY <2>1
<1>2. ASSUME NEW n \in Nat, n + 1 <= Len(ss), Some(n) PROVE Some(n + 1)
  <2>1. PICK f \in [1 .. n -> Seq(S)] : Joins(f, ss, n)
    BY <1>2
  <2> DEFINE e == Joined(f, ss, n + 1)
             g == [i \in 1 .. n + 1 |-> IF i = n + 1 THEN e ELSE f[i]]
  <2>2. e \in Seq(S)
    <3>1. ss[n + 1] \in Seq(S) /\ (n + 1 # 1 => f[(n + 1) - 1] \in Seq(S))
      BY <1>2
    <3> QED  BY <3>1 DEF Joined
  <2>3. g \in [1 .. n + 1 -> Seq(S)] /\ (\A i \in 1 .. n : g[i] = f[i]) /\ g[n + 1] = e
    <3> HIDE DEF e
    <3> QED  BY <2>2
  <2> HIDE DEF g
  <2>4. Joins(g, ss, n + 1)
    <3> SUFFICES ASSUME NEW i \in 1 .. n + 1 PROVE g[i] = Joined(g, ss, i)
      BY DEF Joins
    <3>1. i # 1 => g[i - 1] = f[i - 1]
      BY <2>3
    <3>2. Joined(g, ss, i) = Joined(f, ss, i)
      BY <3>1 DEF Joined
    <3>3. i # n + 1 => f[i] = Joined(f, ss, i)
      BY <2>1 DEF Joins
    <3> QED  BY <2>3, <3>2, <3>3
  <2> QED  BY <2>3, <2>4
<1>3. \A n \in Nat : n \in T
  <2> HIDE DEF Some
  <2>1. T \in SUBSET Nat /\ 0 \in T /\ \A n \in T : n + 1 \in T
    BY <1>1, <1>2
  <2> HIDE DEF T
  <2> QED  BY <2>1, SetInduction
<1>4. Len(ss) \in Nat /\ Len(ss) \in T
  BY <1>3
<1> QED  BY <1>4

\* FlattenSeq joins all of them.
LEMMA FlattenSeqJoins ==
  ASSUME NEW S, NEW ss \in Seq(Seq(S)), ss # <<>>
  PROVE  \E f \in [1 .. Len(ss) -> Seq(S)] : Joins(f, ss, Len(ss)) /\ FlattenSeq(ss) = f[Len(ss)]
<1> DEFINE Equation(f) == f = [i \in 1 .. Len(ss) |-> IF i = 1 THEN ss[i] ELSE f[i - 1] \o ss[i]]
           g == CHOOSE f : Equation(f)
<1>1. PICK f \in [1 .. Len(ss) -> Seq(S)] : Joins(f, ss, Len(ss))
  BY JoinsExists
<1>2. Equation(f)
  <2>1. f = [i \in 1 .. Len(ss) |-> f[i]]
    OBVIOUS
  <2>2. \A i \in 1 .. Len(ss) : f[i] = IF i = 1 THEN ss[i] ELSE f[i - 1] \o ss[i]
    BY <1>1 DEF Joins, Joined
  <2> QED  BY <2>1, <2>2, Zenon
<1>3. Equation(g)
  BY <1>2
<1>4. Joins(g, ss, Len(ss))
  <2>1. \A i \in 1 .. Len(ss) : g[i] = IF i = 1 THEN ss[i] ELSE g[i - 1] \o ss[i]
    BY <1>3
  <2> HIDE DEF g
  <2> QED  BY <2>1, SMTT(40) DEF Joins, Joined
<1>5. Len(ss) \in Nat /\ Len(ss) # 0
  OBVIOUS
<1>6. FlattenSeq(ss) = g[Len(ss)]
  BY <1>5 DEF FlattenSeq
<1>7. g[Len(ss)] = f[Len(ss)]
  <2> HIDE DEF g
  <2>1. Len(ss) \in 1 .. Len(ss)
    BY <1>5
  <2>2. SameUpto(g, f, Len(ss))
    BY <1>1, <1>4, <1>5, JoinsAgree DEF SameUpto
  <2> QED  BY <2>1, <2>2 DEF SameUpto
<1> QED  BY <1>1, <1>6, <1>7

\* Append as a concatenation.
LEMMA AppendConcat ==
  ASSUME NEW S, NEW s \in Seq(S), NEW t \in Seq(S), NEW e \in S
  PROVE  s \o Append(t, e) = Append(s \o t, e)
OBVIOUS

\* Three sequences after one another.
LEMMA ConcatThree ==
  ASSUME NEW S, NEW s \in Seq(S), NEW t \in Seq(S), NEW u \in Seq(S)
  PROVE  (s \o t) \o u = s \o (t \o u)
OBVIOUS

\* Nothing makes nothing.
LEMMA FlattenEmpty == FlattenSeq(<<>>) = <<>>
BY DEF FlattenSeq

\* A flattened sequence is a sequence of the same things.
LEMMA FlattenType ==
  ASSUME NEW S, NEW ss \in Seq(Seq(S))
  PROVE  FlattenSeq(ss) \in Seq(S)
<1>1. CASE ss = <<>>
  <2>1. <<>> \in Seq(S)
    OBVIOUS
  <2> QED  BY <1>1, <2>1, FlattenEmpty
<1>2. CASE ss # <<>>
  <2>1. PICK f \in [1 .. Len(ss) -> Seq(S)] : FlattenSeq(ss) = f[Len(ss)]
    BY <1>2, FlattenSeqJoins
  <2>2. Len(ss) \in 1 .. Len(ss)
    BY <1>2
  <2> QED  BY <2>1, <2>2
<1> QED  BY <1>1, <1>2

\* A sequence more is added at the end.
LEMMA FlattenAppend ==
  ASSUME NEW S, NEW ss \in Seq(Seq(S)), NEW s \in Seq(S)
  PROVE  FlattenSeq(Append(ss, s)) = FlattenSeq(ss) \o s
<1> DEFINE ts == Append(ss, s)
           n == Len(ss)
<1>1. /\ ts \in Seq(Seq(S)) /\ ts # <<>> /\ Len(ts) = n + 1 /\ ts[n + 1] = s /\ n \in Nat
      /\ \A i \in 1 .. n : ss[i] = ts[i]
  <2>1. ss \in Seq(Seq(S)) /\ s \in Seq(S)
    OBVIOUS
  <2> HIDE DEF n
  <2>2. \A U, x : x \in U => \A xs \in Seq(U) :
          /\ Append(xs, x) \in Seq(U) /\ Append(xs, x) # <<>>
          /\ Len(Append(xs, x)) = Len(xs) + 1 /\ Append(xs, x)[Len(xs) + 1] = x
          /\ Len(xs) \in Nat /\ \A i \in 1 .. Len(xs) : xs[i] = Append(xs, x)[i]
    OBVIOUS
  <2> QED  BY <2>1, <2>2 DEF n
<1> HIDE DEF ts, n
<1>2. PICK g \in [1 .. n + 1 -> Seq(S)] : Joins(g, ts, n + 1) /\ FlattenSeq(ts) = g[n + 1]
  BY <1>1, FlattenSeqJoins
<1>3. g[n + 1] = Joined(g, ts, n + 1)
  BY <1>1, <1>2 DEF Joins
<1>4. CASE ss = <<>>
  <2>1. n = 0 /\ g[n + 1] = s /\ <<>> \o s = s
    BY <1>1, <1>3, <1>4 DEF Joined, n
  <2> QED  BY <1>2, <1>4, <2>1, FlattenEmpty DEF ts
<1>5. CASE ss # <<>>
  <2>1. PICK f \in [1 .. n -> Seq(S)] : Joins(f, ss, n) /\ FlattenSeq(ss) = f[n]
    BY <1>5, FlattenSeqJoins DEF n
  <2>2. n # 0 /\ n \in 1 .. n
    BY <1>5 DEF n
  <2>3. Joins(g, ts, n)
    BY <1>1, <1>2 DEF Joins
  <2>4. f[n] = g[n]
    <3>1. n \in Nat /\ SameUpto(ss, ts, n)
      BY <1>1 DEF SameUpto
    <3>2. SameUpto(f, g, n)
      BY <2>1, <2>3, <3>1, JoinsAgree
    <3> QED  BY <2>2, <3>2 DEF SameUpto
  <2>5. g[n + 1] = g[n] \o s
    <3>1. n + 1 # 1 /\ (n + 1) - 1 = n
      BY <1>1, <2>2
    <3> QED  BY <1>1, <1>3, <3>1 DEF Joined
  <2> QED  BY <1>2, <2>1, <2>4, <2>5 DEF ts
<1> QED  BY <1>4, <1>5

\* One sequence stays what it is.
LEMMA FlattenOne ==
  ASSUME NEW S, NEW s \in Seq(S)
  PROVE  FlattenSeq(<<s>>) = s
<1>1. <<>> \in Seq(Seq(S)) /\ Append(<<>>, s) = <<s>> /\ <<>> \o s = s
  OBVIOUS
<1> QED  BY <1>1, FlattenAppend, FlattenEmpty

\* Two lists of sequences are flattened one after the other.
LEMMA FlattenConcat ==
  ASSUME NEW S, NEW ss \in Seq(Seq(S)), NEW ts \in Seq(Seq(S))
  PROVE  FlattenSeq(ss \o ts) = FlattenSeq(ss) \o FlattenSeq(ts)
<1> DEFINE Upto(n) == SubSeq(ts, 1, n)
           T == {n \in Nat : n <= Len(ts) =>
                   FlattenSeq(ss \o Upto(n)) = FlattenSeq(ss) \o FlattenSeq(Upto(n))}
<1>1. 0 \in T
  <2>1. Upto(0) = <<>> /\ ss \o <<>> = ss
    OBVIOUS
  <2>2. FlattenSeq(ss) \o <<>> = FlattenSeq(ss)
    BY FlattenType
  <2> HIDE DEF Upto
  <2> QED  BY <2>1, <2>2, FlattenEmpty
<1>2. ASSUME NEW n \in Nat, n \in T PROVE n + 1 \in T
  <2> SUFFICES ASSUME n + 1 <= Len(ts)
               PROVE  FlattenSeq(ss \o Upto(n + 1)) = FlattenSeq(ss) \o FlattenSeq(Upto(n + 1))
    OBVIOUS
  <2>1. /\ Upto(n) \in Seq(Seq(S)) /\ ts[n + 1] \in Seq(S)
        /\ Upto(n + 1) = Append(Upto(n), ts[n + 1])
        /\ ss \o Upto(n) \in Seq(Seq(S))
    OBVIOUS
  <2>2. n <= Len(ts)
    OBVIOUS
  <2>3. FlattenSeq(ss \o Upto(n)) = FlattenSeq(ss) \o FlattenSeq(Upto(n))
    BY <1>2, <2>2
  <2> HIDE DEF Upto
  <2>4. ss \o Upto(n + 1) = Append(ss \o Upto(n), ts[n + 1])
    <3>1. PICK x \in Seq(Seq(S)), y \in Seq(S) : x = Upto(n) /\ y = ts[n + 1]
      BY <2>1
    <3>2. ss \o Append(x, y) = Append(ss \o x, y)
      BY SMTT(40)
    <3> QED  BY <2>1, <3>1, <3>2
  <2>5. FlattenSeq(ss \o Upto(n + 1)) = (FlattenSeq(ss) \o FlattenSeq(Upto(n))) \o ts[n + 1]
    BY <2>1, <2>3, <2>4, FlattenAppend, ZenonT(60)
  <2>6. FlattenSeq(Upto(n + 1)) = FlattenSeq(Upto(n)) \o ts[n + 1]
    BY <2>1, FlattenAppend
  <2>7. FlattenSeq(ss) \in Seq(S) /\ FlattenSeq(Upto(n)) \in Seq(S)
    BY <2>1, FlattenType
  <2>8. ts[n + 1] \in Seq(S)
    BY <2>1
  <2>9. PICK x \in Seq(S), y \in Seq(S), z \in Seq(S) :
          x = FlattenSeq(ss) /\ y = FlattenSeq(Upto(n)) /\ z = ts[n + 1]
    BY <2>7, <2>8
  <2>10. (x \o y) \o z = x \o (y \o z)
    BY SMTT(40)
  <2> QED  BY <2>5, <2>6, <2>9, <2>10
<1>3. \A n \in Nat : n \in T
  <2>1. T \in SUBSET Nat
    OBVIOUS
  <2> HIDE DEF T
  <2> QED  BY <1>1, <1>2, <2>1, SetInduction
<1>4. Len(ts) \in T /\ Upto(Len(ts)) = ts
  BY <1>3
<1>5. FlattenSeq(ss \o Upto(Len(ts))) = FlattenSeq(ss) \o FlattenSeq(Upto(Len(ts)))
  BY <1>4
<1> QED  BY <1>4, <1>5

\* The elements of two sequences after one another.
LEMMA ConcatParts ==
  ASSUME NEW S, NEW s \in Seq(S), NEW t \in Seq(S)
  PROVE  /\ s \o t \in Seq(S) /\ Len(s \o t) = Len(s) + Len(t)
         /\ \A i \in 1 .. Len(s) + Len(t) : (s \o t)[i] = IF i <= Len(s) THEN s[i] ELSE t[i - Len(s)]
OBVIOUS

\* The elements of a part of a sequence.
LEMMA PartParts ==
  ASSUME NEW S, NEW s \in Seq(S), NEW a \in 1 .. Len(s) + 1, NEW b \in a - 1 .. Len(s)
  PROVE  /\ SubSeq(s, a, b) \in Seq(S) /\ Len(SubSeq(s, a, b)) = b - a + 1
         /\ \A i \in 1 .. b - a + 1 : SubSeq(s, a, b)[i] = s[a + i - 1]
OBVIOUS

\* Sequences with the same elements are the same.
LEMMA SameSequence ==
  ASSUME NEW S, NEW s \in Seq(S), NEW t \in Seq(S), Len(s) = Len(t),
         \A i \in 1 .. Len(s) : s[i] = t[i]
  PROVE  s = t
<1>1. s \in [1 .. Len(s) -> S] /\ t \in [1 .. Len(s) -> S]
  OBVIOUS
<1>2. s = [i \in 1 .. Len(s) |-> s[i]] /\ t = [i \in 1 .. Len(s) |-> t[i]]
  BY <1>1
<1> QED  BY <1>2, Zenon

\* A sequence is what stands before a cut and what stands after it.
LEMMA CutInTwo ==
  ASSUME NEW S, NEW s \in Seq(S), NEW k \in 0 .. Len(s)
  PROVE  SubSeq(s, 1, k) \o SubSeq(s, k + 1, Len(s)) = s
<1> DEFINE x == SubSeq(s, 1, k)
           y == SubSeq(s, k + 1, Len(s))
<1>1. /\ x \in Seq(S) /\ Len(x) = k /\ \A i \in 1 .. k : x[i] = s[i]
      /\ y \in Seq(S) /\ Len(y) = Len(s) - k /\ \A i \in 1 .. Len(s) - k : y[i] = s[k + i]
  OBVIOUS
<1> HIDE DEF x, y
<1>2. x \o y \in Seq(S) /\ Len(x \o y) = Len(s)
  BY <1>1
<1>3. ASSUME NEW i \in 1 .. Len(s) PROVE (x \o y)[i] = s[i]
  <2>1. CASE i <= k
    BY <1>1, <2>1
  <2>2. CASE ~(i <= k)
    <3>1. i - k \in 1 .. Len(s) - k /\ k + (i - k) = i
      BY <2>2
    <3>2. (x \o y)[i] = y[i - k]
      BY <1>1, <2>2
    <3> QED  BY <1>1, <3>1, <3>2
  <2> QED  BY <2>1, <2>2
<1>4. x \o y = s
  BY <1>2, <1>3, SameSequence
<1> QED  BY <1>4 DEF x, y

-------------------------------------------------------------------------------
(* How often a character occurs *)

\* There are finitely many places to count.
LEMMA CountFinite ==
  ASSUME NEW S, NEW s \in Seq(S), NEW c
  PROVE  IsFiniteSet({i \in DOMAIN s : s[i] = c})
<1>1. IsFiniteSet(1 .. Len(s))
  BY FS_Interval
<1>2. {i \in DOMAIN s : s[i] = c} \in SUBSET (1 .. Len(s))
  OBVIOUS
<1> QED  BY <1>1, <1>2, FS_Subset

\* How often a character stands in a text is a number.
LEMMA CountType ==
  ASSUME NEW S, NEW s \in Seq(S), NEW c
  PROVE  Count(c, s) \in Nat
BY CountFinite, FS_CardinalityType DEF Count

\* Nothing stands in the empty text.
LEMMA CountEmpty ==
  ASSUME NEW c
  PROVE  Count(c, <<>>) = 0
<1>1. {i \in DOMAIN <<>> : <<>>[i] = c} = {}
  OBVIOUS
<1> QED  BY <1>1, FS_EmptySet DEF Count

\* A character more.
LEMMA CountAppend ==
  ASSUME NEW S, NEW s \in Seq(S), NEW e \in S, NEW c
  PROVE  Count(c, Append(s, e)) = Count(c, s) + (IF e = c THEN 1 ELSE 0)
<1> DEFINE At(t) == {i \in DOMAIN t : t[i] = c}
           n == Len(s) + 1
<1>1. At(Append(s, e)) = IF e = c THEN At(s) \cup {n} ELSE At(s)
  OBVIOUS
<1>2. n \notin At(s)
  OBVIOUS
<1>3. IsFiniteSet(At(s)) /\ Count(c, s) = Cardinality(At(s)) /\ Count(c, s) \in Nat
  BY CountType, CountFinite DEF Count
<1>4. Count(c, Append(s, e)) = Cardinality(At(Append(s, e)))
  BY DEF Count
<1> HIDE DEF At, n
<1>5. Cardinality(At(s) \cup {n}) = Cardinality(At(s)) + 1
  BY <1>2, <1>3, FS_AddElement
<1> QED  BY <1>1, <1>3, <1>4, <1>5

\* The characters of two texts are those of both.
LEMMA CountConcat ==
  ASSUME NEW S, NEW s \in Seq(S), NEW t \in Seq(S), NEW c
  PROVE  Count(c, s \o t) = Count(c, s) + Count(c, t)
<1> DEFINE Upto(n) == SubSeq(t, 1, n)
           T == {n \in Nat : n <= Len(t) => Count(c, s \o Upto(n)) = Count(c, s) + Count(c, Upto(n))}
<1>1. 0 \in T
  <2>1. Upto(0) = <<>> /\ s \o <<>> = s
    OBVIOUS
  <2>2. Count(c, s) + 0 = Count(c, s)
    BY CountType
  <2> HIDE DEF Upto
  <2> QED  BY <2>1, <2>2, CountEmpty
<1>2. ASSUME NEW n \in Nat, n \in T PROVE n + 1 \in T
  <2> SUFFICES ASSUME n + 1 <= Len(t)
               PROVE  Count(c, s \o Upto(n + 1)) = Count(c, s) + Count(c, Upto(n + 1))
    OBVIOUS
  <2>1. PICK x \in Seq(S), e \in S : /\ x = Upto(n) /\ e = t[n + 1] /\ Upto(n + 1) = Append(x, e)
    <3>1. Upto(n) \in Seq(S) /\ t[n + 1] \in S /\ Upto(n + 1) = Append(Upto(n), t[n + 1])
      OBVIOUS
    <3> HIDE DEF Upto
    <3> QED  BY <3>1
  <2>2. Count(c, s \o x) = Count(c, s) + Count(c, x)
    BY <1>2, <2>1
  <2> HIDE DEF Upto
  <2>3. s \o Append(x, e) = Append(s \o x, e) /\ s \o x \in Seq(S)
    BY AppendConcat
  <2>4. Count(c, Append(s \o x, e)) = Count(c, s \o x) + (IF e = c THEN 1 ELSE 0)
    BY <2>3, CountAppend
  <2>5. Count(c, Append(x, e)) = Count(c, x) + (IF e = c THEN 1 ELSE 0)
    BY CountAppend
  <2>6. Count(c, s) \in Nat /\ Count(c, x) \in Nat
    BY CountType
  <2> DEFINE one == IF e = c THEN 1 ELSE 0
  <2>7. one \in Nat
    OBVIOUS
  <2> HIDE DEF one
  <2>8. Count(c, Append(s \o x, e)) = (Count(c, s) + Count(c, x)) + one
    BY <2>2, <2>4 DEF one
  <2>9. Count(c, Append(x, e)) = Count(c, x) + one
    BY <2>5 DEF one
  <2>10. (Count(c, s) + Count(c, x)) + one = Count(c, s) + (Count(c, x) + one)
    BY <2>6, <2>7
  <2> QED  BY <2>1, <2>3, <2>8, <2>9, <2>10
<1>3. Len(t) \in T /\ Upto(Len(t)) = t
  <2>1. T \in SUBSET Nat /\ Len(t) \in Nat /\ Upto(Len(t)) = t
    OBVIOUS
  <2> HIDE DEF T
  <2> QED  BY <1>1, <1>2, <2>1, SetInduction
<1>4. Count(c, s \o Upto(Len(t))) = Count(c, s) + Count(c, Upto(Len(t)))
  BY <1>3
<1> QED  BY <1>3, <1>4

\* The characters of a text are those on both sides of a cut.
LEMMA CountSplit ==
  ASSUME NEW S, NEW s \in Seq(S), NEW k \in 0 .. Len(s), NEW c
  PROVE  /\ SubSeq(s, 1, k) \in Seq(S) /\ SubSeq(s, k + 1, Len(s)) \in Seq(S)
         /\ Count(c, s) = Count(c, SubSeq(s, 1, k)) + Count(c, SubSeq(s, k + 1, Len(s)))
<1>1. PICK x \in Seq(S), y \in Seq(S) :
        x = SubSeq(s, 1, k) /\ y = SubSeq(s, k + 1, Len(s)) /\ s = x \o y
  <2>1. SubSeq(s, 1, k) \in Seq(S) /\ SubSeq(s, k + 1, Len(s)) \in Seq(S)
    OBVIOUS
  <2>2. s = SubSeq(s, 1, k) \o SubSeq(s, k + 1, Len(s))
    BY CutInTwo
  <2> QED  BY <2>1, <2>2
<1>2. Count(c, x \o y) = Count(c, x) + Count(c, y)
  BY CountConcat
<1> QED  BY <1>1, <1>2

\* A sequence of other characters.
LEMMA CountNone ==
  ASSUME NEW S, NEW s \in Seq(S), NEW c, \A i \in DOMAIN s : s[i] # c
  PROVE  Count(c, s) = 0
<1>1. {i \in DOMAIN s : s[i] = c} = {}
  OBVIOUS
<1> QED  BY <1>1, FS_EmptySet DEF Count

-------------------------------------------------------------------------------
(* What the CLI applied, and what it reported *)

CliFields(c) ==
  c = [phase |-> c.phase, turns |-> c.turns, blocks |-> c.blocks, next |-> c.next,
       results |-> c.results, files |-> c.files, answers |-> c.answers, applied |-> c.applied,
       journal |-> c.journal]
Turn(R) == [role : {"user", "assistant"}, results : Seq(R)]
Reported(turns) == [i \in DOMAIN turns |-> turns[i].results]

\* Only a CLI that is executing blocks has results it has not sent.
ReportedOK(c, R) ==
  /\ CliFields(c) /\ c.turns \in Seq(Turn(R)) /\ c.results \in Seq(R)
  /\ c.phase # "executing" => c.results = <<>>
  /\ c.applied = FlattenSeq(Reported(c.turns)) \o c.results

\* A turn more, with the results it reports.
LEMMA ReportedTurn ==
  ASSUME NEW R, NEW turns \in Seq(Turn(R)), NEW turn \in Turn(R)
  PROVE  /\ Append(turns, turn) \in Seq(Turn(R)) /\ Reported(turns) \in Seq(Seq(R))
         /\ FlattenSeq(Reported(Append(turns, turn)))
              = FlattenSeq(Reported(turns)) \o turn.results
<1>1. ASSUME NEW ts \in Seq(Turn(R)) PROVE Reported(ts) \in Seq(Seq(R))
  <2>1. DOMAIN ts = 1 .. Len(ts) /\ Len(ts) \in Nat /\ \A i \in 1 .. Len(ts) : ts[i] \in Turn(R)
    OBVIOUS
  <2>2. \A turn1 \in Turn(R) : turn1.results \in Seq(R)
    BY DEF Turn
  <2>3. Reported(ts) = [i \in 1 .. Len(ts) |-> ts[i].results]
    BY <2>1 DEF Reported
  <2> QED  BY <2>1, <2>2, <2>3
<1>2. Append(turns, turn) \in Seq(Turn(R))
  OBVIOUS
<1>3. turn.results \in Seq(R)
  BY DEF Turn
<1>4. Reported(Append(turns, turn)) = Append(Reported(turns), turn.results)
  <2> DEFINE ts == Append(turns, turn)
             xs == Reported(turns)
  <2>1. /\ xs \in Seq(Seq(R)) /\ Len(xs) = Len(turns)
        /\ \A i \in 1 .. Len(turns) : xs[i] = turns[i].results
    BY <1>1 DEF Reported
  <2>2. Reported(ts) \in Seq(Seq(R)) /\ Len(ts) = Len(turns) + 1 /\ Len(Reported(ts)) = Len(turns) + 1
    <3>1. ts \in Seq(Turn(R)) /\ DOMAIN ts = 1 .. Len(turns) + 1 /\ Len(ts) = Len(turns) + 1
      OBVIOUS
    <3>2. Reported(ts) = [i \in 1 .. Len(turns) + 1 |-> ts[i].results] /\ Reported(ts) \in Seq(Seq(R))
      <4> HIDE DEF ts
      <4> QED  BY <1>1, <3>1 DEF Reported
    <3> HIDE DEF ts
    <3> QED  BY <3>1, <3>2
  <2>3. \A i \in 1 .. Len(turns) + 1 : Reported(ts)[i] = IF i <= Len(turns) THEN xs[i] ELSE turn.results
    BY <2>1 DEF Reported
  <2> HIDE DEF xs, ts
  <2>4. /\ Append(xs, turn.results) \in Seq(Seq(R)) /\ Len(Append(xs, turn.results)) = Len(turns) + 1
        /\ \A i \in 1 .. Len(turns) + 1 :
             Append(xs, turn.results)[i] = IF i <= Len(turns) THEN xs[i] ELSE turn.results
    BY <1>3, <2>1
  <2>5. Reported(ts) = Append(xs, turn.results)
    BY <2>2, <2>3, <2>4, SameSequence
  <2> QED  BY <2>5 DEF xs, ts
<1> QED  BY <1>1, <1>2, <1>3, <1>4, FlattenAppend

\* At first nothing was applied and nothing is reported.
LEMMA ReportedInit == Init => \E R : ReportedOK(cli, R)
<1> SUFFICES ASSUME Init PROVE \E R : ReportedOK(cli, R)
  OBVIOUS
<1>1. /\ CliFields(cli) /\ cli.turns = <<>> /\ cli.results = <<>> /\ cli.applied = <<>>
  BY DEF Init, NewCli, CliFields
<1>2. ReportedOK(cli, {})
  <2>1. Reported(<<>>) = <<>> /\ <<>> \in Seq(Turn({})) /\ <<>> \in Seq({})
    BY DEF Reported
  <2>2. FlattenSeq(Reported(<<>>)) \o <<>> = <<>>
    BY <2>1, FlattenEmpty
  <2> QED  BY <1>1, <2>1, <2>2 DEF ReportedOK
<1> QED  BY <1>2

\* Applying a block adds its result to those of the turn, and to the ghost.
LEMMA Applying ==
  ASSUME ApplyBlock
  PROVE  \E result, next, files, journal :
           cli' = [cli EXCEPT !.files = files, !.next = next, !.results = Append(@, result),
                              !.applied = Append(@, result), !.journal = journal]
<1>1. PICK done \in Applied(Block, cli.files) :
        LET result == [language |-> Block.language, success |-> done.success]
            edit == [content |-> Block.content, before |-> cli.files, after |-> done.files,
                     success |-> done.success]
        IN  cli' = [cli EXCEPT !.files = done.files, !.next = @ + 1,
                               !.results = Append(@, result), !.applied = Append(@, result),
                               !.journal = IF Block.language = <<"edit">> THEN Append(@, edit) ELSE @]
  BY Zenon DEF ApplyBlock
<1> QED  BY <1>1, Zenon

\* No step loses a result, or reports it twice.
LEMMA ReportedStep ==
  ASSUME NEW R, ReportedOK(cli, R), [Next]_vars
  PROVE  \E R2 : ReportedOK(cli', R2)
<1> DEFINE told == FlattenSeq(Reported(cli.turns))
<1>1. /\ CliFields(cli) /\ cli.turns \in Seq(Turn(R)) /\ cli.results \in Seq(R)
      /\ cli.phase # "executing" => cli.results = <<>>
      /\ cli.applied = told \o cli.results /\ told \in Seq(R)
  <2>1. Reported(cli.turns) \in Seq(Seq(R))
    <3>1. [role |-> "user", results |-> <<>>] \in Turn(R)
      BY DEF Turn
    <3> QED  BY <3>1, ReportedTurn DEF ReportedOK
  <2> QED  BY <2>1, FlattenType DEF ReportedOK
<1>2. CASE UNCHANGED cli
  BY <1>2
<1>3. ASSUME NEW turn \in Turn(R), CliFields(cli'), cli'.turns = Append(cli.turns, turn),
             cli'.results = <<>>, cli'.applied = cli.applied, turn.results = cli.results
      PROVE  ReportedOK(cli', R)
  <2>1. /\ cli'.turns \in Seq(Turn(R))
        /\ FlattenSeq(Reported(cli'.turns)) = told \o turn.results
    BY <1>1, <1>3, ReportedTurn
  <2>2. (told \o cli.results) \o <<>> = told \o cli.results /\ <<>> \in Seq(R)
    BY <1>1
  <2> QED  BY <1>1, <1>3, <2>1, <2>2 DEF ReportedOK
<1>4. ASSUME CliFields(cli'), cli'.turns = cli.turns, cli'.applied = cli.applied,
             cli'.results = cli.results, cli'.phase # "executing" => cli.results = <<>>
      PROVE  ReportedOK(cli', R)
  BY <1>1, <1>4 DEF ReportedOK
<1>5. User(<<>>) \in Turn(R) /\ User(cli.results) \in Turn(R) /\ Assistant \in Turn(R)
  BY <1>1 DEF User, Assistant, Turn
<1>6. ASSUME NEW a, Ask(a) PROVE ReportedOK(cli', R)
  <2>1. /\ CliFields(cli') /\ cli'.turns = Append(cli.turns, User(<<>>))
        /\ cli'.results = <<>> /\ cli'.applied = cli.applied /\ cli.results = <<>>
    BY <1>1, <1>6 DEF Ask, CliFields
  <2>2. User(<<>>).results = cli.results
    BY <2>1 DEF User
  <2> QED  BY <1>3, <1>5, <2>1, <2>2
<1>7. ASSUME NEW a, SendResults(a) PROVE ReportedOK(cli', R)
  <2>1. /\ CliFields(cli') /\ cli'.turns = Append(cli.turns, User(cli.results))
        /\ cli'.results = <<>> /\ cli'.applied = cli.applied
    BY <1>1, <1>7 DEF SendResults, CliFields
  <2>2. User(cli.results).results = cli.results
    BY DEF User
  <2> QED  BY <1>3, <1>5, <2>1, <2>2
<1>8. CASE End
  <2>1. cli.phase = "streaming" /\ cli.results = <<>>
    BY <1>1, <1>8 DEF End
  <2>2. CASE program = "server"
    <3>1. cli' = [cli EXCEPT !.phase = "ended"]
      BY <1>8, <2>2 DEF End
    <3> QED  BY <1>1, <1>4, <2>1, <3>1 DEF CliFields
  <2>3. CASE program # "server"
    <3>1. PICK blocks, phase : cli' = [cli EXCEPT !.turns = Append(@, Assistant), !.blocks = blocks,
                                              !.next = 1, !.results = <<>>, !.phase = phase]
      BY <1>8, <2>3, Zenon DEF End
    <3>2. /\ CliFields(cli') /\ cli'.turns = Append(cli.turns, Assistant)
          /\ cli'.results = <<>> /\ cli'.applied = cli.applied
      BY <1>1, <3>1 DEF CliFields
    <3>3. Assistant.results = cli.results
      BY <2>1 DEF Assistant
    <3> QED  BY <1>3, <1>5, <3>2, <3>3
  <2> QED  BY <2>2, <2>3
<1>9. CASE Fail \/ SkipBlock \/ SkipAll \/ NothingToReport
  <2>1. /\ CliFields(cli') /\ cli'.turns = cli.turns /\ cli'.applied = cli.applied
        /\ cli'.results = cli.results
        /\ cli'.phase # "executing" => cli.results = <<>>
    BY <1>1, <1>9 DEF Fail, SkipBlock, SkipAll, NothingToReport, CliFields
  <2> QED  BY <1>4, <2>1
<1>10. CASE ApplyBlock
  <2>1. PICK result, next, files, journal :
          cli' = [cli EXCEPT !.files = files, !.next = next, !.results = Append(@, result),
                             !.applied = Append(@, result), !.journal = journal]
    BY <1>10, Applying
  <2>2. cli.phase = "executing"
    BY <1>10 DEF ApplyBlock
  <2>3. /\ CliFields(cli') /\ cli'.turns = cli.turns /\ cli'.phase = cli.phase
        /\ cli'.results = Append(cli.results, result) /\ cli'.applied = Append(cli.applied, result)
    BY <1>1, <2>1 DEF CliFields
  <2>4. PICK R2 : R2 = R \cup {result}
    OBVIOUS
  <2>5. told \in Seq(R2) /\ cli.results \in Seq(R2) /\ cli.turns \in Seq(Turn(R2)) /\ result \in R2
    <3>1. R \subseteq R2
      BY <2>4
    <3>2. \A A, B : A \subseteq B => Seq(A) \subseteq Seq(B)
      OBVIOUS
    <3>3. Seq(R) \subseteq Seq(R2)
      BY <3>1, <3>2
    <3>4. Turn(R) \subseteq Turn(R2)
      BY <3>3 DEF Turn
    <3>5. Seq(Turn(R)) \subseteq Seq(Turn(R2))
      BY <3>2, <3>4
    <3> QED  BY <1>1, <2>4, <3>3, <3>5
  <2>6. /\ Append(told \o cli.results, result) = told \o Append(cli.results, result)
        /\ Append(cli.results, result) \in Seq(R2)
    <3> HIDE DEF told
    <3>1. PICK x \in Seq(R2), y \in Seq(R2), r \in R2 : x = told /\ y = cli.results /\ r = result
      BY <2>5
    <3>2. Append(x \o y, r) = x \o Append(y, r)
      OBVIOUS
    <3>3. Append(y, r) \in Seq(R2)
      OBVIOUS
    <3> QED  BY <3>1, <3>2, <3>3
  <2>7. ReportedOK(cli', R2)
    BY <1>1, <2>2, <2>3, <2>5, <2>6 DEF ReportedOK
  <2> QED  BY <2>7
<1>11. CASE Next
  <2>1. ASSUME NEW n, SendText(n) PROVE UNCHANGED cli
    BY <2>1 DEF SendText
  <2>2. ASSUME NEW n, Read(n) PROVE UNCHANGED cli
    BY <2>2 DEF Read
  <2>3. SendTool \/ Close => UNCHANGED cli
    BY DEF SendTool, Close
  <2> QED  BY <1>2, <1>6, <1>7, <1>8, <1>9, <1>10, <1>11, <2>1, <2>2, <2>3 DEF Next
<1> QED  BY <1>2, <1>11 DEF vars

\* AppliedReported: the result of every block that was applied is in a message to Lumo, or
\* is kept for the next one, once and in order, for any answers, blocks and decisions of the
\* user (cli/client.ts:222).
THEOREM EveryResultIsReported == Spec => []AppliedReported
<1> DEFINE Inv == \E R : ReportedOK(cli, R)
<1>1. Init => Inv
  BY ReportedInit
<1>2. Inv /\ [Next]_vars => Inv'
  BY ReportedStep
<1>3. Inv => AppliedReported
  BY DEF ReportedOK, AppliedReported, Reported
<1> HIDE DEF Inv
<1> QED  BY <1>1, <1>2, <1>3, PTL DEF Spec

-------------------------------------------------------------------------------
(* The lines of an answer *)

Symbol == (UNION {Range(a.text) : a \in ServerAnswers \cup CliAnswers})
            \cup {Tick, NL, Json, "summary"} \cup Range(ToolParts)
Line == [type : {"text", "tool", "done", "newline"}, content : Seq(Symbol)]

\* Carried: what the lines of a type in w carry.
Carries(type, w) == [i \in DOMAIN w |-> IF w[i].type = type THEN w[i].content ELSE <<>>]
Carried(type, w) == FlattenSeq(Carries(type, w))
CarriedBy(type, line) == IF line.type = type THEN line.content ELSE <<>>

\* A line carries a text.
LEMMA CarriedByType ==
  ASSUME NEW type, NEW line \in Line
  PROVE  CarriedBy(type, line) \in Seq(Symbol)
BY DEF CarriedBy, Line

\* So does each of several lines.
LEMMA CarriesType ==
  ASSUME NEW type, NEW w \in Seq(Line)
  PROVE  /\ Carries(type, w) \in Seq(Seq(Symbol)) /\ Len(Carries(type, w)) = Len(w)
         /\ \A i \in 1 .. Len(w) : Carries(type, w)[i] = CarriedBy(type, w[i])
<1>1. DOMAIN w = 1 .. Len(w) /\ Len(w) \in Nat /\ \A i \in 1 .. Len(w) : w[i] \in Line
  OBVIOUS
<1>2. Carries(type, w) = [i \in 1 .. Len(w) |-> CarriedBy(type, w[i])]
  BY <1>1 DEF Carries, CarriedBy
<1>3. \A i \in 1 .. Len(w) : CarriedBy(type, w[i]) \in Seq(Symbol)
  BY <1>1, CarriedByType
<1> QED  BY <1>1, <1>2, <1>3

\* And all of them together.
LEMMA CarriedType ==
  ASSUME NEW type, NEW w \in Seq(Line)
  PROVE  Carried(type, w) \in Seq(Symbol)
BY CarriesType, FlattenType DEF Carried

\* No line carries nothing.
LEMMA CarriedNothing ==
  ASSUME NEW type
  PROVE  Carried(type, <<>>) = <<>>
<1>1. Carries(type, <<>>) = <<>>
  BY DEF Carries
<1> QED  BY <1>1, FlattenEmpty DEF Carried

\* Lines after one another carry their texts after one another.
LEMMA CarriedConcat ==
  ASSUME NEW type, NEW v \in Seq(Line), NEW w \in Seq(Line)
  PROVE  Carried(type, v \o w) = Carried(type, v) \o Carried(type, w)
<1> DEFINE x == Carries(type, v)
           y == Carries(type, w)
           z == Carries(type, v \o w)
<1>1. /\ v \o w \in Seq(Line) /\ Len(v \o w) = Len(v) + Len(w)
      /\ \A i \in 1 .. Len(v) + Len(w) : (v \o w)[i] = IF i <= Len(v) THEN v[i] ELSE w[i - Len(v)]
      /\ Len(v) \in Nat /\ Len(w) \in Nat
  OBVIOUS
<1>2. /\ x \in Seq(Seq(Symbol)) /\ Len(x) = Len(v)
      /\ \A i \in 1 .. Len(v) : x[i] = CarriedBy(type, v[i])
      /\ y \in Seq(Seq(Symbol)) /\ Len(y) = Len(w)
      /\ \A i \in 1 .. Len(w) : y[i] = CarriedBy(type, w[i])
      /\ z \in Seq(Seq(Symbol)) /\ Len(z) = Len(v) + Len(w)
      /\ \A i \in 1 .. Len(v) + Len(w) : z[i] = CarriedBy(type, (v \o w)[i])
  BY <1>1, CarriesType
<1> HIDE DEF x, y, z
<1>3. /\ x \o y \in Seq(Seq(Symbol)) /\ Len(x \o y) = Len(v) + Len(w)
      /\ \A i \in 1 .. Len(v) + Len(w) : (x \o y)[i] = IF i <= Len(v) THEN x[i] ELSE y[i - Len(v)]
  <2>1. /\ x \o y \in Seq(Seq(Symbol)) /\ Len(x \o y) = Len(x) + Len(y)
        /\ \A i \in 1 .. Len(x) + Len(y) : (x \o y)[i] = IF i <= Len(x) THEN x[i] ELSE y[i - Len(x)]
    <3>1. \A a, b \in Seq(Seq(Symbol)) :
            /\ a \o b \in Seq(Seq(Symbol)) /\ Len(a \o b) = Len(a) + Len(b)
            /\ \A i \in 1 .. Len(a) + Len(b) : (a \o b)[i] = IF i <= Len(a) THEN a[i] ELSE b[i - Len(a)]
      OBVIOUS
    <3> QED  BY <1>2, <3>1
  <2> QED  BY <1>2, <2>1
<1>4. ASSUME NEW i \in 1 .. Len(v) + Len(w) PROVE z[i] = (x \o y)[i]
  <2>1. CASE i <= Len(v)
    BY <1>1, <1>2, <1>3, <2>1
  <2>2. CASE ~(i <= Len(v))
    <3>1. i - Len(v) \in 1 .. Len(w)
      BY <1>1, <2>2
    <3>2. z[i] = CarriedBy(type, w[i - Len(v)])
      BY <1>1, <1>2, <2>2
    <3>3. (x \o y)[i] = y[i - Len(v)]
      BY <1>3, <2>2
    <3> QED  BY <1>2, <3>1, <3>2, <3>3
  <2> QED  BY <2>1, <2>2
<1>5. z = x \o y
  BY <1>2, <1>3, <1>4, SameSequence
<1> QED  BY <1>2, <1>5, FlattenConcat DEF Carried, x, y, z

\* One line carries its text.
LEMMA CarriedOne ==
  ASSUME NEW type, NEW line \in Line
  PROVE  Carried(type, <<line>>) = CarriedBy(type, line)
<1>1. Carries(type, <<line>>) = <<CarriedBy(type, line)>>
  BY DEF Carries, CarriedBy
<1>2. CarriedBy(type, line) \in Seq(Symbol)
  BY CarriedByType
<1> QED  BY <1>1, <1>2, FlattenOne DEF Carried

\* Alternates: after each line comes its newline, and nothing follows [DONE].
Alternates(w) ==
  /\ w # <<>> => w[1].type # "newline"
  /\ \A i \in 1 .. Len(w) - 1 :
       /\ w[i + 1].type = "newline" <=> w[i].type # "newline"
       /\ w[i].type = "done" => i + 1 = Len(w)
Whole(w) == w # <<>> => w[Len(w)].type = "newline"
NotDone(w) == \A i \in 1 .. Len(w) : w[i].type # "done"

\* A line and its newline more, or the last line alone.
LEMMA AlternatesMore ==
  ASSUME NEW w \in Seq(Line), Alternates(w), Whole(w), NotDone(w), NEW line \in Line,
         line.type # "newline"
  PROVE  /\ Alternates(w \o <<line, Newline>>) /\ Whole(w \o <<line, Newline>>)
         /\ Alternates(w \o <<line>>)
<1> DEFINE n == Len(w)
           v == w \o <<line, Newline>>
           u == w \o <<line>>
<1>1. /\ n \in Nat /\ Len(v) = n + 2 /\ v[n + 1] = line /\ v[n + 2] = Newline
      /\ \A i \in 1 .. n : v[i] = w[i]
      /\ Len(u) = n + 1 /\ u[n + 1] = line /\ \A i \in 1 .. n : u[i] = w[i]
  OBVIOUS
<1>2. n = 0 <=> w = <<>>
  OBVIOUS
<1> HIDE DEF n, u, v
<1>3. Newline.type = "newline"
  BY DEF Newline
<1>4. /\ n # 0 => w[1].type # "newline"
      /\ n # 0 => w[n].type = "newline"
      /\ \A i \in 1 .. n - 1 : w[i + 1].type = "newline" <=> w[i].type # "newline"
  BY <1>2 DEF Alternates, Whole, n
<1>5. v[1].type # "newline" /\ u[1].type # "newline"
  BY <1>1, <1>4
<1>6. ASSUME NEW i \in 1 .. n + 1
      PROVE  /\ v[i + 1].type = "newline" <=> v[i].type # "newline"
             /\ v[i].type = "done" => i + 1 = n + 2
  BY <1>1, <1>3, <1>4 DEF n, NotDone
<1>7. ASSUME NEW i \in 1 .. n
      PROVE  /\ u[i + 1].type = "newline" <=> u[i].type # "newline"
             /\ u[i].type = "done" => i + 1 = n + 1
  BY <1>1, <1>4 DEF n, NotDone
<1> QED  BY <1>1, <1>3, <1>5, <1>6, <1>7, SMTT(40) DEF Alternates, Whole, v, u

\* Without its last line, or its first two.
LEMMA AlternatesLess ==
  ASSUME NEW w \in Seq(Line), Alternates(w)
  PROVE  /\ w # <<>> => Alternates(SubSeq(w, 1, Len(w) - 1))
         /\ Len(w) >= 2 => Alternates(SubSeq(w, 3, Len(w)))
<1>1. ASSUME w # <<>> PROVE Alternates(SubSeq(w, 1, Len(w) - 1))
  <2> DEFINE v == SubSeq(w, 1, Len(w) - 1)
  <2>1. Len(v) = Len(w) - 1 /\ (\A i \in 1 .. Len(w) - 1 : v[i] = w[i]) /\ Len(w) \in Nat \ {0}
    <3>1. Len(w) \in Nat \ {0} /\ 1 \in 1 .. Len(w) + 1 /\ Len(w) - 1 \in 1 - 1 .. Len(w)
      BY <1>1
    <3>2. Len(v) = (Len(w) - 1) - 1 + 1 /\ \A i \in 1 .. (Len(w) - 1) - 1 + 1 : v[i] = w[1 + i - 1]
      BY <3>1, PartParts, ZenonT(60)
    <3> HIDE DEF v
    <3> QED  BY <3>1, <3>2
  <2>2. v # <<>> => Len(v) # 0
    <3>1. v \in Seq(Line)
      OBVIOUS
    <3> HIDE DEF v
    <3> QED  BY <3>1
  <2> HIDE DEF v
  <2>3. v # <<>> => v[1].type # "newline"
    BY <1>1, <2>1, <2>2 DEF Alternates
  <2>4. ASSUME NEW i \in 1 .. Len(v) - 1
        PROVE  /\ v[i + 1].type = "newline" <=> v[i].type # "newline"
               /\ v[i].type = "done" => i + 1 = Len(v)
    BY <2>1 DEF Alternates
  <2> QED  BY <2>3, <2>4 DEF Alternates, v
<1>2. ASSUME Len(w) >= 2 PROVE Alternates(SubSeq(w, 3, Len(w)))
  <2> DEFINE v == SubSeq(w, 3, Len(w))
  <2>1. Len(v) = Len(w) - 2 /\ (\A i \in 1 .. Len(w) - 2 : v[i] = w[i + 2]) /\ Len(w) \in Nat
    <3>1. Len(w) \in Nat /\ 3 \in 1 .. Len(w) + 1 /\ Len(w) \in 3 - 1 .. Len(w)
      BY <1>2
    <3>2. Len(v) = Len(w) - 3 + 1 /\ \A i \in 1 .. Len(w) - 3 + 1 : v[i] = w[3 + i - 1]
      BY <3>1, PartParts
    <3> HIDE DEF v
    <3> QED  BY <3>1, <3>2
  <2>2. v # <<>> => Len(v) # 0
    <3>1. v \in Seq(Line)
      OBVIOUS
    <3> HIDE DEF v
    <3> QED  BY <3>1
  <2> HIDE DEF v
  <2>3. v # <<>> => v[1].type # "newline"
    <3> SUFFICES ASSUME v # <<>> PROVE v[1].type # "newline"
      OBVIOUS
    <3>1. Len(w) >= 3 /\ w[1].type # "newline" /\ v[1] = w[3]
      BY <1>2, <2>1, <2>2 DEF Alternates
    <3>2. w[2].type = "newline" /\ w[3].type # "newline"
      <4>1. w[1 + 1].type = "newline" <=> w[1].type # "newline"
        BY <3>1, <2>1 DEF Alternates
      <4>2. w[2 + 1].type = "newline" <=> w[2].type # "newline"
        BY <3>1, <2>1 DEF Alternates
      <4> QED  BY <3>1, <4>1, <4>2
    <3> QED  BY <3>1, <3>2
  <2>4. ASSUME NEW i \in 1 .. Len(v) - 1
        PROVE  /\ v[i + 1].type = "newline" <=> v[i].type # "newline"
               /\ v[i].type = "done" => i + 1 = Len(v)
    <3>1. i + 2 \in 1 .. Len(w) - 1 /\ v[i] = w[i + 2] /\ v[i + 1] = w[(i + 2) + 1]
      BY <2>1
    <3>2. /\ w[(i + 2) + 1].type = "newline" <=> w[i + 2].type # "newline"
          /\ w[i + 2].type = "done" => (i + 2) + 1 = Len(w)
      BY <3>1 DEF Alternates
    <3> QED  BY <2>1, <3>1, <3>2
  <2> QED  BY <2>3, <2>4 DEF Alternates, v
<1> QED  BY <1>1, <1>2

-------------------------------------------------------------------------------
(* Reading the lines *)

Buffers == {<<>>} \cup {<<line>> : line \in {l \in Line : l.type # "newline"}}
Reader == [buffer : Buffers, messages : Seq(Seq(Symbol)), toolCall : Seq(Symbol),
           native : Seq(Seq(Symbol)), handled : Nat, cut : BOOLEAN, done : BOOLEAN]

\* Reads: r2, with w2 to read, has handed on what r, with w to read, had not.
Unread(r, w) == r.buffer \o w
TextOf(r, w) == FlattenSeq(r.messages) \o Carried("text", Unread(r, w))
ToolOf(r, w) == r.toolCall \o Carried("tool", Unread(r, w))
Readable(r, w) == Alternates(Unread(r, w)) /\ (r.done => Unread(r, w) = <<>>)
Ongoing(r, w) == ~r.done /\ Whole(Unread(r, w)) /\ NotDone(Unread(r, w))
Reads(r, w, r2, w2) ==
  /\ r2 \in Reader /\ r2.native = r.native /\ r2.handled = r.handled /\ r2.cut = r.cut
  /\ TextOf(r2, w2) = TextOf(r, w) /\ ToolOf(r2, w2) = ToolOf(r, w)
  /\ Readable(r2, w2) /\ (Ongoing(r, w) => Ongoing(r2, w2))

\* The buffer of the reader is at most one line.
LEMMA BufferType == \A b \in Buffers : b \in Seq(Line) /\ Len(b) <= 1
<1> SUFFICES ASSUME NEW b \in Buffers PROVE b \in Seq(Line) /\ Len(b) <= 1
  OBVIOUS
<1>1. CASE b = <<>>
  BY <1>1
<1>2. CASE b # <<>>
  <2>1. PICK line \in Line : b = <<line>>
    BY <1>2 DEF Buffers
  <2> QED  BY <2>1
<1> QED  BY <1>1, <1>2

\* What is buffered and what is in the network are lines.
LEMMA UnreadType ==
  ASSUME NEW r \in Reader, NEW w \in Seq(Line)
  PROVE  Unread(r, w) \in Seq(Line)
<1>1. r.buffer \in Seq(Line)
  BY BufferType DEF Reader
<1> QED  BY <1>1 DEF Unread

\* A line is handed on whole: its text, or the part of a tool call.
LEMMA HandleLine ==
  ASSUME NEW r \in Reader, NEW line \in Line, line.type # "newline"
  PROVE  LET r2 == handleLine([r EXCEPT !.buffer = <<>>], line)
         IN  /\ r2 \in Reader /\ r2.buffer = <<>>
             /\ r2.native = r.native /\ r2.handled = r.handled /\ r2.cut = r.cut
             /\ FlattenSeq(r2.messages) = FlattenSeq(r.messages) \o CarriedBy("text", line)
             /\ r2.toolCall = r.toolCall \o CarriedBy("tool", line)
             /\ r2.done = (r.done \/ line.type = "done")
<1> DEFINE e == [r EXCEPT !.buffer = <<>>]
           r2 == handleLine(e, line)
<1>1. /\ e \in Reader /\ e.buffer = <<>> /\ e.messages = r.messages /\ e.toolCall = r.toolCall
      /\ e.native = r.native /\ e.handled = r.handled /\ e.cut = r.cut /\ e.done = r.done
  <2>1. <<>> \in Buffers
    BY DEF Buffers
  <2> QED  BY <2>1 DEF Reader
<1>2. /\ r.messages \in Seq(Seq(Symbol)) /\ r.toolCall \in Seq(Symbol) /\ line.content \in Seq(Symbol)
      /\ line.type \in {"text", "tool", "done"} /\ r.done \in BOOLEAN
  BY DEF Reader, Line
<1>3. FlattenSeq(r.messages) \o <<>> = FlattenSeq(r.messages) /\ r.toolCall \o <<>> = r.toolCall
  BY <1>2, FlattenType
<1> HIDE DEF e
<1>4. CASE line.type = "text"
  <2>1. r2 = [e EXCEPT !.messages = Append(e.messages, line.content)]
    BY <1>4 DEF handleLine
  <2>2. CarriedBy("text", line) = line.content /\ CarriedBy("tool", line) = <<>>
    BY <1>4 DEF CarriedBy
  <2>3. Append(e.messages, line.content) \in Seq(Seq(Symbol))
    BY <1>1, <1>2
  <2>4. FlattenSeq(Append(e.messages, line.content)) = FlattenSeq(r.messages) \o line.content
    BY <1>1, <1>2, FlattenAppend
  <2>5. /\ r2 \in Reader /\ r2.buffer = <<>> /\ r2.messages = Append(e.messages, line.content)
        /\ r2.toolCall = r.toolCall
        /\ r2.native = r.native /\ r2.handled = r.handled /\ r2.cut = r.cut /\ r2.done = r.done
    BY <1>1, <2>1, <2>3 DEF Reader
  <2> QED  BY <1>2, <1>3, <1>4, <2>2, <2>4, <2>5 DEF e
<1>5. CASE line.type = "tool"
  <2>1. r2 = [e EXCEPT !.toolCall = e.toolCall \o line.content]
    BY <1>5 DEF handleLine
  <2>2. CarriedBy("tool", line) = line.content /\ CarriedBy("text", line) = <<>>
    BY <1>5 DEF CarriedBy
  <2>3. e.toolCall \o line.content \in Seq(Symbol)
    BY <1>1, <1>2
  <2>4. /\ r2 \in Reader /\ r2.buffer = <<>> /\ r2.messages = r.messages
        /\ r2.toolCall = r.toolCall \o line.content
        /\ r2.native = r.native /\ r2.handled = r.handled /\ r2.cut = r.cut /\ r2.done = r.done
    BY <1>1, <2>1, <2>3 DEF Reader
  <2> QED  BY <1>2, <1>3, <1>5, <2>2, <2>4 DEF e
<1>6. CASE line.type = "done"
  <2>1. r2 = [e EXCEPT !.done = TRUE]
    BY <1>6 DEF handleLine
  <2>2. CarriedBy("tool", line) = <<>> /\ CarriedBy("text", line) = <<>>
    BY <1>6 DEF CarriedBy
  <2>3. /\ r2 \in Reader /\ r2.buffer = <<>> /\ r2.messages = r.messages
        /\ r2.toolCall = r.toolCall
        /\ r2.native = r.native /\ r2.handled = r.handled /\ r2.cut = r.cut /\ r2.done = TRUE
    BY <1>1, <2>1 DEF Reader
  <2> QED  BY <1>2, <1>3, <1>6, <2>2, <2>3 DEF e
<1> QED  BY <1>2, <1>4, <1>5, <1>6

\* After the newline of a line.
LEMMA HandleNewline ==
  ASSUME NEW r \in Reader, NEW p \in Line, NEW v \in Seq(Line), Readable(r, <<p>> \o v),
         p.type = "newline"
  PROVE  Reads(r, <<p>> \o v, handlePiece(r, p), v)
<1> DEFINE w == Unread(r, <<p>> \o v)
<1>1. PICK b \in Line : r.buffer = <<b>> /\ b.type # "newline"
  <2>1. r.buffer # <<>>
    <3>1. SUFFICES ASSUME r.buffer = <<>> PROVE FALSE
      OBVIOUS
    <3>2. w = <<p>> \o v /\ w # <<>> /\ w[1] = p
      BY <3>1 DEF Unread
    <3> HIDE DEF w
    <3> QED  BY <3>2 DEF Readable, Alternates, w
  <2> QED  BY <2>1 DEF Reader, Buffers
<1>2. /\ w = <<b>> \o (<<p>> \o v) /\ w = <<b, p>> \o v /\ w # <<>> /\ w \in Seq(Line)
      /\ Len(w) = Len(v) + 2 /\ SubSeq(w, 3, Len(w)) = v /\ w[1] = b
      /\ w[Len(w)] = IF v = <<>> THEN p ELSE v[Len(v)]
  BY <1>1 DEF Unread
<1>3. ~r.done /\ Alternates(w)
  BY <1>2 DEF Readable, w
<1> DEFINE r2 == handleLine([r EXCEPT !.buffer = <<>>], b)
<1>4. handlePiece(r, p) = r2
  BY <1>1 DEF handlePiece
<1>5. /\ r2 \in Reader /\ r2.buffer = <<>>
      /\ r2.native = r.native /\ r2.handled = r.handled /\ r2.cut = r.cut
      /\ FlattenSeq(r2.messages) = FlattenSeq(r.messages) \o CarriedBy("text", b)
      /\ r2.toolCall = r.toolCall \o CarriedBy("tool", b)
      /\ r2.done = (r.done \/ b.type = "done")
  BY <1>1, HandleLine
<1> HIDE DEF r2, w
<1>6. ASSUME NEW type \in {"text", "tool"}
      PROVE  Carried(type, w) = CarriedBy(type, b) \o Carried(type, v)
  <2>1. <<b>> \in Seq(Line) /\ <<p>> \in Seq(Line) /\ <<p>> \o v \in Seq(Line)
    OBVIOUS
  <2>2. Carried(type, w) = Carried(type, <<b>>) \o (Carried(type, <<p>>) \o Carried(type, v))
    <3>1. Carried(type, <<p>> \o v) = Carried(type, <<p>>) \o Carried(type, v)
      BY <2>1, CarriedConcat
    <3>2. PICK x \in Seq(Line), y \in Seq(Line) : x = <<b>> /\ y = <<p>> \o v
      BY <2>1
    <3>3. Carried(type, x \o y) = Carried(type, x) \o Carried(type, y)
      BY CarriedConcat
    <3> QED  BY <1>2, <3>1, <3>2, <3>3
  <2>3. Carried(type, <<p>>) = <<>> /\ Carried(type, <<b>>) = CarriedBy(type, b)
    <3>1. CarriedBy(type, p) = <<>>
      BY <1>6 DEF CarriedBy
    <3> QED  BY <3>1, CarriedOne
  <2>4. <<>> \o Carried(type, v) = Carried(type, v)
    BY CarriedType
  <2> QED  BY <2>2, <2>3, <2>4
<1>7. Unread(r2, v) = v
  BY <1>5 DEF Unread
<1>8. TextOf(r2, v) = TextOf(r, <<p>> \o v)
  <2>1. PICK x \in Seq(Symbol), y \in Seq(Symbol), z \in Seq(Symbol) :
          x = FlattenSeq(r.messages) /\ y = CarriedBy("text", b) /\ z = Carried("text", v)
    <3>1. FlattenSeq(r.messages) \in Seq(Symbol)
      BY FlattenType DEF Reader
    <3> QED  BY <3>1, CarriedByType, CarriedType
  <2>2. (x \o y) \o z = x \o (y \o z)
    OBVIOUS
  <2> QED  BY <1>5, <1>6, <1>7, <2>1, <2>2 DEF TextOf, w
<1>9. ToolOf(r2, v) = ToolOf(r, <<p>> \o v)
  <2>1. PICK x \in Seq(Symbol), y \in Seq(Symbol), z \in Seq(Symbol) :
          x = r.toolCall /\ y = CarriedBy("tool", b) /\ z = Carried("tool", v)
    BY CarriedByType, CarriedType DEF Reader
  <2>2. (x \o y) \o z = x \o (y \o z)
    OBVIOUS
  <2> QED  BY <1>5, <1>6, <1>7, <2>1, <2>2 DEF ToolOf, w
<1>10. Alternates(v)
  <2>1. Len(w) >= 2
    BY <1>2
  <2> QED  BY <1>2, <1>3, <2>1, AlternatesLess
<1>11. r2.done => v = <<>>
  <2>1. SUFFICES ASSUME b.type = "done" PROVE v = <<>>
    BY <1>3, <1>5
  <2>2. 1 \in 1 .. Len(w) - 1
    BY <1>2
  <2>3. 1 + 1 = Len(w)
    BY <1>2, <1>3, <2>1, <2>2 DEF Alternates
  <2>4. Len(v) = 0
    BY <1>2, <2>3
  <2> QED  BY <2>4
<1>12. Whole(w) => Whole(v)
  BY <1>2 DEF Whole
<1>13. NotDone(w) => NotDone(v) /\ ~r2.done
  <2>1. \A i \in 1 .. Len(v) : i + 2 \in 1 .. Len(w) /\ v[i] = w[i + 2]
    <3>1. w = <<b, p>> \o v /\ Len(w) = Len(v) + 2
      BY <1>2
    <3> QED  BY <3>1
  <2>2. 1 \in 1 .. Len(w)
    BY <1>2
  <2> QED  BY <1>2, <1>3, <1>5, <2>1, <2>2 DEF NotDone
<1> QED  BY <1>4, <1>5, <1>7, <1>8, <1>9, <1>10, <1>11, <1>12, <1>13 DEF Reads, Readable, Ongoing, w

\* A piece of a line, or the newline after it, is read.
LEMMA HandlePiece ==
  ASSUME NEW r \in Reader, NEW p \in Line, NEW v \in Seq(Line), Readable(r, <<p>> \o v)
  PROVE  Reads(r, <<p>> \o v, handlePiece(r, p), v)
<1>1. CASE p.type = "newline"
  BY <1>1, HandleNewline
<1>2. CASE p.type # "newline"
  <2> DEFINE w == Unread(r, <<p>> \o v)
             r2 == handlePiece(r, p)
  <2>1. r2 = [r EXCEPT !.buffer = <<p>>]
    BY <1>2 DEF handlePiece
  <2>2. r.buffer = <<>>
    <3>1. SUFFICES ASSUME r.buffer # <<>> PROVE FALSE
      OBVIOUS
    <3>2. PICK b \in Line : r.buffer = <<b>> /\ b.type # "newline"
      BY <3>1 DEF Reader, Buffers
    <3>3. w = <<b>> \o (<<p>> \o v) /\ w[1] = b /\ w[1 + 1] = p /\ 1 \in 1 .. Len(w) - 1
      BY <3>2 DEF Unread
    <3> HIDE DEF w
    <3> QED  BY <1>2, <3>2, <3>3 DEF Readable, Alternates, w
  <2>3. w = <<p>> \o v /\ w # <<>>
    BY <2>2 DEF Unread
  <2>4. ~r.done
    BY <2>3 DEF Readable
  <2>5. /\ r2 \in Reader /\ r2.buffer = <<p>> /\ r2.messages = r.messages /\ r2.toolCall = r.toolCall
        /\ r2.native = r.native /\ r2.handled = r.handled /\ r2.cut = r.cut /\ r2.done = r.done
    <3>1. <<p>> \in Buffers
      BY <1>2 DEF Buffers
    <3> QED  BY <2>1, <3>1 DEF Reader
  <2> HIDE DEF r2, w
  <2>6. Unread(r2, v) = w
    BY <2>3, <2>5 DEF Unread
  <2> QED  BY <2>4, <2>5, <2>6 DEF Reads, Readable, Ongoing, TextOf, ToolOf, w, r2
<1> QED  BY <1>1, <1>2

\* Reading nothing changes nothing.
LEMMA ReadsSelf ==
  ASSUME NEW r \in Reader, NEW w, Readable(r, w)
  PROVE  Reads(r, w, r, w)
BY DEF Reads

\* Two pieces are read one after the other.
LEMMA ReadsOn ==
  ASSUME NEW r, NEW w, NEW r1, NEW w1, NEW r2, NEW w2, Reads(r, w, r1, w1), Reads(r1, w1, r2, w2)
  PROVE  Reads(r, w, r2, w2)
BY DEF Reads

\* A part of the lines in the network are lines.
LEMMA PieceType ==
  ASSUME NEW r \in Reader, NEW p \in Line
  PROVE  handlePiece(r, p) \in Reader
<1>1. CASE p.type # "newline"
  <2>1. <<p>> \in Buffers
    BY <1>1 DEF Buffers
  <2> QED  BY <1>1, <2>1 DEF handlePiece, Reader
<1>2. CASE p.type = "newline" /\ r.buffer = <<>>
  BY <1>2 DEF handlePiece
<1>3. CASE p.type = "newline" /\ r.buffer # <<>>
  <2>1. PICK b \in Line : r.buffer = <<b>> /\ b.type # "newline"
    BY <1>3 DEF Reader, Buffers
  <2>2. handlePiece(r, p) = handleLine([r EXCEPT !.buffer = <<>>], b)
    BY <1>3, <2>1 DEF handlePiece
  <2> QED  BY <2>1, <2>2, HandleLine
<1> QED  BY <1>1, <1>2, <1>3

\* processChunk() handles one piece after the other.
LEMMA PiecesInOrder ==
  ASSUME NEW r \in Reader, NEW chunk \in Seq(Line)
  PROVE  \E f : /\ f[0] = r /\ processChunk(r, chunk) = f[Len(chunk)]
                /\ \A n \in 1 .. Len(chunk) : f[n] = handlePiece(f[n - 1], chunk[n])
<1> DEFINE m == Len(chunk)
           Equation(f) == f = [n \in 0 .. m |-> IF n = 0 THEN r ELSE handlePiece(f[n - 1], chunk[n])]
           G == [s \in Reader \X (1 .. m) |-> handlePiece(s[1], chunk[s[2]])]
           g == CHOOSE f : Equation(f)
<1>1. m \in Nat /\ \A n \in 1 .. m : chunk[n] \in Line
  OBVIOUS
<1> HIDE DEF m
<1>2. G \in [Reader \X (1 .. m) -> Reader]
  BY <1>1, PieceType
<1>3. \A s \in Reader, n \in 1 .. m : G[<<s, n>>] = handlePiece(s, chunk[n])
  OBVIOUS
<1> HIDE DEF G
<1>4. PICK f \in [0 .. m -> Reader] : Recurs(f, r, G, m)
  BY <1>1, <1>2, Recursion
<1>5. f[0] = r /\ \A n \in 1 .. m : f[n] = handlePiece(f[n - 1], chunk[n])
  <2>1. ASSUME NEW n \in 1 .. m PROVE f[n] = handlePiece(f[n - 1], chunk[n])
    <3>1. f[n] = G[<<f[n - 1], n>>]
      BY <1>4 DEF Recurs
    <3>2. f[n - 1] \in Reader
      BY <1>1
    <3> QED  BY <1>3, <3>1, <3>2
  <2> QED  BY <1>4, <2>1 DEF Recurs
<1>6. Equation(f)
  <2>1. f = [n \in 0 .. m |-> f[n]]
    OBVIOUS
  <2>2. \A n \in 0 .. m : f[n] = IF n = 0 THEN r ELSE handlePiece(f[n - 1], chunk[n])
    BY <1>1, <1>5
  <2> QED  BY <2>1, <2>2, Zenon
<1>7. Equation(g)
  BY <1>6
<1>8. g[0] = r /\ \A n \in 1 .. m : g[n] = handlePiece(g[n - 1], chunk[n])
  <2>1. \A n \in 0 .. m : g[n] = IF n = 0 THEN r ELSE handlePiece(g[n - 1], chunk[n])
    BY <1>7
  <2> HIDE DEF g
  <2> QED  BY <1>1, <2>1
<1>9. processChunk(r, chunk) = g[m]
  BY DEF processChunk, m
<1> HIDE DEF g
<1> QED  BY <1>8, <1>9 DEF m

\* Any number of pieces is read.
LEMMA ReadPieces ==
  ASSUME NEW r \in Reader, NEW w \in Seq(Line), NEW k \in 0 .. Len(w), Readable(r, w)
  PROVE  Reads(r, w, processChunk(r, SubSeq(w, 1, k)), SubSeq(w, k + 1, Len(w)))
<1> DEFINE chunk == SubSeq(w, 1, k)
           Rest(n) == SubSeq(w, n + 1, Len(w))
           D == [n \in 0 .. k |-> {s \in Reader : Reads(r, w, s, Rest(n))}]
<1>1. /\ chunk \in Seq(Line) /\ Len(chunk) = k /\ k \in Nat /\ Rest(0) = w
      /\ \A n \in 1 .. k : chunk[n] = w[n] /\ w[n] \in Line
  OBVIOUS
<1>2. ASSUME NEW n \in 1 .. k PROVE Rest(n) \in Seq(Line) /\ Rest(n - 1) = <<w[n]>> \o Rest(n)
  OBVIOUS
<1> HIDE DEF chunk, Rest
<1>3. PICK f : /\ f[0] = r /\ processChunk(r, chunk) = f[Len(chunk)]
               /\ \A n \in 1 .. Len(chunk) : f[n] = handlePiece(f[n - 1], chunk[n])
  BY <1>1, PiecesInOrder
<1>4. f[0] \in D[0]
  BY <1>1, <1>3, ReadsSelf
<1>5. ASSUME NEW n \in 1 .. k, f[n - 1] \in D[n - 1] PROVE f[n] \in D[n]
  <2>1. n - 1 \in 0 .. k /\ f[n - 1] \in Reader /\ Reads(r, w, f[n - 1], Rest(n - 1))
    BY <1>1, <1>5
  <2>2. f[n] = handlePiece(f[n - 1], w[n])
    BY <1>1, <1>3
  <2>3. Readable(f[n - 1], <<w[n]>> \o Rest(n))
    BY <1>2, <2>1 DEF Reads
  <2>4. Reads(f[n - 1], Rest(n - 1), f[n], Rest(n))
    BY <1>1, <1>2, <2>1, <2>2, <2>3, HandlePiece
  <2>5. Reads(r, w, f[n], Rest(n))
    BY <2>1, <2>4, ReadsOn
  <2>6. f[n] \in Reader
    BY <2>5 DEF Reads
  <2> QED  BY <1>1, <2>5, <2>6
<1>6. f[k] \in D[k]
  <2>1. \A n \in 1 .. k : f[n - 1] \in D[n - 1] => f[n] \in D[n]
    BY <1>5
  <2> HIDE DEF D
  <2>2. k \in Nat
    BY <1>1
  <2>3. \A n \in 0 .. k : f[n] \in D[n]
    BY ONLY <1>4, <2>1, <2>2, Stays
  <2> QED  BY <2>2, <2>3
<1>7. Reads(r, w, f[k], Rest(k))
  BY <1>1, <1>6
<1> QED  BY <1>1, <1>3, <1>7 DEF chunk, Rest

-------------------------------------------------------------------------------
(* What is on its way to the detectors *)

\* Continues: the first n characters of s are the first h, and y after them.
Continues(s, n, h, y) == SubSeq(s, 1, n) = SubSeq(s, 1, h) \o y

\* What is handed on is a longer beginning of the answer.
LEMMA CutPrefix ==
  ASSUME NEW s \in Seq(Symbol), NEW x \in Seq(Symbol), NEW y \in Seq(Symbol),
         NEW n \in Nat, NEW h \in Nat, n <= Len(s), h <= Len(s), Continues(s, n, h, x \o y)
  PROVE  /\ h + Len(x) \in 0 .. n
         /\ Continues(s, n, h + Len(x), y) /\ Continues(s, h + Len(x), h, x)
<1>1. SubSeq(s, 1, n) \in Seq(Symbol)
  OBVIOUS
<1> DEFINE p == SubSeq(s, 1, n)
           q == SubSeq(s, 1, h)
           z == x \o y
           m == h + Len(x)
           u == SubSeq(s, 1, m)
<1>2. /\ p \in Seq(Symbol) /\ Len(p) = n /\ (\A i \in 1 .. n : p[i] = s[i])
      /\ q \in Seq(Symbol) /\ Len(q) = h /\ (\A i \in 1 .. h : q[i] = s[i])
      /\ Len(x) \in Nat /\ Len(y) \in Nat /\ n \in Nat /\ h \in Nat /\ Len(s) \in Nat
  OBVIOUS
<1>3. /\ z \in Seq(Symbol) /\ Len(z) = Len(x) + Len(y)
      /\ \A i \in 1 .. Len(x) + Len(y) : z[i] = IF i <= Len(x) THEN x[i] ELSE y[i - Len(x)]
  BY ConcatParts
<1> HIDE DEF p, q, z, m, u
<1>4. /\ q \o z \in Seq(Symbol) /\ Len(q \o z) = Len(q) + Len(z)
      /\ \A i \in 1 .. Len(q) + Len(z) : (q \o z)[i] = IF i <= Len(q) THEN q[i] ELSE z[i - Len(q)]
  <2>1. q \in Seq(Symbol) /\ z \in Seq(Symbol)
    BY <1>2, <1>3
  <2> QED  BY ONLY <2>1, ConcatParts
<1>5. p = q \o z
  BY DEF p, q, z, Continues
<1>6. n = h + Len(x) + Len(y)
  BY <1>2, <1>3, <1>4, <1>5
<1>7. m \in 0 .. n /\ m \in 0 .. Len(s)
  BY <1>2, <1>6 DEF m
<1>8. u \in Seq(Symbol) /\ Len(u) = m /\ (\A i \in 1 .. m : u[i] = s[i])
  BY <1>7 DEF u
<1>9. /\ q \o x \in Seq(Symbol) /\ Len(q \o x) = Len(q) + Len(x)
      /\ \A i \in 1 .. Len(q) + Len(x) : (q \o x)[i] = IF i <= Len(q) THEN q[i] ELSE x[i - Len(q)]
  BY <1>2, ConcatParts
<1>10. ASSUME NEW i \in 1 .. m PROVE u[i] = (q \o x)[i]
  <2>1. i \in 1 .. h + Len(x)
    BY DEF m
  <2>2. u[i] = (q \o z)[i]
    <3>1. u[i] = s[i]
      BY <1>8
    <3>2. p[i] = s[i]
      BY <1>2, <1>7
    <3> QED  BY <1>5, <3>1, <3>2
  <2>3. CASE i <= h
    BY <1>2, <1>3, <1>4, <1>9, <2>1, <2>2, <2>3
  <2>4. CASE ~(i <= h)
    <3>1. i - h \in 1 .. Len(x) /\ i - h <= Len(x) + Len(y)
      BY <1>2, <2>1, <2>4
    <3>2. (q \o z)[i] = z[i - h] /\ z[i - h] = x[i - h] /\ (q \o x)[i] = x[i - h]
      BY <1>2, <1>3, <1>4, <1>9, <2>1, <2>4, <3>1, SMTT(40)
    <3> QED  BY <2>2, <3>2
  <2> QED  BY <2>3, <2>4
<1>11. u = q \o x
  BY <1>2, <1>8, <1>9, <1>10, SameSequence DEF m
<1>12. (q \o x) \o y = q \o (x \o y)
  <2>1. q \in Seq(Symbol) /\ x \in Seq(Symbol) /\ y \in Seq(Symbol)
    BY <1>2
  <2> QED  BY ONLY <2>1, ConcatThree
<1> QED  BY <1>5, <1>7, <1>11, <1>12 DEF p, q, z, u, m, Continues

\* All messages have been handed on.
LEMMA DeliveredAll ==
  ASSUME NEW r \in Reader
  PROVE  /\ Delivered(r) \in Reader /\ Delivered(r).messages = <<>>
         /\ Delivered(r).handled = r.handled + Len(FlattenSeq(r.messages))
         /\ Delivered(r).buffer = r.buffer /\ Delivered(r).toolCall = r.toolCall
         /\ Delivered(r).native = r.native /\ Delivered(r).done = r.done
<1> DEFINE From_(i) == r.handled + Len(FlattenSeq(SubSeq(r.messages, 1, i - 1))) + 1
           missed == \E i \in DOMAIN r.messages : CutsFence(From_(i), From_(i + 1) - 1)
<1>1. Delivered(r) = [r EXCEPT !.messages = <<>>, !.handled = From_(Len(r.messages) + 1) - 1,
                               !.cut = @ \/ missed]
  BY DEF Delivered
<1>2. /\ r.messages \in Seq(Seq(Symbol)) /\ r.handled \in Nat /\ r.cut \in BOOLEAN
      /\ <<>> \in Seq(Seq(Symbol))
  BY DEF Reader
<1>3. SubSeq(r.messages, 1, (Len(r.messages) + 1) - 1) = r.messages
  <2>1. PICK m \in Seq(Seq(Symbol)) : m = r.messages
    BY <1>2
  <2>2. SubSeq(m, 1, (Len(m) + 1) - 1) = m
    OBVIOUS
  <2> QED  BY <2>1, <2>2
<1>4. Len(FlattenSeq(r.messages)) \in Nat
  <2>1. FlattenSeq(r.messages) \in Seq(Symbol)
    BY <1>2, FlattenType
  <2> QED  BY <2>1
<1>5. From_(Len(r.messages) + 1) - 1 = r.handled + Len(FlattenSeq(r.messages))
  <2>1. From_(Len(r.messages) + 1) = r.handled + Len(FlattenSeq(r.messages)) + 1
    BY <1>3
  <2> HIDE DEF From_
  <2>2. PICK k \in Nat : k = Len(FlattenSeq(r.messages))
    BY <1>4
  <2> QED  BY <1>2, <2>1, <2>2
<1>6. (r.cut \/ missed) \in BOOLEAN
  BY <1>2
<1>7. PICK n \in Nat, b \in BOOLEAN :
        n = r.handled + Len(FlattenSeq(r.messages)) /\ b = (r.cut \/ missed)
  <2> HIDE DEF missed
  <2>1. r.handled + Len(FlattenSeq(r.messages)) \in Nat
    <3>1. \A i, j \in Nat : i + j \in Nat
      OBVIOUS
    <3> QED  BY <1>2, <1>4, <3>1
  <2> QED  BY <1>6, <2>1, Zenon
<1>8. Delivered(r) = [r EXCEPT !.messages = <<>>, !.handled = n, !.cut = b]
  BY <1>1, <1>5, <1>7
<1> HIDE DEF From_, missed
<1> QED  BY <1>2, <1>7, <1>8 DEF Reader

\* Texts after one another.
LEMMA Symbols ==
  \A a, b, c \in Seq(Symbol) :
    (a \o b) \o c = a \o (b \o c) /\ a \o b \in Seq(Symbol) /\ a \o <<>> = a /\ <<>> \o a = a
OBVIOUS

\* Streaming: what was sent of the answer is what was handed on, and what is still to read.
AnswerOK ==
  /\ answer = [text |-> answer.text, holds |-> answer.holds, sent |-> answer.sent,
               tools |-> answer.tools, toolsSent |-> answer.toolsSent, closed |-> answer.closed]
  /\ answer.text \in Seq(Symbol) /\ answer.sent \in 0 .. Len(answer.text)
  /\ answer.tools \in Seq(Symbol) /\ answer.toolsSent \in 0 .. Len(answer.tools)
  /\ answer.closed \in BOOLEAN
Streaming ==
  /\ Readable(reader, wire) /\ reader.native = <<>>
  /\ ~answer.closed => Ongoing(reader, wire)
  /\ answer.closed => answer.sent = Len(answer.text) /\ answer.toolsSent = Len(answer.tools)
  /\ SubSeq(answer.text, 1, answer.sent) = Handled \o Carried("text", Unread(reader, wire))
  /\ SubSeq(answer.tools, 1, answer.toolsSent) = ToolOf(reader, wire)
StreamOK ==
  /\ AnswerOK /\ wire \in Seq(Line)
  /\ reader \in Reader /\ reader.messages = <<>> /\ reader.handled \in 0 .. Len(answer.text)
  /\ program \in {"server", "cli"} /\ CliFields(cli)
  /\ program = "cli" => answer.tools = <<>> /\ ~Finished
  /\ program = "server" => cli.phase \in {"streaming", "ended"}
  /\ cli.phase = "streaming" => Streaming
  /\ NativeCallWhole

\* The answers and the tool calls are texts.
LEMMA TextsType ==
  /\ \A a \in ServerAnswers \cup CliAnswers : a.text \in Seq(Symbol)
  /\ ToolParts \in Seq(Symbol)
<1>1. \A A, B : A \subseteq B => Seq(A) \subseteq Seq(B)
  OBVIOUS
<1>2. ASSUME NEW a \in ServerAnswers \cup CliAnswers PROVE a.text \in Seq(Symbol)
  <2>1. Range(a.text) \subseteq Symbol
    BY DEF Symbol
  <2>2. a.text \in Seq(Range(a.text))
    BY AnswersAreText
  <2> QED  BY <1>1, <2>1, <2>2
<1>3. ToolParts \in Seq(Symbol)
  <2>1. Range(ToolParts) \subseteq Symbol
    BY DEF Symbol
  <2>2. ToolParts \in Seq(Range(ToolParts))
    BY AnswersAreText
  <2> QED  BY <1>1, <2>1, <2>2
<1> QED  BY <1>2, <1>3

\* A stream at its beginning.
Begun(text, parts, holds) ==
  /\ answer = NewAnswer([text |-> text, holds |-> holds], parts)
  /\ wire = <<>> /\ reader = NewReader
BegunOK ==
  /\ AnswerOK /\ wire \in Seq(Line) /\ reader \in Reader /\ reader.messages = <<>>
  /\ reader.handled \in 0 .. Len(answer.text) /\ Streaming

\* A new stream has sent nothing and handed nothing on.
LEMMA StreamBegins ==
  \A text, parts \in Seq(Symbol) : \A holds : Begun(text, parts, holds) => BegunOK
<1> SUFFICES ASSUME NEW text \in Seq(Symbol), NEW parts \in Seq(Symbol), NEW holds,
                    Begun(text, parts, holds)
             PROVE  BegunOK
  OBVIOUS
<1>1. /\ answer = NewAnswer([text |-> text, holds |-> holds], parts)
      /\ wire = <<>> /\ reader = NewReader
  BY DEF Begun
<1>2. /\ answer.text = text /\ answer.tools = parts /\ answer.sent = 0 /\ answer.toolsSent = 0
      /\ answer.closed = FALSE /\ AnswerOK
  BY <1>1 DEF NewAnswer, AnswerOK
<1>3. /\ reader \in Reader /\ reader.buffer = <<>> /\ reader.messages = <<>> /\ reader.done = FALSE
      /\ reader.toolCall = <<>> /\ reader.native = <<>> /\ reader.handled = 0
  BY <1>1 DEF NewReader, Reader, Buffers
<1>4. Unread(reader, wire) = <<>> /\ wire \in Seq(Line)
  BY <1>1, <1>3 DEF Unread
<1>5. Alternates(<<>>) /\ Whole(<<>>) /\ NotDone(<<>>)
  BY DEF Alternates, Whole, NotDone
<1>6. SubSeq(text, 1, 0) = <<>> /\ SubSeq(parts, 1, 0) = <<>> /\ Len(text) \in Nat
  OBVIOUS
<1>7. Handled = <<>>
  BY <1>2, <1>3, <1>6 DEF Handled
<1>8. <<>> \o <<>> = <<>>
  OBVIOUS
<1>9. Streaming
  BY <1>2, <1>3, <1>4, <1>5, <1>6, <1>7, <1>8, CarriedNothing
     DEF Streaming, Readable, Ongoing, ToolOf
<1> QED  BY <1>2, <1>3, <1>4, <1>6, <1>9 DEF BegunOK

\* The steps of Lumo and of the network.
LEMMA UnreadMore ==
  ASSUME NEW x \in Seq(Line), reader \in Reader, wire \in Seq(Line),
         NEW type
  PROVE  /\ Unread(reader, wire \o x) = Unread(reader, wire) \o x
         /\ Carried(type, Unread(reader, wire \o x))
              = Carried(type, Unread(reader, wire)) \o Carried(type, x)
<1>1. PICK b \in Seq(Line), w \in Seq(Line) : b = reader.buffer /\ w = wire
  BY BufferType DEF Reader
<1>2. (b \o w) \o x = b \o (w \o x) /\ b \o w \in Seq(Line)
  OBVIOUS
<1>3. Carried(type, (b \o w) \o x) = Carried(type, b \o w) \o Carried(type, x)
  BY <1>2, CarriedConcat
<1> QED  BY <1>1, <1>2, <1>3 DEF Unread

\* A line that is sent is read after all others.
LEMMA LineOnWire ==
  ASSUME AnswerOK, wire \in Seq(Line), reader \in Reader, Streaming, ~answer.closed,
         NEW line \in Line, line.type # "newline"
  PROVE  /\ <<line, Newline>> \in Seq(Line) /\ <<line>> \in Seq(Line)
         /\ Alternates(Unread(reader, wire \o <<line, Newline>>))
         /\ Whole(Unread(reader, wire \o <<line, Newline>>))
         /\ Alternates(Unread(reader, wire \o <<line>>))
         /\ \A type \in {"text", "tool"} :
              /\ Carried(type, Unread(reader, wire \o <<line, Newline>>))
                   = Carried(type, Unread(reader, wire)) \o CarriedBy(type, line)
              /\ Carried(type, Unread(reader, wire \o <<line>>))
                   = Carried(type, Unread(reader, wire)) \o CarriedBy(type, line)
         /\ line.type # "done" => NotDone(Unread(reader, wire \o <<line, Newline>>))
<1> DEFINE W == Unread(reader, wire)
<1>1. W \in Seq(Line) /\ Alternates(W) /\ Whole(W) /\ NotDone(W)
  BY UnreadType DEF Streaming, Readable, Ongoing
<1>2. Newline \in Line
  BY DEF Newline, Line
<1>3. <<line, Newline>> \in Seq(Line) /\ <<line>> \in Seq(Line) /\ <<Newline>> \in Seq(Line)
  BY <1>2
<1>4. /\ Unread(reader, wire \o <<line, Newline>>) = W \o <<line, Newline>>
      /\ Unread(reader, wire \o <<line>>) = W \o <<line>>
  BY <1>3, UnreadMore
<1> HIDE DEF W
<1>5. /\ Alternates(W \o <<line, Newline>>) /\ Whole(W \o <<line, Newline>>)
      /\ Alternates(W \o <<line>>)
  BY <1>1, AlternatesMore
<1>6. ASSUME NEW type \in {"text", "tool"}
      PROVE  /\ Carried(type, W \o <<line, Newline>>) = Carried(type, W) \o CarriedBy(type, line)
             /\ Carried(type, W \o <<line>>) = Carried(type, W) \o CarriedBy(type, line)
  <2>1. Carried(type, <<line>>) = CarriedBy(type, line) /\ CarriedBy(type, line) \in Seq(Symbol)
    BY CarriedOne, CarriedByType
  <2>2. CarriedBy(type, Newline) = <<>> /\ Carried(type, <<Newline>>) = CarriedBy(type, Newline)
    BY <1>2, <1>6, CarriedOne DEF CarriedBy, Newline
  <2>3. Carried(type, <<line, Newline>>) = CarriedBy(type, line)
    <3>1. <<line, Newline>> = <<line>> \o <<Newline>>
      BY <1>3
    <3>2. Carried(type, <<line>> \o <<Newline>>) = Carried(type, <<line>>) \o Carried(type, <<Newline>>)
      BY <1>3, CarriedConcat
    <3>3. CarriedBy(type, line) \o <<>> = CarriedBy(type, line)
      BY <2>1
    <3> QED  BY <2>1, <2>2, <3>1, <3>2, <3>3
  <2>4. /\ Carried(type, W \o <<line, Newline>>) = Carried(type, W) \o Carried(type, <<line, Newline>>)
        /\ Carried(type, W \o <<line>>) = Carried(type, W) \o Carried(type, <<line>>)
    BY <1>1, <1>3, CarriedConcat
  <2> QED  BY <2>1, <2>3, <2>4
<1>7. ASSUME line.type # "done" PROVE NotDone(W \o <<line, Newline>>)
  <2>1. /\ Len(W \o <<line, Newline>>) = Len(W) + 2 /\ Len(W) \in Nat
        /\ \A i \in 1 .. Len(W) : (W \o <<line, Newline>>)[i] = W[i]
        /\ (W \o <<line, Newline>>)[Len(W) + 1] = line
        /\ (W \o <<line, Newline>>)[Len(W) + 2] = Newline
    BY <1>1
  <2>2. Newline.type # "done"
    BY DEF Newline
  <2> DEFINE v == W \o <<line, Newline>>
  <2> HIDE DEF v
  <2> QED  BY <1>1, <1>7, <2>1, <2>2 DEF NotDone, v
<1> QED  BY <1>3, <1>4, <1>5, <1>6, <1>7 DEF W

\* A delta of text is sent.
LEMMA SendTextStep == ASSUME StreamOK, NEW n \in Nat, n > 0, SendText(n) PROVE StreamOK'
<1> DEFINE x == SubSeq(answer.text, answer.sent + 1, answer.sent + n)
           line == Text(x)
           W == Unread(reader, wire)
<1>1. /\ AnswerOK /\ wire \in Seq(Line) /\ reader \in Reader /\ Streaming /\ ~answer.closed
      /\ cli.phase = "streaming" /\ ~Finished
  BY DEF StreamOK, SendText, Open, Finished
<1>2. /\ answer' = [answer EXCEPT !.sent = answer.sent + n]
      /\ answer.sent + n <= Len(answer.text)
      /\ wire' = wire \o <<line, Newline>> /\ UNCHANGED <<program, reader, detector, cli>>
  BY DEF SendText
<1>3. /\ answer.text \in Seq(Symbol) /\ answer.sent \in Nat /\ Len(answer.text) \in Nat
      /\ answer.sent <= Len(answer.text)
  BY <1>1 DEF AnswerOK
<1>4. /\ x \in Seq(Symbol)
      /\ SubSeq(answer.text, 1, answer.sent + n) = SubSeq(answer.text, 1, answer.sent) \o x
  <2>1. PICK s \in Seq(Symbol), i \in Nat : s = answer.text /\ i = answer.sent
    BY <1>3
  <2>2. i + n <= Len(s)
    BY <1>2, <2>1
  <2>3. /\ SubSeq(s, i + 1, i + n) \in Seq(Symbol)
        /\ SubSeq(s, 1, i + n) = SubSeq(s, 1, i) \o SubSeq(s, i + 1, i + n)
    BY <2>2
  <2> QED  BY <2>1, <2>3
<1>5. line \in Line /\ line.type = "text" /\ line.content = x
  BY <1>4 DEF Text, Line
<1> HIDE DEF x, line
<1>6. /\ answer'.sent = answer.sent + n /\ answer'.text = answer.text
      /\ answer'.tools = answer.tools /\ answer'.toolsSent = answer.toolsSent
      /\ answer'.closed = answer.closed /\ AnswerOK'
  <2>1. answer' = [text |-> answer.text, holds |-> answer.holds, sent |-> answer.sent + n,
                   tools |-> answer.tools, toolsSent |-> answer.toolsSent, closed |-> answer.closed]
    BY <1>1, <1>2 DEF AnswerOK
  <2>2. /\ answer.tools \in Seq(Symbol) /\ answer.toolsSent \in 0 .. Len(answer.tools)
        /\ answer.text \in Seq(Symbol) /\ answer.sent \in 0 .. Len(answer.text)
        /\ answer.closed \in BOOLEAN
    BY <1>1 DEF AnswerOK
  <2>3. answer.sent + n \in 0 .. Len(answer.text)
    BY <1>2, <1>3
  <2> QED  BY <2>1, <2>2, <2>3 DEF AnswerOK
<1>7. CarriedBy("text", line) = x /\ CarriedBy("tool", line) = <<>>
  BY <1>5 DEF CarriedBy
<1>8. /\ wire' \in Seq(Line) /\ Alternates(Unread(reader, wire')) /\ Whole(Unread(reader, wire'))
      /\ NotDone(Unread(reader, wire'))
      /\ Carried("text", Unread(reader, wire')) = Carried("text", W) \o x
      /\ Carried("tool", Unread(reader, wire')) = Carried("tool", W) \o <<>>
  <2>1. <<line, Newline>> \in Seq(Line)
    BY <1>1, <1>5, LineOnWire
  <2>2. wire' \in Seq(Line)
    BY <1>1, <1>2, <2>1
  <2> QED  BY <1>1, <1>2, <1>5, <1>7, <2>2, LineOnWire
<1>9. ~reader.done
  BY <1>1 DEF Streaming, Ongoing
<1>10. PICK h \in Seq(Symbol), c \in Seq(Symbol), t \in Seq(Symbol) :
         h = Handled /\ c = Carried("text", W) /\ t = Carried("tool", W)
  <2>1. Handled \in Seq(Symbol)
    BY <1>3, <1>1 DEF Handled, Reader, StreamOK
  <2>2. W \in Seq(Line)
    BY <1>1, UnreadType
  <2> QED  BY <2>1, <2>2, CarriedType
<1>11. (h \o c) \o x = h \o (c \o x) /\ t \o <<>> = t
  <2>1. x \in Seq(Symbol)
    BY <1>4
  <2> QED  BY <2>1, Symbols, SMTT(40)
<1>12. Streaming'
  BY <1>1, <1>2, <1>4, <1>6, <1>8, <1>9, <1>10, <1>11
     DEF Streaming, Readable, Ongoing, ToolOf, Handled, W
<1> QED  BY <1>1, <1>2, <1>6, <1>8, <1>12 DEF StreamOK, NativeCallWhole, Finished, CliFields

\* A delta of a tool call is sent.
LEMMA SendToolStep == ASSUME StreamOK, SendTool PROVE StreamOK'
<1> DEFINE n == answer.toolsSent
           x == <<answer.tools[n + 1]>>
           line == Tool(answer.tools[n + 1])
           W == Unread(reader, wire)
<1>1. /\ AnswerOK /\ wire \in Seq(Line) /\ reader \in Reader /\ Streaming /\ ~answer.closed
      /\ cli.phase = "streaming" /\ ~Finished
  BY DEF StreamOK, SendTool, Open, Finished
<1>2. /\ answer' = [answer EXCEPT !.toolsSent = n + 1] /\ n < Len(answer.tools)
      /\ wire' = wire \o <<line, Newline>> /\ UNCHANGED <<program, reader, detector, cli>>
  BY DEF SendTool
<1>3. /\ answer.tools \in Seq(Symbol) /\ n \in Nat /\ Len(answer.tools) \in Nat
  BY <1>1 DEF AnswerOK
<1>4. /\ x \in Seq(Symbol)
      /\ SubSeq(answer.tools, 1, n + 1) = SubSeq(answer.tools, 1, n) \o x
  <2>1. PICK s \in Seq(Symbol), i \in Nat : s = answer.tools /\ i = n
    BY <1>3
  <2>2. i + 1 <= Len(s)
    BY <1>2, <2>1
  <2>3. <<s[i + 1]>> \in Seq(Symbol) /\ SubSeq(s, 1, i + 1) = SubSeq(s, 1, i) \o <<s[i + 1]>>
    BY <2>2
  <2> QED  BY <2>1, <2>3
<1>5. line \in Line /\ line.type = "tool" /\ line.content = x
  BY <1>4 DEF Tool, Line
<1> HIDE DEF n, x, line
<1>6. /\ answer'.toolsSent = n + 1 /\ answer'.text = answer.text
      /\ answer'.tools = answer.tools /\ answer'.sent = answer.sent
      /\ answer'.closed = answer.closed /\ AnswerOK'
  <2>1. answer' = [text |-> answer.text, holds |-> answer.holds, sent |-> answer.sent,
                   tools |-> answer.tools, toolsSent |-> n + 1, closed |-> answer.closed]
    BY <1>1, <1>2 DEF AnswerOK
  <2>2. /\ answer.tools \in Seq(Symbol) /\ answer.toolsSent \in 0 .. Len(answer.tools)
        /\ answer.text \in Seq(Symbol) /\ answer.sent \in 0 .. Len(answer.text)
        /\ answer.closed \in BOOLEAN
    BY <1>1 DEF AnswerOK
  <2>3. n + 1 \in 0 .. Len(answer.tools)
    BY <1>2, <1>3
  <2> QED  BY <2>1, <2>2, <2>3 DEF AnswerOK
<1>7. CarriedBy("tool", line) = x /\ CarriedBy("text", line) = <<>>
  BY <1>5 DEF CarriedBy
<1>8. /\ wire' \in Seq(Line) /\ Alternates(Unread(reader, wire')) /\ Whole(Unread(reader, wire'))
      /\ NotDone(Unread(reader, wire'))
      /\ Carried("tool", Unread(reader, wire')) = Carried("tool", W) \o x
      /\ Carried("text", Unread(reader, wire')) = Carried("text", W) \o <<>>
  <2>1. <<line, Newline>> \in Seq(Line)
    BY <1>1, <1>5, LineOnWire
  <2>2. wire' \in Seq(Line)
    BY <1>1, <1>2, <2>1
  <2> QED  BY <1>1, <1>2, <1>5, <1>7, <2>2, LineOnWire
<1>9. ~reader.done
  BY <1>1 DEF Streaming, Ongoing
<1>10. PICK h \in Seq(Symbol), c \in Seq(Symbol), t \in Seq(Symbol) :
         h = reader.toolCall /\ c = Carried("text", W) /\ t = Carried("tool", W)
  <2>1. reader.toolCall \in Seq(Symbol)
    BY <1>1 DEF Reader
  <2>2. W \in Seq(Line)
    BY <1>1, UnreadType
  <2> QED  BY <2>1, <2>2, CarriedType
<1>11. (h \o t) \o x = h \o (t \o x) /\ c \o <<>> = c
  <2>1. x \in Seq(Symbol)
    BY <1>4
  <2> QED  BY <2>1, Symbols, SMTT(40)
<1>12. Streaming'
  BY <1>1, <1>2, <1>4, <1>6, <1>8, <1>9, <1>10, <1>11
     DEF Streaming, Readable, Ongoing, ToolOf, Handled, W, n
<1> QED  BY <1>1, <1>2, <1>6, <1>8, <1>12 DEF StreamOK, NativeCallWhole, Finished, CliFields

\* The stream is closed, in each of its ways.
LEMMA CloseStep == ASSUME StreamOK, Close PROVE StreamOK'
<1> DEFINE W == Unread(reader, wire)
<1>1. /\ AnswerOK /\ wire \in Seq(Line) /\ reader \in Reader /\ Streaming /\ ~answer.closed
      /\ cli.phase = "streaming" /\ ~Finished
  BY DEF StreamOK, Close, Open, Finished
<1>2. /\ answer' = [answer EXCEPT !.closed = TRUE]
      /\ answer.sent = Len(answer.text) /\ answer.toolsSent = Len(answer.tools)
      /\ wire' \in {wire, wire \o <<Done, Newline>>, wire \o <<Done>>}
                     \cup (IF wire # <<>> THEN {Front(wire)} ELSE {})
      /\ UNCHANGED <<program, reader, detector, cli>>
  BY DEF Close
<1>3. /\ answer'.toolsSent = answer.toolsSent /\ answer'.text = answer.text
      /\ answer'.tools = answer.tools /\ answer'.sent = answer.sent
      /\ answer'.closed = TRUE /\ AnswerOK'
  <2>1. answer' = [text |-> answer.text, holds |-> answer.holds, sent |-> answer.sent,
                   tools |-> answer.tools, toolsSent |-> answer.toolsSent, closed |-> TRUE]
    BY <1>1, <1>2 DEF AnswerOK
  <2>2. /\ answer.tools \in Seq(Symbol) /\ answer.toolsSent \in 0 .. Len(answer.tools)
        /\ answer.text \in Seq(Symbol) /\ answer.sent \in 0 .. Len(answer.text)
    BY <1>1 DEF AnswerOK
  <2> QED  BY <2>1, <2>2 DEF AnswerOK
<1>4. W \in Seq(Line) /\ Alternates(W) /\ Whole(W) /\ NotDone(W) /\ ~reader.done
  BY <1>1, UnreadType DEF Streaming, Readable, Ongoing
<1>5. /\ wire' \in Seq(Line) /\ Alternates(Unread(reader, wire'))
      /\ \A type \in {"text", "tool"} : Carried(type, Unread(reader, wire')) = Carried(type, W)
  <2>1. CASE wire' = wire
    BY <1>1, <1>4, <2>1
  <2>2. CASE wire' = wire \o <<Done, Newline>> \/ wire' = wire \o <<Done>>
    <3>1. Done \in Line /\ Done.type = "done"
      BY DEF Done, Line
    <3>2. wire' \in Seq(Line)
      <4>1. <<Done, Newline>> \in Seq(Line) /\ <<Done>> \in Seq(Line)
        BY <1>1, <3>1, LineOnWire
      <4>2. \A v, w \in Seq(Line) : v \o w \in Seq(Line)
        OBVIOUS
      <4> QED  BY <1>1, <2>2, <4>1, <4>2
    <3>3. ASSUME NEW type \in {"text", "tool"}
          PROVE  Carried(type, Unread(reader, wire')) = Carried(type, W)
      <4>1. CarriedBy(type, Done) = <<>>
        BY <3>1, <3>3 DEF CarriedBy
      <4>2. Carried(type, W) \o <<>> = Carried(type, W)
        BY <1>4, CarriedType, SMTT(40)
      <4> QED  BY <1>1, <2>2, <3>1, <4>1, <4>2, LineOnWire
    <3> QED  BY <1>1, <2>2, <3>1, <3>2, <3>3, LineOnWire
  <2>3. CASE wire # <<>> /\ wire' = Front(wire)
    <3>1. PICK b \in Seq(Line), w \in Seq(Line) : b = reader.buffer /\ w = wire
      BY <1>1, BufferType DEF Reader
    <3>2. /\ w # <<>> /\ SubSeq(w, 1, Len(w) - 1) \in Seq(Line)
          /\ b \o w # <<>> /\ b \o w \in Seq(Line)
          /\ SubSeq(b \o w, 1, Len(b \o w) - 1) = b \o SubSeq(w, 1, Len(w) - 1)
      <4>1. w # <<>>
        BY <2>3, <3>1
      <4> QED  BY <4>1
    <3>3. wire' = SubSeq(w, 1, Len(w) - 1)
      BY <2>3, <3>1 DEF Front
    <3>4. W = b \o w /\ Unread(reader, wire') = SubSeq(W, 1, Len(W) - 1)
      BY <3>1, <3>2, <3>3 DEF Unread
    <3>5. wire' \in Seq(Line) /\ W # <<>>
      BY <3>2, <3>3, <3>4
    <3> HIDE DEF W
    <3>6. PICK v \in Seq(Line), last \in Line :
            /\ v = SubSeq(W, 1, Len(W) - 1) /\ W = v \o <<last>> /\ last = W[Len(W)]
      <4>1. /\ SubSeq(W, 1, Len(W) - 1) \in Seq(Line) /\ W[Len(W)] \in Line
            /\ W = SubSeq(W, 1, Len(W) - 1) \o <<W[Len(W)]>>
        BY <1>4, <3>5
      <4> QED  BY <4>1
    <3>7. last.type = "newline"
      BY <1>4, <3>5, <3>6 DEF Whole
    <3>8. ASSUME NEW type \in {"text", "tool"} PROVE Carried(type, v) = Carried(type, W)
      <4>1. <<last>> \in Seq(Line)
        OBVIOUS
      <4>2. Carried(type, v \o <<last>>) = Carried(type, v) \o Carried(type, <<last>>)
        BY <4>1, CarriedConcat
      <4>3. Carried(type, <<last>>) = <<>>
        BY <3>7, <3>8, CarriedOne DEF CarriedBy
      <4>4. Carried(type, v) \o <<>> = Carried(type, v)
        BY CarriedType
      <4> QED  BY <3>6, <4>2, <4>3, <4>4
    <3> QED  BY <1>4, <3>4, <3>5, <3>6, <3>8, AlternatesLess
  <2> QED  BY <1>2, <2>1, <2>2, <2>3
<1>6. Streaming'
  BY <1>1, <1>2, <1>3, <1>4, <1>5 DEF Streaming, Readable, ToolOf, Handled, W
<1> QED  BY <1>1, <1>2, <1>3, <1>5, <1>6 DEF StreamOK, NativeCallWhole, Finished, CliFields

\* HandsOn: a step hands messages on.
HandsOn(messages) ==
  messages \in Seq(Seq(Symbol)) /\ Handled' = Handled \o FlattenSeq(messages)

\* The program reads: what it hands on is the next part of the answer.
LEMMA ReadStep ==
  ASSUME StreamOK, NEW k \in 1 .. Len(wire), Read(k)
  PROVE  StreamOK' /\ HandsOn(processChunk(reader, SubSeq(wire, 1, k)).messages)
<1> DEFINE r == processChunk(reader, SubSeq(wire, 1, k))
           x == FlattenSeq(r.messages)
           y == Carried("text", Unread(r, wire'))
<1>1. /\ AnswerOK /\ wire \in Seq(Line) /\ reader \in Reader /\ reader.messages = <<>>
      /\ Streaming /\ cli.phase = "streaming" /\ ~Finished
      /\ reader.handled \in 0 .. Len(answer.text)
  BY DEF StreamOK, Read, Finished
<1>2. /\ wire' = SubSeq(wire, k + 1, Len(wire)) /\ reader' = Delivered(r)
      /\ UNCHANGED <<program, answer, cli>>
  BY DEF Read
<1>3. wire' \in Seq(Line) /\ k \in 0 .. Len(wire)
  <2>1. Len(wire) \in Nat /\ SubSeq(wire, k + 1, Len(wire)) \in Seq(Line)
    BY <1>1
  <2> QED  BY <1>2, <2>1
<1>4. Reads(reader, wire, r, wire')
  BY <1>1, <1>2, <1>3, ReadPieces DEF Streaming
<1> HIDE DEF r
<1>5. /\ r \in Reader /\ r.native = <<>> /\ r.handled = reader.handled
      /\ TextOf(r, wire') = TextOf(reader, wire) /\ ToolOf(r, wire') = ToolOf(reader, wire)
      /\ Readable(r, wire') /\ (Ongoing(reader, wire) => Ongoing(r, wire'))
  BY <1>1, <1>4 DEF Reads, Streaming
<1>6. /\ reader' \in Reader /\ reader'.messages = <<>>
      /\ reader'.handled = reader.handled + Len(x)
      /\ reader'.buffer = r.buffer /\ reader'.toolCall = r.toolCall
      /\ reader'.native = r.native /\ reader'.done = r.done
  BY <1>2, <1>5, DeliveredAll
<1>7. Unread(reader', wire') = Unread(r, wire') /\ Unread(r, wire') \in Seq(Line)
  BY <1>3, <1>5, <1>6, UnreadType DEF Unread
<1>8. x \in Seq(Symbol) /\ y \in Seq(Symbol)
  <2>1. r.messages \in Seq(Seq(Symbol))
    BY <1>5 DEF Reader
  <2> QED  BY <1>7, <2>1, FlattenType, CarriedType
<1>9. Carried("text", Unread(reader, wire)) = x \o y
  <2>1. TextOf(reader, wire) = Carried("text", Unread(reader, wire))
    <3>1. Unread(reader, wire) \in Seq(Line)
      BY <1>1, UnreadType
    <3>2. Carried("text", Unread(reader, wire)) \in Seq(Symbol)
      BY <3>1, CarriedType
    <3> QED  BY <1>1, <3>2, FlattenEmpty, Symbols DEF TextOf
  <2> QED  BY <1>5, <2>1 DEF TextOf
<1> HIDE DEF x, y
<1>10. /\ reader.handled + Len(x) \in 0 .. answer.sent
       /\ SubSeq(answer.text, 1, answer.sent)
            = SubSeq(answer.text, 1, reader.handled + Len(x)) \o y
       /\ SubSeq(answer.text, 1, reader.handled + Len(x)) = Handled \o x
  <2>1. PICK s \in Seq(Symbol), n \in Nat, h \in Nat :
          /\ s = answer.text /\ n = answer.sent /\ h = reader.handled
          /\ n \in 0 .. Len(s) /\ h \in 0 .. Len(s)
    BY <1>1 DEF AnswerOK
  <2>2. SubSeq(s, 1, n) = SubSeq(s, 1, h) \o (x \o y)
    BY <1>1, <1>9, <2>1 DEF Streaming, Handled
  <2>3. Continues(s, n, h, x \o y)
    BY ONLY <2>2 DEF Continues
  <2>4. n <= Len(s) /\ h <= Len(s)
    BY <2>1
  <2>5. /\ h + Len(x) \in 0 .. n
        /\ Continues(s, n, h + Len(x), y) /\ Continues(s, h + Len(x), h, x)
    BY <1>8, <2>3, <2>4, CutPrefix
  <2>6. /\ SubSeq(s, 1, n) = SubSeq(s, 1, h + Len(x)) \o y
        /\ SubSeq(s, 1, h + Len(x)) = SubSeq(s, 1, h) \o x
    BY ONLY <2>5 DEF Continues
  <2> QED  BY ONLY <2>1, <2>5, <2>6 DEF Handled
<1>11. reader'.handled \in 0 .. Len(answer.text)
  BY <1>1, <1>6, <1>10 DEF AnswerOK
<1>12. Handled' = SubSeq(answer.text, 1, reader.handled + Len(x))
  BY <1>2, <1>6 DEF Handled
<1>13. y = Carried("text", Unread(reader', wire'))
  BY <1>7 DEF y
<1>14. Streaming'
  <2>1. Readable(reader', wire') /\ (Ongoing(reader, wire) => Ongoing(reader', wire'))
    BY <1>5, <1>6, <1>7 DEF Readable, Ongoing
  <2>2. ToolOf(reader', wire') = ToolOf(reader, wire)
    BY <1>5, <1>6, <1>7 DEF ToolOf
  <2> QED  BY <1>1, <1>2, <1>5, <1>6, <1>10, <1>12, <1>13, <2>1, <2>2 DEF Streaming
<1>15. reader'.native = <<>> /\ ~Finished' /\ AnswerOK'
  BY <1>1, <1>2, <1>5, <1>6 DEF Finished, AnswerOK
<1>16. StreamOK'
  BY <1>1, <1>2, <1>3, <1>6, <1>11, <1>14, <1>15
     DEF StreamOK, NativeCallWhole, Finished, CliFields
<1>17. HandsOn(r.messages)
  <2>1. r.messages \in Seq(Seq(Symbol))
    BY <1>5 DEF Reader
  <2>2. Handled' = Handled \o x
    BY ONLY <1>10, <1>12
  <2> QED  BY ONLY <2>1, <2>2 DEF HandsOn, x
<1> QED  BY <1>16, <1>17 DEF r

\* What the end of the stream hands on: the line without a newline, and the tool call.
LEMMA EndReads ==
  ASSUME StreamOK, cli.phase = "streaming", reader.done \/ (answer.closed /\ wire = <<>>)
  PROVE  LET r == finalizeStream(reader)
         IN  /\ r \in Reader /\ r.handled = reader.handled
             /\ SubSeq(answer.text, 1, reader.handled + Len(FlattenSeq(r.messages))) = answer.text
             /\ SubSeq(answer.text, 1, reader.handled) \o FlattenSeq(r.messages) = answer.text
             /\ reader.handled + Len(FlattenSeq(r.messages)) = Len(answer.text)
             /\ r.native = IF answer.tools = <<>> THEN <<>> ELSE <<answer.tools>>
<1> DEFINE e == IF reader.buffer = <<>> THEN reader
                ELSE handleLine([reader EXCEPT !.buffer = <<>>], reader.buffer[1])
           r == finalizeStream(reader)
           x == FlattenSeq(e.messages)
<1>1. /\ AnswerOK /\ wire \in Seq(Line) /\ reader \in Reader /\ reader.messages = <<>>
      /\ Streaming /\ reader.handled \in 0 .. Len(answer.text)
  BY DEF StreamOK
<1>2. answer.closed /\ wire = <<>> /\ Unread(reader, wire) = reader.buffer
  <2>1. PICK b \in Seq(Line), w \in Seq(Line) : b = reader.buffer /\ w = wire
    BY <1>1, BufferType DEF Reader
  <2>2. b \o w = <<>> => w = <<>>
    OBVIOUS
  <2>3. b \o <<>> = b
    OBVIOUS
  <2>4. reader.done => answer.closed /\ b \o w = <<>>
    BY <1>1, <2>1 DEF Streaming, Ongoing, Readable, Unread
  <2> QED  BY <2>1, <2>2, <2>3, <2>4 DEF Unread
<1>3. /\ e \in Reader /\ e.handled = reader.handled /\ e.native = <<>>
      /\ x = Carried("text", reader.buffer)
      /\ e.toolCall = reader.toolCall \o Carried("tool", reader.buffer)
  <2>1. reader.native = <<>> /\ reader.toolCall \in Seq(Symbol)
    BY <1>1 DEF Streaming, Reader
  <2>2. CASE reader.buffer = <<>>
    BY <1>1, <2>1, <2>2, CarriedNothing, FlattenEmpty, Symbols
  <2>3. CASE reader.buffer # <<>>
    <3>1. PICK line \in Line : reader.buffer = <<line>> /\ line.type # "newline"
      BY <1>1, <2>3 DEF Reader, Buffers
    <3>2. e = handleLine([reader EXCEPT !.buffer = <<>>], line)
      BY <2>3, <3>1
    <3> HIDE DEF e
    <3>3. /\ e \in Reader /\ e.native = reader.native /\ e.handled = reader.handled
          /\ FlattenSeq(e.messages) = FlattenSeq(reader.messages) \o CarriedBy("text", line)
          /\ e.toolCall = reader.toolCall \o CarriedBy("tool", line)
      BY <1>1, <3>1, <3>2, HandleLine
    <3>4. <<>> \o CarriedBy("text", line) = CarriedBy("text", line)
      BY CarriedByType, Symbols
    <3> QED  BY <1>1, <2>1, <3>1, <3>3, <3>4, CarriedOne, FlattenEmpty
  <2> QED  BY <2>2, <2>3
<1>4. r = [e EXCEPT !.native = IF e.toolCall = <<>> THEN @ ELSE Append(@, e.toolCall),
                    !.toolCall = <<>>]
  BY DEF finalizeStream, flushToolCalls
<1> HIDE DEF e, r
<1>5. /\ r \in Reader /\ r.handled = e.handled /\ r.messages = e.messages
      /\ r.native = IF e.toolCall = <<>> THEN <<>> ELSE <<e.toolCall>>
  <2>1. e \in Reader
    BY <1>3
  <2>2. e.toolCall \in Seq(Symbol) /\ <<>> \in Seq(Symbol)
    BY <2>1 DEF Reader
  <2>3. PICK n \in Seq(Seq(Symbol)) : n = IF e.toolCall = <<>> THEN <<>> ELSE <<e.toolCall>>
    <3>1. <<>> \in Seq(Seq(Symbol)) /\ <<e.toolCall>> \in Seq(Seq(Symbol))
      BY <2>2
    <3> QED  BY <3>1
  <2>4. r = [e EXCEPT !.native = n, !.toolCall = <<>>]
    BY <1>3, <1>4, <2>3
  <2> QED  BY <1>3, <2>2, <2>3, <2>4 DEF Reader
<1>6. e.toolCall = answer.tools
  <2>1. e.toolCall = SubSeq(answer.tools, 1, Len(answer.tools))
    BY <1>1, <1>2, <1>3 DEF Streaming, ToolOf
  <2>2. \A s \in Seq(Symbol) : SubSeq(s, 1, Len(s)) = s
    OBVIOUS
  <2> QED  BY <1>1, <2>1, <2>2 DEF AnswerOK
<1>7. /\ reader.handled + Len(x) = Len(answer.text)
      /\ SubSeq(answer.text, 1, reader.handled + Len(x)) = answer.text
      /\ SubSeq(answer.text, 1, reader.handled) \o x = answer.text
  <2>1. PICK s \in Seq(Symbol), h \in Nat :
          s = answer.text /\ h = reader.handled /\ h \in 0 .. Len(s)
    BY <1>1 DEF AnswerOK
  <2>2. reader.buffer \in Seq(Line)
    BY <1>1, BufferType DEF Reader
  <2>3. x \in Seq(Symbol) /\ x \o <<>> = x /\ <<>> \in Seq(Symbol)
    BY <1>3, <2>2, CarriedType, Symbols
  <2>4. s = SubSeq(s, 1, h) \o x
    <3>1. SubSeq(s, 1, Len(s)) = s
      OBVIOUS
    <3> QED  BY <1>1, <1>2, <1>3, <2>1, <3>1 DEF Streaming, Handled
  <2>5. Len(s) = h + Len(x)
    <3>1. h \in 0 .. Len(s)
      BY <2>1
    <3>2. SubSeq(s, 1, h) \in Seq(Symbol) /\ Len(SubSeq(s, 1, h)) = h
      BY <3>1
    <3>3. Len(SubSeq(s, 1, h) \o x) = Len(SubSeq(s, 1, h)) + Len(x)
      BY <2>3, <3>2
    <3> QED  BY <2>4, <3>2, <3>3
  <2>6. SubSeq(s, 1, h + Len(x)) = s
    BY <2>5
  <2> QED  BY <2>1, <2>4, <2>5, <2>6
<1> QED  BY <1>3, <1>5, <1>6, <1>7 DEF x, r

\* The stream has ended: the rest of the answer is handed on.
LEMMA EndStep ==
  ASSUME StreamOK, End
  PROVE  StreamOK' /\ HandsOn(finalizeStream(reader).messages)
<1> DEFINE r == finalizeStream(reader)
<1>1. /\ AnswerOK /\ reader \in Reader /\ cli.phase = "streaming" /\ CliFields(cli)
      /\ reader.done \/ (answer.closed /\ wire = <<>>)
      /\ program \in {"server", "cli"} /\ (program = "cli" => answer.tools = <<>>)
  BY DEF StreamOK, End
<1>2. /\ r \in Reader /\ r.handled = reader.handled
      /\ reader.handled + Len(FlattenSeq(r.messages)) = Len(answer.text)
      /\ SubSeq(answer.text, 1, reader.handled) \o FlattenSeq(r.messages) = answer.text
      /\ r.native = IF answer.tools = <<>> THEN <<>> ELSE <<answer.tools>>
  BY <1>1, EndReads
<1>3. reader' = Delivered(r) /\ wire' = <<>> /\ UNCHANGED <<program, answer>>
  BY DEF End
<1> HIDE DEF r
<1>4. /\ reader' \in Reader /\ reader'.messages = <<>> /\ reader'.handled = Len(answer.text)
      /\ reader'.native = r.native
  BY <1>2, <1>3, DeliveredAll
<1>5. reader'.handled \in 0 .. Len(answer'.text) /\ wire' \in Seq(Line) /\ AnswerOK'
  <2>1. Len(answer.text) \in Nat
    BY <1>1 DEF AnswerOK
  <2> QED  BY <1>1, <1>3, <1>4, <2>1 DEF AnswerOK
<1>6. HandsOn(r.messages)
  <2>1. r.messages \in Seq(Seq(Symbol))
    BY <1>2 DEF Reader
  <2>2. Handled' = answer.text
    <3>1. \A s \in Seq(Symbol) : SubSeq(s, 1, Len(s)) = s
      OBVIOUS
    <3> QED  BY <1>1, <1>3, <1>4, <3>1 DEF AnswerOK, Handled
  <2> QED  BY ONLY <1>2, <2>1, <2>2 DEF HandsOn, Handled
<1>7. CASE program = "server"
  <2>1. cli' = [cli EXCEPT !.phase = "ended"]
    BY <1>7 DEF End
  <2>2. cli'.phase = "ended" /\ CliFields(cli')
    BY <1>1, <2>1 DEF CliFields
  <2>3. NativeCallWhole'
    BY <1>2, <1>3, <1>4, <2>2 DEF NativeCallWhole, Finished
  <2> QED  BY <1>3, <1>4, <1>5, <1>6, <1>7, <2>2, <2>3 DEF StreamOK, r
<1>8. CASE program # "server"
  <2>1. PICK blocks, phase :
          /\ cli' = [cli EXCEPT !.turns = Append(@, Assistant), !.blocks = blocks,
                                !.next = 1, !.results = <<>>, !.phase = phase]
          /\ phase \in {"prompt", "executing"}
    <3>1. PICK d : cli' = [cli EXCEPT !.turns = Append(@, Assistant), !.blocks = d.blocks,
                               !.next = 1, !.results = <<>>,
                               !.phase = IF d.blocks = <<>> THEN "prompt" ELSE "executing"]
      BY <1>8, Zenon DEF End
    <3> QED  BY <3>1
  <2>2. cli'.phase \in {"prompt", "executing"} /\ CliFields(cli')
    BY <1>1, <2>1 DEF CliFields
  <2>3. NativeCallWhole' /\ ~Finished'
    BY <1>1, <1>2, <1>4, <1>8, <2>2 DEF NativeCallWhole, Finished
  <2> QED  BY <1>1, <1>3, <1>4, <1>5, <1>6, <1>8, <2>2, <2>3 DEF StreamOK, r
<1> QED  BY <1>7, <1>8

\* A program starts with a new stream, or without one.
LEMMA StreamInit == Init => StreamOK
<1> SUFFICES ASSUME Init PROVE StreamOK
  OBVIOUS
<1>1. CASE program = "server"
  <2>1. PICK a \in ServerAnswers, parts \in {<<>>, ToolParts} : answer = NewAnswer(a, parts)
    BY <1>1 DEF Init
  <2>2. /\ cli = [NewCli EXCEPT !.phase = "streaming"] /\ wire = <<>> /\ reader = NewReader
    BY <1>1 DEF Init
  <2>3. cli.phase = "streaming" /\ CliFields(cli)
    BY <2>2 DEF NewCli, CliFields
  <2>4. NewAnswer(a, parts) = NewAnswer([text |-> a.text, holds |-> a.holds], parts)
    BY DEF NewAnswer
  <2>5. a.text \in Seq(Symbol) /\ parts \in Seq(Symbol)
    <3>1. <<>> \in Seq(Symbol)
      OBVIOUS
    <3> QED  BY <3>1, TextsType
  <2>6. /\ AnswerOK /\ wire \in Seq(Line) /\ reader \in Reader /\ reader.messages = <<>>
        /\ reader.handled \in 0 .. Len(answer.text) /\ Streaming
    <3>1. Begun(a.text, parts, a.holds)
      BY <2>1, <2>2, <2>4 DEF Begun
    <3> QED  BY <2>5, <3>1, StreamBegins DEF BegunOK
  <2>7. NativeCallWhole
    BY <2>3, <2>6 DEF NativeCallWhole, Finished, Streaming
  <2> QED  BY <1>1, <2>3, <2>6, <2>7 DEF StreamOK
<1>2. CASE program # "server"
  <2>1. /\ program = "cli" /\ cli = NewCli /\ wire = <<>> /\ reader = NewReader
        /\ answer = [NewAnswer([text |-> <<>>, holds |-> <<>>], <<>>) EXCEPT !.closed = TRUE]
    BY <1>2 DEF Init
  <2>2. cli.phase = "prompt" /\ CliFields(cli)
    BY <2>1 DEF NewCli, CliFields
  <2>3. AnswerOK /\ answer.text = <<>> /\ answer.tools = <<>>
    <3>1. answer = [text |-> <<>>, holds |-> <<>>, sent |-> 0, tools |-> <<>>, toolsSent |-> 0,
                    closed |-> TRUE]
      BY <2>1 DEF NewAnswer
    <3>2. <<>> \in Seq(Symbol) /\ Len(<<>>) = 0
      OBVIOUS
    <3> QED  BY <3>1, <3>2 DEF AnswerOK
  <2>4. reader \in Reader /\ reader.messages = <<>> /\ reader.handled = 0 /\ reader.native = <<>>
    BY <2>1 DEF NewReader, Reader, Buffers
  <2>5. wire \in Seq(Line) /\ reader.handled \in 0 .. Len(answer.text)
    BY <2>1, <2>3, <2>4
  <2> QED  BY <2>1, <2>2, <2>3, <2>4, <2>5 DEF StreamOK, NativeCallWhole, Finished
<1> QED  BY <1>1, <1>2

\* The CLI asks, or reports its results: a new stream.
LEMMA NewStreamStep ==
  ASSUME StreamOK, NEW a \in CliAnswers, NewStream(a), program = "cli", UNCHANGED program,
         CliFields(cli'), cli'.phase = "streaming"
  PROVE  StreamOK'
<1>1. /\ answer' = NewAnswer(a, <<>>) /\ wire' = <<>> /\ reader' = NewReader
  BY DEF NewStream
<1>2. NewAnswer(a, <<>>) = NewAnswer([text |-> a.text, holds |-> a.holds], <<>>)
  BY DEF NewAnswer
<1>3. a.text \in Seq(Symbol) /\ <<>> \in Seq(Symbol)
  BY TextsType
<1>4. BegunOK'
  <2>1. (\A text, parts \in Seq(Symbol) : \A holds : Begun(text, parts, holds) => BegunOK)'
    BY StreamBegins, PTL
  <2>2. \A text, parts \in Seq(Symbol) : \A holds : Begun(text, parts, holds)' => BegunOK'
    BY <2>1
  <2>3. Begun(a.text, <<>>, a.holds)'
    BY <1>1, <1>2 DEF Begun
  <2> QED  BY <1>3, <2>2, <2>3
<1>5. answer'.tools = <<>>
  BY <1>1 DEF NewAnswer
<1> QED  BY <1>4, <1>5 DEF BegunOK, StreamOK, Streaming, NativeCallWhole, Finished

\* Every step keeps what the stream has sent and handed on.
LEMMA StreamStep == ASSUME StreamOK, [Next]_vars PROVE StreamOK'
<1>1. /\ AnswerOK /\ wire \in Seq(Line) /\ reader \in Reader /\ CliFields(cli) /\ NativeCallWhole
      /\ program \in {"server", "cli"}
      /\ (program = "cli" => answer.tools = <<>> /\ ~Finished)
      /\ (program = "server" => cli.phase \in {"streaming", "ended"})
      /\ DeltaSizes \subseteq Nat
  BY StreamBounds DEF StreamOK
<1>2. CASE UNCHANGED vars
  BY <1>2 DEF vars, StreamOK, AnswerOK, Streaming, Handled, NativeCallWhole, Finished, CliFields
<1>3. ASSUME NEW n \in DeltaSizes \cup {Len(answer.text) - answer.sent}, n > 0, SendText(n)
      PROVE  StreamOK'
  <2>1. n \in Nat
    BY <1>1, <1>3 DEF AnswerOK
  <2> QED  BY <1>3, <2>1, SendTextStep
<1>4. CASE SendTool
  BY <1>4, SendToolStep
<1>5. CASE Close
  BY <1>5, CloseStep
<1>6. ASSUME NEW k \in 1 .. Len(wire), Read(k) PROVE StreamOK'
  BY <1>6, ReadStep
<1>7. CASE End
  BY <1>7, EndStep
<1>8. CASE Fail
  <2>1. /\ program = "cli" /\ cli' = [cli EXCEPT !.phase = "prompt", !.blocks = <<>>]
        /\ wire' = <<>> /\ answer' = [answer EXCEPT !.closed = TRUE]
        /\ UNCHANGED <<program, reader, detector>> /\ cli.phase = "streaming"
    BY <1>8 DEF Fail
  <2>2. cli'.phase = "prompt" /\ CliFields(cli')
    BY <1>1, <2>1 DEF CliFields
  <2>3. answer'.text = answer.text /\ answer'.tools = answer.tools /\ AnswerOK'
    BY <1>1, <2>1 DEF AnswerOK
  <2>4. reader.native = <<>>
    BY <2>1 DEF StreamOK, NativeCallWhole, Finished
  <2>5. wire' \in Seq(Line)
    BY <2>1
  <2> QED  BY <1>1, <2>1, <2>2, <2>3, <2>4, <2>5 DEF StreamOK, NativeCallWhole, Finished
<1>9. ASSUME NEW a \in CliAnswers, Ask(a) \/ SendResults(a) PROVE StreamOK'
  <2>1. NewStream(a) /\ UNCHANGED program
    BY <1>9 DEF Ask, SendResults
  <2>2. program = "cli"
    <3>1. Ask(a) => program = "cli"
      BY DEF Ask
    <3>2. SendResults(a) => cli.phase = "executing"
      BY DEF SendResults
    <3> QED  BY <1>1, <1>9, <3>1, <3>2
  <2>3. cli'.phase = "streaming" /\ CliFields(cli')
    BY <1>1, <1>9 DEF Ask, SendResults, CliFields
  <2> QED  BY <2>1, <2>2, <2>3, NewStreamStep
<1>10. CASE ApplyBlock \/ SkipBlock \/ SkipAll \/ NothingToReport
  <2>1. cli.phase = "executing" /\ UNCHANGED <<program, answer, wire, reader, detector>>
    BY <1>10 DEF ApplyBlock, SkipBlock, SkipAll, NothingToReport
  <2>2. cli'.phase \in {"executing", "prompt"} /\ CliFields(cli')
    <3>1. CASE ApplyBlock
      <4>1. PICK result, next, files, journal :
              cli' = [cli EXCEPT !.files = files, !.next = next, !.results = Append(@, result),
                                 !.applied = Append(@, result), !.journal = journal]
        BY <3>1, Applying
      <4> QED  BY <1>1, <2>1, <4>1 DEF CliFields
    <3>2. CASE SkipBlock \/ SkipAll \/ NothingToReport
      BY <1>1, <2>1, <3>2 DEF SkipBlock, SkipAll, NothingToReport, CliFields
    <3> QED  BY <1>10, <3>1, <3>2
  <2>3. program = "cli"
    BY <1>1, <2>1
  <2> QED  BY <1>1, <2>1, <2>2, <2>3 DEF StreamOK, AnswerOK, NativeCallWhole, Finished
<1> QED  BY <1>2, <1>3, <1>4, <1>5, <1>6, <1>7, <1>8, <1>9, <1>10 DEF Next

\* NativeCallWhole: a native tool call is processed once, with all of its arguments, and only
\* when the stream has ended, for any answer, deltas and pieces of the network, and however
\* the stream ends (v2-stream.ts:145).
THEOREM NativeCallsAreWhole == Spec => []NativeCallWhole
<1>1. StreamOK /\ [Next]_vars => StreamOK'
  BY StreamStep
<1>2. StreamOK => NativeCallWhole
  BY DEF StreamOK
<1> QED  BY <1>1, <1>2, StreamInit, PTL DEF Spec

-------------------------------------------------------------------------------
(* Cutting a text, and counting a character in it *)

\* A set of numbers has a least one.
LEMMA LeastExists ==
  ASSUME NEW S \in SUBSET Nat, S # {}
  PROVE  Least(S) \in S /\ \A j \in S : Least(S) <= j
<1> DEFINE T == {n \in Nat : \A i \in S : i >= n}
<1>1. \E i \in S : \A j \in S : i <= j
  <2> SUFFICES ASSUME \A i \in S : i \notin T PROVE FALSE
    OBVIOUS
  <2>1. 0 \in T
    OBVIOUS
  <2>2. ASSUME NEW n \in T PROVE n + 1 \in T
    <3>1. \A i \in S : i >= n /\ i # n
      BY <2>2
    <3> QED  BY <3>1
  <2>3. \A n \in Nat : n \in T
    <3>1. T \in SUBSET Nat
      OBVIOUS
    <3> HIDE DEF T
    <3> QED  BY <2>1, <2>2, <3>1, SetInduction
  <2> QED  BY <2>3
<1> QED  BY <1>1 DEF Least

\* A bounded set of numbers has a greatest one.
LEMMA GreatestExists ==
  ASSUME NEW m \in Nat, NEW S \in SUBSET (1 .. m), S # {}
  PROVE  \E i \in S : \A j \in S : j <= i
<1> DEFINE T == {m - i : i \in S}
<1>1. \A i \in S : i \in Nat /\ i <= m
  OBVIOUS
<1>2. T \in SUBSET Nat /\ T # {}
  <2>1. \A i \in S : m - i \in Nat
    BY <1>1
  <2> QED  BY <2>1
<1>3. PICK k \in T : \A j \in T : k <= j
  <2> HIDE DEF T
  <2> QED  BY <1>2, LeastExists
<1>4. PICK i \in S : k = m - i
  BY <1>3
<1>5. ASSUME NEW j \in S PROVE j <= i
  <2>1. m - j \in T
    OBVIOUS
  <2>2. k <= m - j
    BY <1>3, <2>1
  <2> QED  BY <1>1, <1>4, <2>2
<1> QED  BY <1>4, <1>5

\* Plain: a character that no detector writes or takes away.
Plain(c) == c \notin {Tick, NL, Json, "summary"}

\* Sums: the numbers that are counted here.
LEMMA Sums ==
  /\ \A c : \A s \in Seq(Symbol) : Count(c, s) \in Nat
  /\ \A c : \A s, t \in Seq(Symbol) : Count(c, s \o t) = Count(c, s) + Count(c, t)
  /\ \A c : Count(c, <<>>) = 0
  /\ \A c : \A s \in Seq(Symbol), e \in Symbol :
       Count(c, Append(s, e)) = Count(c, s) + (IF e = c THEN 1 ELSE 0)
<1>1. \A c : \A s \in Seq(Symbol) : Count(c, s) \in Nat
  BY CountType
<1>2. \A c : \A s, t \in Seq(Symbol) : Count(c, s \o t) = Count(c, s) + Count(c, t)
  BY CountConcat
<1>3. \A c : Count(c, <<>>) = 0
  BY CountEmpty
<1>4. \A c : \A s \in Seq(Symbol), e \in Symbol :
        Count(c, Append(s, e)) = Count(c, s) + (IF e = c THEN 1 ELSE 0)
  BY CountAppend
<1> QED  BY <1>1, <1>2, <1>3, <1>4

\* The fence and the newline that the detectors write are not counted.
LEMMA SymbolsThatAreWritten ==
  /\ Tick \in Symbol /\ NL \in Symbol /\ Json \in Symbol /\ "summary" \in Symbol
  /\ Fence \in Seq(Symbol) /\ <<NL>> \in Seq(Symbol)
  /\ \A c : Plain(c) => Count(c, Fence) = 0 /\ Count(c, <<NL>>) = 0
<1>1. Tick \in Symbol /\ NL \in Symbol /\ Json \in Symbol /\ "summary" \in Symbol
  BY DEF Symbol
<1>2. Fence \in Seq(Symbol) /\ <<NL>> \in Seq(Symbol)
  BY <1>1 DEF Fence
<1>3. ASSUME NEW c, Plain(c) PROVE Count(c, Fence) = 0 /\ Count(c, <<NL>>) = 0
  <2>1. c # Tick /\ c # NL
    BY <1>3 DEF Plain
  <2>2. \A i \in DOMAIN Fence : Fence[i] # c
    BY <2>1 DEF Fence
  <2>3. \A i \in DOMAIN <<NL>> : <<NL>>[i] # c
    BY <2>1
  <2> QED  BY <1>2, <2>2, <2>3, CountNone
<1> QED  BY <1>1, <1>2, <1>3

\* A text, cut before its character k.
LEMMA CutBefore ==
  ASSUME NEW s \in Seq(Symbol), NEW k \in 1 .. Len(s) + 1, NEW c
  PROVE  /\ Before(s, k) \in Seq(Symbol) /\ From(s, k) \in Seq(Symbol)
         /\ Count(c, s) = Count(c, Before(s, k)) + Count(c, From(s, k))
<1>1. k - 1 \in 0 .. Len(s) /\ (k - 1) + 1 = k
  OBVIOUS
<1>2. /\ SubSeq(s, 1, k - 1) \in Seq(Symbol) /\ SubSeq(s, (k - 1) + 1, Len(s)) \in Seq(Symbol)
      /\ Count(c, s) = Count(c, SubSeq(s, 1, k - 1)) + Count(c, SubSeq(s, (k - 1) + 1, Len(s)))
  BY ONLY <1>1, CountSplit, s \in Seq(Symbol)
<1> QED  BY <1>1, <1>2 DEF Before, From

\* Between a and b there is nothing that counts.
LEMMA CutOut ==
  ASSUME NEW s \in Seq(Symbol), NEW a \in 1 .. Len(s) + 1, NEW b \in a .. Len(s) + 1, NEW c,
         \A i \in a .. b - 1 : s[i] # c
  PROVE  From(s, b) \in Seq(Symbol) /\ Count(c, From(s, a)) = Count(c, From(s, b))
<1> DEFINE t == From(s, a)
           k == b - a + 1
<1>1. /\ t \in Seq(Symbol) /\ Len(t) = Len(s) - a + 1 /\ k \in 1 .. Len(t) + 1
      /\ \A i \in 1 .. Len(t) : t[i] = s[a + i - 1]
  BY DEF From
<1>2. From(t, k) = From(s, b)
  BY DEF From
<1>3. Before(t, k) \in Seq(Symbol) /\ \A i \in DOMAIN Before(t, k) : Before(t, k)[i] # c
  <2>1. \A i \in 1 .. k - 1 : i \in 1 .. Len(t) /\ a + i - 1 \in a .. b - 1
    BY <1>1, SMTT(40)
  <2>2. \A i \in 1 .. k - 1 : t[i] # c
    BY <1>1, <2>1
  <2> HIDE DEF t, k
  <2> QED  BY <1>1, <2>2 DEF Before
<1> HIDE DEF t, k
<1>4. Count(c, t) = Count(c, Before(t, k)) + Count(c, From(t, k)) /\ From(t, k) \in Seq(Symbol)
  BY <1>1, CutBefore
<1>5. Count(c, Before(t, k)) = 0
  BY <1>3, CountNone
<1> QED  BY <1>2, <1>4, <1>5, Sums DEF t

\* Blanks around a text do not count.
LEMMA CountTrim ==
  ASSUME NEW s \in Seq(Symbol), NEW c, c # NL
  PROVE  Trim(s) \in Seq(Symbol) /\ Count(c, Trim(s)) = Count(c, s)
<1> DEFINE solid == {i \in DOMAIN s : s[i] # NL}
           a == Least(solid)
           b == CHOOSE i \in solid : \A j \in solid : j <= i
<1>1. CASE solid = {}
  <2>1. Trim(s) = <<>> /\ <<>> \in Seq(Symbol)
    BY <1>1 DEF Trim
  <2>2. \A i \in DOMAIN s : s[i] # c
    BY <1>1
  <2> QED  BY <2>1, <2>2, CountNone, Sums
<1>2. CASE solid # {}
  <2>1. solid \in SUBSET (1 .. Len(s)) /\ Len(s) \in Nat /\ solid \in SUBSET Nat
    OBVIOUS
  <2>2. Trim(s) = SubSeq(s, a, b)
    BY <1>2 DEF Trim
  <2>3. \A i \in 1 .. Len(s) : i \notin solid => s[i] # c
    OBVIOUS
  <2> HIDE DEF solid
  <2>4. a \in solid /\ \A j \in solid : a <= j
    BY <1>2, <2>1, LeastExists
  <2>5. b \in solid /\ \A j \in solid : j <= b
    <3>1. \E i \in solid : \A j \in solid : j <= i
      BY <1>2, <2>1, GreatestExists
    <3> QED  BY <3>1
  <2> HIDE DEF a, b
  <2>6. a \in 1 .. Len(s) /\ b \in a .. Len(s)
    BY <2>1, <2>4, <2>5
  <2>7. Count(c, s) = Count(c, From(s, a))
    <3>1. From(s, 1) = s
      BY DEF From
    <3>2. 1 \in 1 .. Len(s) + 1 /\ a \in 1 .. Len(s) + 1
      BY <2>6
    <3>3. \A i \in 1 .. a - 1 : s[i] # c
      BY <2>1, <2>3, <2>4, <2>6
    <3> QED  BY <3>1, <3>2, <3>3, CutOut
  <2> DEFINE t == From(s, a)
             k == b - a + 2
  <2>8. /\ t \in Seq(Symbol) /\ Len(t) = Len(s) - a + 1 /\ k \in 1 .. Len(t) + 1
        /\ Before(t, k) = SubSeq(s, a, b) /\ From(t, k) \in Seq(Symbol)
        /\ From(t, k) = From(s, b + 1)
    BY <2>6 DEF From, Before
  <2>9. Count(c, From(t, k)) = 0
    <3>1. /\ Len(From(s, b + 1)) = Len(s) - b
          /\ \A i \in 1 .. Len(s) - b : From(s, b + 1)[i] = s[b + i]
      BY <2>6 DEF From
    <3>2. \A i \in 1 .. Len(s) - b : s[b + i] # c
      <4>1. \A i \in 1 .. Len(s) - b : b + i \in 1 .. Len(s) /\ b + i > b
        BY <2>6
      <4> QED  BY <2>1, <2>3, <2>5, <2>6, <4>1
    <3>3. \A i \in DOMAIN From(s, b + 1) : From(s, b + 1)[i] # c
      BY <2>8, <3>1, <3>2
    <3> QED  BY <2>8, <3>3, CountNone
  <2> HIDE DEF t, k
  <2>10. /\ Before(t, k) \in Seq(Symbol)
         /\ Count(c, t) = Count(c, Before(t, k)) + Count(c, From(t, k))
    BY <2>8, CutBefore
  <2>11. Count(c, Before(t, k)) \in Nat
    BY <2>10, Sums
  <2>12. Count(c, t) = Count(c, Before(t, k))
    BY <2>9, <2>10, <2>11
  <2> QED  BY <2>2, <2>7, <2>8, <2>10, <2>12 DEF t
<1> QED  BY <1>1, <1>2

\* A fence in a text is three backquotes.
LEMMA FencePlaces ==
  ASSUME NEW s \in Seq(Symbol), Places(s, Fence) # {}
  PROVE  LET i == Least(Places(s, Fence))
         IN  /\ i \in 1 .. Len(s) /\ i + 2 \in 1 .. Len(s)
             /\ s[i] = Tick /\ s[i + 1] = Tick /\ s[i + 2] = Tick
<1> DEFINE i == Least(Places(s, Fence))
<1>1. Len(Fence) = 3 /\ Fence[1] = Tick /\ Fence[2] = Tick /\ Fence[3] = Tick
  BY DEF Fence
<1>2. Places(s, Fence) \in SUBSET Nat /\ Len(s) \in Nat
  BY <1>1 DEF Places
<1>3. i \in Places(s, Fence)
  BY <1>2, LeastExists
<1> HIDE DEF i
<1>4. i \in 1 .. Len(s) - 2 /\ SubSeq(s, i, i + 2) = Fence
  BY <1>1, <1>3 DEF Places
<1>5. SubSeq(s, i, i + 2)[1] = s[i] /\ SubSeq(s, i, i + 2)[2] = s[i + 1]
      /\ SubSeq(s, i, i + 2)[3] = s[i + 2]
  BY <1>2, <1>4
<1>6. i \in 1 .. Len(s) /\ i + 2 \in 1 .. Len(s)
  BY <1>2, <1>4
<1>7. s[i] = Tick /\ s[i + 1] = Tick /\ s[i + 2] = Tick
  BY <1>1, <1>4, <1>5
<1> QED  BY <1>6, <1>7 DEF i

\* The fence at the end of a text.
LEMMA FenceAtEnd ==
  ASSUME NEW s \in Seq(Symbol), IsSuffix(Fence, s)
  PROVE  /\ Len(s) - 3 \in 0 .. Len(s)
         /\ \A i \in Len(s) - 2 .. Len(s) : s[i] = Tick
<1> DEFINE r == Reverse(s)
           f == Reverse(Fence)
<1>1. Len(Fence) = 3 /\ Fence[1] = Tick /\ Fence[2] = Tick /\ Fence[3] = Tick
  BY DEF Fence
<1>2. f = [i \in 1 .. 3 |-> Fence[3 - i + 1]]
  BY <1>1 DEF Reverse
<1>3. \A i \in 1 .. 3 : f[i] = Tick
  BY <1>1, <1>2
<1>4. /\ r \in Seq(Symbol) /\ Len(r) = Len(s) /\ Len(s) \in Nat
      /\ \A i \in 1 .. Len(s) : r[i] = s[Len(s) - i + 1]
  BY DEF Reverse
<1>5. f \in Seq({Tick}) /\ Len(f) = 3
  <2>1. f \in [1 .. 3 -> {Tick}]
    BY <1>1, <1>2
  <2> HIDE DEF f
  <2>2. \A n \in Nat : \A g : g \in [1 .. n -> {Tick}] => g \in Seq({Tick}) /\ Len(g) = n
    OBVIOUS
  <2> QED  BY <2>1, <2>2
<1> HIDE DEF r, f
<1>6. Len(r) >= 3 /\ SubSeq(f, 1, 3) = SubSeq(r, 1, 3)
  BY <1>5 DEF IsSuffix, IsPrefix, r, f
<1>7. ASSUME NEW i \in 1 .. 3 PROVE r[i] = Tick
  <2>1. SubSeq(f, 1, 3)[i] = f[i] /\ SubSeq(r, 1, 3)[i] = r[i]
    BY <1>4, <1>5, <1>6
  <2> QED  BY <1>3, <1>6, <2>1
<1>8. ASSUME NEW i \in Len(s) - 2 .. Len(s) PROVE s[i] = Tick
  <2>1. Len(s) - i + 1 \in 1 .. 3 /\ Len(s) - i + 1 \in 1 .. Len(s)
        /\ Len(s) - (Len(s) - i + 1) + 1 = i
    BY <1>4, <1>6
  <2> QED  BY <1>4, <1>7, <2>1
<1> QED  BY <1>4, <1>6, <1>8

-------------------------------------------------------------------------------
(* The detector of tool calls *)

\* The operators of StreamText are the same in both detectors.
LEMMA SameText ==
  /\ Tools!Fence = Fence /\ Tools!NL = NL /\ Tools!Json = Json /\ Tools!Quote = Quote
  /\ \A s, i : Tools!From(s, i) = From(s, i) /\ Tools!Before(s, i) = Before(s, i)
  /\ \A s, w : Tools!Places(s, w) = Places(s, w) /\ Tools!IsSuffix(w, s) = IsSuffix(w, s)
  /\ \A S : Tools!Least(S) = Least(S)
  /\ \A s : Tools!Trim(s) = Trim(s)
  /\ Blocks!Fence = Fence /\ Blocks!NL = NL /\ Blocks!Tick = Tick
  /\ \A s, i : Blocks!From(s, i) = From(s, i) /\ Blocks!Before(s, i) = Before(s, i)
  /\ \A s, w : Blocks!Places(s, w) = Places(s, w)
  /\ \A S : Blocks!Least(S) = Least(S)
  /\ \A s : Blocks!Trim(s) = Trim(s)
<1>1. /\ Tools!Fence = Fence /\ Tools!NL = NL /\ Tools!Json = Json /\ Tools!Quote = Quote
      /\ Blocks!Fence = Fence /\ Blocks!NL = NL /\ Blocks!Tick = Tick
  BY DEF Tools!Fence, Tools!NL, Tools!Json, Tools!Tick, Tools!Quote, Blocks!Fence, Blocks!NL,
         Blocks!Tick, Fence, NL, Json, Tick, Quote
<1>2. /\ \A s, i : Tools!From(s, i) = From(s, i) /\ Tools!Before(s, i) = Before(s, i)
      /\ \A s, i : Blocks!From(s, i) = From(s, i) /\ Blocks!Before(s, i) = Before(s, i)
  BY DEF Tools!From, Tools!Before, Blocks!From, Blocks!Before, From, Before
<1>3. /\ \A s, w : Tools!Places(s, w) = Places(s, w)
      /\ \A s, w : Blocks!Places(s, w) = Places(s, w)
  BY DEF Tools!Places, Blocks!Places, Places
<1>4. \A s, w : Tools!IsSuffix(w, s) = IsSuffix(w, s)
  BY DEF Tools!IsSuffix, Tools!IsPrefix, Tools!Reverse, IsSuffix, IsPrefix, Reverse
<1>5. (\A S : Tools!Least(S) = Least(S)) /\ \A S : Blocks!Least(S) = Least(S)
  BY DEF Tools!Least, Blocks!Least, Least
<1>6. (\A s : Tools!Trim(s) = Trim(s)) /\ \A s : Blocks!Trim(s) = Trim(s)
  BY DEF Tools!Trim, Tools!Least, Tools!NL, Blocks!Trim, Blocks!Least, Blocks!NL, Trim, Least, NL
<1> QED  BY <1>1, <1>2, <1>3, <1>4, <1>5, <1>6

Tracker == [buffer : Seq(Symbol), depth : Int, inString : BOOLEAN, escaped : BOOLEAN]
ToolDetector_ ==
  [state : {"normal", "in_code_fence", "in_raw_json"}, pending : Seq(Symbol),
   buffer : Seq(Symbol), tracker : Tracker, text : Seq(Symbol), calls : Seq(Seq(Symbol)),
   dropped : Seq(Symbol)]

\* A detector in an object has read its opening brace, or is about to.
InObject(t, pending) ==
  t.depth >= 1 \/ (t = Tools!NewTracker /\ pending # <<>> /\ pending[1] = Tools!OpenBrace)
ToolOK(d) ==
  d \in ToolDetector_ /\ (d.state = "in_raw_json" => InObject(d.tracker, d.pending))

\* ToolWeight: how often a character is in what the detector has emitted, keeps and dropped.
Rest(d) ==
  CASE d.state = "in_code_fence" -> d.buffer
    [] d.state = "in_raw_json"   -> d.tracker.buffer
    [] OTHER                     -> <<>>
ToolWeight(c, d) ==
  Count(c, d.text) + Count(c, FlattenSeq(d.calls)) + Count(c, d.pending) + Count(c, Rest(d))
    + Count(c, d.dropped)

\* The parts of the tool detector.
LEMMA ToolParts_ ==
  ASSUME NEW d \in ToolDetector_, NEW c
  PROVE  /\ d.text \in Seq(Symbol) /\ d.pending \in Seq(Symbol) /\ d.dropped \in Seq(Symbol)
         /\ d.buffer \in Seq(Symbol) /\ d.tracker \in Tracker /\ d.tracker.buffer \in Seq(Symbol)
         /\ d.calls \in Seq(Seq(Symbol)) /\ FlattenSeq(d.calls) \in Seq(Symbol)
         /\ Rest(d) \in Seq(Symbol)
         /\ Count(c, d.text) \in Nat /\ Count(c, FlattenSeq(d.calls)) \in Nat
         /\ Count(c, d.pending) \in Nat /\ Count(c, Rest(d)) \in Nat
         /\ Count(c, d.dropped) \in Nat
<1>1. /\ d.text \in Seq(Symbol) /\ d.pending \in Seq(Symbol) /\ d.dropped \in Seq(Symbol)
      /\ d.buffer \in Seq(Symbol) /\ d.tracker \in Tracker /\ d.calls \in Seq(Seq(Symbol))
      /\ <<>> \in Seq(Symbol)
  BY DEF ToolDetector_
<1>2. d.tracker.buffer \in Seq(Symbol) /\ FlattenSeq(d.calls) \in Seq(Symbol)
  BY <1>1, FlattenType DEF Tracker
<1>3. Rest(d) \in Seq(Symbol)
  BY <1>1, <1>2 DEF Rest
<1> QED  BY <1>1, <1>2, <1>3, Sums

\* A call more, and how often a character is in all of them.
LEMMA CallMore ==
  \A c : \A calls \in Seq(Seq(Symbol)), call \in Seq(Symbol) :
    /\ Append(calls, call) \in Seq(Seq(Symbol))
    /\ Count(c, FlattenSeq(Append(calls, call))) = Count(c, FlattenSeq(calls)) + Count(c, call)
<1> SUFFICES ASSUME NEW c, NEW calls \in Seq(Seq(Symbol)), NEW call \in Seq(Symbol)
             PROVE  /\ Append(calls, call) \in Seq(Seq(Symbol))
                    /\ Count(c, FlattenSeq(Append(calls, call)))
                         = Count(c, FlattenSeq(calls)) + Count(c, call)
  OBVIOUS
<1>1. Append(calls, call) \in Seq(Seq(Symbol))
  OBVIOUS
<1>2. FlattenSeq(Append(calls, call)) = FlattenSeq(calls) \o call /\ FlattenSeq(calls) \in Seq(Symbol)
  BY FlattenAppend, FlattenType
<1> QED  BY <1>1, <1>2, Sums

\* The end of the opening fence, after its language and blanks.
LEMMA OpenerEnds ==
  ASSUME NEW s \in Seq(Symbol), Places(s, Fence) # {}, NEW c, Plain(c)
  PROVE  LET i == Least(Places(s, Fence))
         IN  /\ i \in 1 .. Len(s) /\ From(s, Tools!OpenerEnd(s, i)) \in Seq(Symbol)
             /\ Count(c, From(s, i)) = Count(c, From(s, Tools!OpenerEnd(s, i)))
<1> DEFINE i == Least(Places(s, Fence))
           tag == IF i + 3 <= Len(s) /\ s[i + 3] = Tools!Json THEN i + 4 ELSE i + 3
           words == {j \in tag .. Len(s) : s[j] # Tools!NL}
           end == Tools!OpenerEnd(s, i)
<1>1. /\ i \in 1 .. Len(s) /\ i + 2 \in 1 .. Len(s) /\ Len(s) \in Nat
      /\ s[i] = Tick /\ s[i + 1] = Tick /\ s[i + 2] = Tick
  BY FencePlaces
<1> HIDE DEF i
<1>2. end = IF words = {} THEN Len(s) + 1 ELSE Tools!Least(words)
  BY DEF Tools!OpenerEnd, Tools!FirstOr
<1>3. /\ tag \in i + 3 .. Len(s) + 1 /\ \A j \in i + 3 .. tag - 1 : s[j] = Json
  <2>1. Tools!Json = Json
    BY SameText
  <2> QED  BY <1>1, <2>1
<1>4. words \in SUBSET Nat /\ \A j \in words : j \in tag .. Len(s)
  BY <1>1, <1>3
<1>5. \A j \in tag .. Len(s) : j \notin words => s[j] = NL
  BY SameText
<1> HIDE DEF words, tag, end
<1>6. end \in tag .. Len(s) + 1 /\ \A j \in tag .. end - 1 : s[j] = NL
  <2>1. CASE words = {}
    BY <1>1, <1>2, <1>3, <1>5, <2>1
  <2>2. CASE words # {}
    <3>1. end \in words /\ \A j \in words : end <= j
      BY <1>2, <1>4, <2>2, LeastExists, SameText
    <3>2. end \in tag .. Len(s)
      BY <1>4, <3>1
    <3>3. ASSUME NEW j \in tag .. end - 1 PROVE s[j] = NL
      <4>1. j \in tag .. Len(s) /\ j < end
        BY <1>1, <1>3, <3>2
      <4>2. j \notin words
        BY <1>1, <1>3, <3>1, <3>2, <4>1
      <4> QED  BY <1>5, <4>1, <4>2
    <3> QED  BY <1>1, <1>3, <3>2, <3>3
  <2> QED  BY <2>1, <2>2
<1>7. c # Tick /\ c # Json /\ c # NL
  BY DEF Plain
<1>8. ASSUME NEW j \in i .. end - 1 PROVE s[j] # c
  <2>1. j = i \/ j = i + 1 \/ j = i + 2 \/ j \in i + 3 .. tag - 1 \/ j \in tag .. end - 1
    BY <1>1, <1>3, <1>6
  <2> QED  BY <1>1, <1>3, <1>6, <1>7, <2>1
<1>9. end \in i .. Len(s) + 1 /\ i \in 1 .. Len(s) + 1
  BY <1>1, <1>3, <1>6
<1> QED  BY <1>1, <1>8, <1>9, CutOut DEF i, end

\* Text outside of a code fence and of an object is emitted or held back.
LEMMA ToolNormal ==
  ASSUME NEW d \in ToolDetector_, d.state = "normal", NEW c, Plain(c)
  PROVE  LET e == Tools!processNormalState(d)
         IN  ToolOK(e) /\ ToolWeight(c, e) = ToolWeight(c, d)
<1> DEFINE s == d.pending
           e == Tools!processNormalState(d)
           fences == Tools!Places(s, Tools!Fence)
           openers == Tools!RawOpeners(s)
           i == Tools!Least(fences)
           b == Tools!Least(openers)
<1>1. s \in Seq(Symbol) /\ Len(s) \in Nat
  BY ToolParts_
<1>2. Rest(d) = <<>> /\ <<>> \in Seq(Symbol)
  BY DEF Rest
<1>3. ASSUME NEW k \in 1 .. Len(s) + 1, NEW rest \in Seq(Symbol), e \in ToolDetector_,
             Count(c, rest) = Count(c, From(s, k)), e.pending = rest,
             e.text = d.text \o Before(s, k), e.calls = d.calls, e.dropped = d.dropped,
             Rest(e) = <<>>
      PROVE  ToolWeight(c, e) = ToolWeight(c, d)
  <2>1. /\ Before(s, k) \in Seq(Symbol)
        /\ Count(c, s) = Count(c, Before(s, k)) + Count(c, From(s, k))
    BY <1>1, <1>3, CutBefore
  <2>2. Count(c, d.text \o Before(s, k)) = Count(c, d.text) + Count(c, Before(s, k))
    <3>1. d.text \in Seq(Symbol)
      BY ToolParts_
    <3> HIDE DEF s
    <3> QED  BY ONLY <2>1, <3>1, Sums
  <2>3. /\ Count(c, Before(s, k)) \in Nat /\ Count(c, rest) \in Nat
        /\ Count(c, d.text) \in Nat /\ Count(c, FlattenSeq(d.calls)) \in Nat
        /\ Count(c, d.dropped) \in Nat /\ Count(c, <<>>) = 0
    BY <2>1, ToolParts_, Sums
  <2> HIDE DEF s, e
  <2> QED  BY <1>2, <1>3, <2>1, <2>2, <2>3 DEF ToolWeight, s
<1>4. CASE fences # {}
  <2>1. e = [d EXCEPT !.text = @ \o Tools!Before(s, i), !.buffer = <<>>,
                     !.pending = Tools!From(s, Tools!OpenerEnd(s, i)), !.state = "in_code_fence"]
    BY <1>4 DEF Tools!processNormalState
  <2>2. fences = Places(s, Fence) /\ i = Least(Places(s, Fence))
    BY SameText
  <2> DEFINE rest == From(s, Tools!OpenerEnd(s, i))
  <2>3. /\ i \in 1 .. Len(s) /\ rest \in Seq(Symbol)
        /\ Count(c, From(s, i)) = Count(c, rest)
    BY <1>1, <1>4, <2>2, OpenerEnds
  <2>4. e = [d EXCEPT !.text = d.text \o Before(s, i), !.buffer = <<>>,
                     !.pending = rest, !.state = "in_code_fence"]
    BY <2>1, SameText
  <2>5. i \in 1 .. Len(s) + 1
    BY <1>1, <2>3
  <2>6. Before(s, i) \in Seq(Symbol)
    BY <1>1, <2>5, CutBefore
  <2> HIDE DEF rest, s, e, i
  <2>7. d.text \o Before(s, i) \in Seq(Symbol)
    BY <2>6, ToolParts_, Symbols
  <2>8. /\ e \in ToolDetector_ /\ e.pending = rest /\ e.text = d.text \o Before(s, i)
        /\ e.calls = d.calls /\ e.dropped = d.dropped /\ Rest(e) = <<>>
        /\ e.state = "in_code_fence"
    BY <1>2, <2>3, <2>4, <2>7 DEF ToolDetector_, Rest
  <2> QED  BY <1>3, <2>3, <2>5, <2>8 DEF ToolOK, e
<1>5. CASE fences = {} /\ openers # {}
  <2>1. e = [d EXCEPT !.text = @ \o Tools!Before(s, b), !.tracker = Tools!NewTracker,
                     !.pending = Tools!From(s, b), !.state = "in_raw_json"]
    BY <1>5 DEF Tools!processNormalState
  <2>2. b \in openers
    <3>1. openers \in SUBSET Nat
      BY <1>1 DEF Tools!RawOpeners
    <3> QED  BY <1>5, <3>1, LeastExists, SameText
  <2>3. b \in 1 .. Len(s) /\ s[b] = Tools!OpenBrace
    BY <1>1, <2>2 DEF Tools!RawOpeners
  <2>4. b \in 1 .. Len(s) + 1
    BY <1>1, <2>3
  <2>5. /\ Before(s, b) \in Seq(Symbol) /\ From(s, b) \in Seq(Symbol)
        /\ From(s, b) # <<>> /\ From(s, b)[1] = Tools!OpenBrace
    <3>1. Before(s, b) \in Seq(Symbol) /\ From(s, b) \in Seq(Symbol)
      BY <1>1, <2>4, CutBefore
    <3>2. Len(From(s, b)) = Len(s) - b + 1 /\ From(s, b)[1] = s[b]
      BY <1>1, <2>3 DEF From
    <3>3. From(s, b) # <<>>
      BY <1>1, <2>3, <3>1, <3>2
    <3> QED  BY <2>3, <3>1, <3>2, <3>3
  <2>6. e = [d EXCEPT !.text = d.text \o Before(s, b), !.tracker = Tools!NewTracker,
                     !.pending = From(s, b), !.state = "in_raw_json"]
    BY <2>1, SameText
  <2>7. Tools!NewTracker \in Tracker /\ Tools!NewTracker.buffer = <<>>
    BY DEF Tools!NewTracker, Tracker
  <2> HIDE DEF s, e, b
  <2>8. d.text \o Before(s, b) \in Seq(Symbol)
    BY <2>5, ToolParts_, Symbols
  <2>9. /\ e \in ToolDetector_ /\ e.pending = From(s, b) /\ e.text = d.text \o Before(s, b)
        /\ e.calls = d.calls /\ e.dropped = d.dropped /\ Rest(e) = <<>>
        /\ e.tracker = Tools!NewTracker
    BY <1>2, <2>5, <2>6, <2>7, <2>8 DEF ToolDetector_, Rest
  <2> QED  BY <1>3, <2>4, <2>5, <2>9 DEF ToolOK, InObject, e
<1>6. CASE fences = {} /\ openers = {} /\ Len(s) > KeepChars
  <2> DEFINE k == Len(s) - KeepChars + 1
  <2>1. e = [d EXCEPT !.text = @ \o SubSeq(s, 1, Len(s) - KeepChars),
                     !.pending = Tools!From(s, k)]
    BY <1>6 DEF Tools!processNormalState
  <2>2. k \in 1 .. Len(s) + 1 /\ k - 1 = Len(s) - KeepChars
    BY <1>1, <1>6, AnswersAreText
  <2>3. e = [d EXCEPT !.text = d.text \o Before(s, k), !.pending = From(s, k)]
    BY <2>1, <2>2, SameText DEF Before
  <2>4. Before(s, k) \in Seq(Symbol) /\ From(s, k) \in Seq(Symbol)
    BY <1>1, <2>2, CutBefore
  <2> HIDE DEF s, e, k
  <2>5. d.text \o Before(s, k) \in Seq(Symbol)
    BY <2>4, ToolParts_, Symbols
  <2>6. /\ e \in ToolDetector_ /\ e.pending = From(s, k) /\ e.text = d.text \o Before(s, k)
        /\ e.calls = d.calls /\ e.dropped = d.dropped /\ Rest(e) = <<>> /\ e.state = "normal"
    BY <1>2, <2>3, <2>4, <2>5 DEF ToolDetector_, Rest
  <2> QED  BY <1>3, <2>2, <2>4, <2>6 DEF ToolOK, e
<1>7. CASE fences = {} /\ openers = {} /\ ~(Len(s) > KeepChars)
  <2>1. e = d
    BY <1>7 DEF Tools!processNormalState
  <2> QED  BY <2>1 DEF ToolOK
<1> QED  BY <1>4, <1>5, <1>6, <1>7

\* Writing a block out again adds nothing that counts.
LEMMA Written ==
  \A c : Plain(c) =>
    \A text, body \in Seq(Symbol) :
      /\ text \o Fence \o <<NL>> \o body \in Seq(Symbol)
      /\ Count(c, text \o Fence \o <<NL>> \o body) = Count(c, text) + Count(c, body)
      /\ text \o Fence \o <<NL>> \o body \o Fence \in Seq(Symbol)
      /\ Count(c, text \o Fence \o <<NL>> \o body \o Fence) = Count(c, text) + Count(c, body)
<1> SUFFICES ASSUME NEW c, Plain(c), NEW text \in Seq(Symbol), NEW body \in Seq(Symbol)
             PROVE  /\ text \o Fence \o <<NL>> \o body \in Seq(Symbol)
                    /\ Count(c, text \o Fence \o <<NL>> \o body) = Count(c, text) + Count(c, body)
                    /\ text \o Fence \o <<NL>> \o body \o Fence \in Seq(Symbol)
                    /\ Count(c, text \o Fence \o <<NL>> \o body \o Fence)
                         = Count(c, text) + Count(c, body)
  OBVIOUS
<1>1. PICK f \in Seq(Symbol), n \in Seq(Symbol) :
        f = Fence /\ n = <<NL>> /\ Count(c, f) = 0 /\ Count(c, n) = 0
  BY SymbolsThatAreWritten
<1>2. PICK t1 \in Seq(Symbol) : t1 = text \o f
  BY Symbols
<1>3. PICK t2 \in Seq(Symbol) : t2 = t1 \o n
  BY Symbols
<1>4. PICK t3 \in Seq(Symbol) : t3 = t2 \o body
  BY Symbols
<1>5. PICK t4 \in Seq(Symbol) : t4 = t3 \o f
  BY Symbols
<1>6. /\ Count(c, t1) = Count(c, text) + Count(c, f) /\ Count(c, t2) = Count(c, t1) + Count(c, n)
      /\ Count(c, t3) = Count(c, t2) + Count(c, body) /\ Count(c, t4) = Count(c, t3) + Count(c, f)
  <2>1. /\ Count(c, text \o f) = Count(c, text) + Count(c, f)
        /\ Count(c, t1 \o n) = Count(c, t1) + Count(c, n)
        /\ Count(c, t2 \o body) = Count(c, t2) + Count(c, body)
        /\ Count(c, t3 \o f) = Count(c, t3) + Count(c, f)
    <3> HIDE <1>2, <1>3, <1>4, <1>5
    <3>1. Count(c, text \o f) = Count(c, text) + Count(c, f)
      BY Sums, Zenon
    <3>2. Count(c, t1 \o n) = Count(c, t1) + Count(c, n)
      BY Sums, Zenon
    <3>3. Count(c, t2 \o body) = Count(c, t2) + Count(c, body)
      BY Sums, Zenon
    <3>4. Count(c, t3 \o f) = Count(c, t3) + Count(c, f)
      BY Sums, Zenon
    <3> QED  BY ONLY <3>1, <3>2, <3>3, <3>4
  <2> QED  BY ONLY <1>2, <1>3, <1>4, <1>5, <2>1
<1>7. Count(c, text) \in Nat /\ Count(c, body) \in Nat
  BY Sums
<1>8. Count(c, t3) = Count(c, text) + Count(c, body) /\ Count(c, t4) = Count(c, text) + Count(c, body)
  BY ONLY <1>1, <1>6, <1>7
<1> QED  BY ONLY <1>1, <1>2, <1>3, <1>4, <1>5, <1>8

\* The first character is left out, which is not counted.
LEMMA CountTail ==
  ASSUME NEW s \in Seq(Symbol), s # <<>>, NEW c, s[1] # c
  PROVE  Tail(s) \in Seq(Symbol) /\ Count(c, Tail(s)) = Count(c, s)
<1>1. /\ Tail(s) = From(s, 2) /\ s = From(s, 1)
      /\ 1 \in 1 .. Len(s) + 1 /\ 2 \in 1 .. Len(s) + 1
  BY DEF From
<1>2. \A i \in 1 .. 2 - 1 : s[i] # c
  OBVIOUS
<1>3. From(s, 2) \in Seq(Symbol) /\ Count(c, From(s, 1)) = Count(c, From(s, 2))
  BY <1>1, <1>2, CutOut
<1> QED  BY ONLY <1>1, <1>3

\* A code fence that closes is a call, or text again.
LEMMA ToolFenceEnds ==
  ASSUME NEW d \in ToolDetector_, d.state = "in_code_fence", NEW c, Plain(c)
  PROVE  LET e == Tools!completeCodeFence(d)
         IN  ToolOK(e) /\ ToolWeight(c, e) = ToolWeight(c, d)
<1> DEFINE e == Tools!completeCodeFence(d)
           body == IF d.buffer # <<>> /\ d.buffer[1] = Tools!Json THEN Tail(d.buffer) ELSE d.buffer
           call == Tools!Trim(body)
           shown == d.text \o Fence \o <<NL>> \o body \o Fence
<1>1. body \in Seq(Symbol) /\ Count(c, body) = Count(c, d.buffer)
  <2>1. d.buffer \in Seq(Symbol) /\ Tools!Json # c
    BY ToolParts_, SameText DEF Plain
  <2> QED  BY <2>1, CountTail
<1>2. IF Tools!IsToolCall(call)
      THEN e = [d EXCEPT !.state = "normal", !.buffer = <<>>, !.calls = Append(d.calls, call)]
      ELSE e = [d EXCEPT !.state = "normal", !.buffer = <<>>, !.text = shown]
  BY SameText DEF Tools!completeCodeFence, ToolDetector_
<1>3. Rest(d) = d.buffer /\ <<>> \in Seq(Symbol) /\ Count(c, <<>>) = 0
  BY Sums DEF Rest
<1>4. call \in Seq(Symbol) /\ Count(c, call) = Count(c, body)
  <2>1. c # NL
    BY DEF Plain
  <2> HIDE DEF body
  <2> QED  BY <1>1, <2>1, CountTrim, SameText
<1>5. /\ Append(d.calls, call) \in Seq(Seq(Symbol))
      /\ Count(c, FlattenSeq(Append(d.calls, call))) = Count(c, FlattenSeq(d.calls)) + Count(c, call)
  <2> HIDE DEF call
  <2> QED  BY <1>4, CallMore, ToolParts_
<1>6. shown \in Seq(Symbol) /\ Count(c, shown) = Count(c, d.text) + Count(c, body)
  <2> HIDE DEF body
  <2> QED  BY <1>1, Written, ToolParts_, ZenonT(60)
<1>7. /\ Count(c, d.text) \in Nat /\ Count(c, FlattenSeq(d.calls)) \in Nat
      /\ Count(c, d.pending) \in Nat /\ Count(c, d.buffer) \in Nat /\ Count(c, d.dropped) \in Nat
  BY <1>3, ToolParts_
<1> HIDE DEF e, body, call, shown
<1>8. CASE Tools!IsToolCall(call)
  <2>1. /\ e \in ToolDetector_ /\ e.state = "normal" /\ e.text = d.text /\ e.pending = d.pending
        /\ e.calls = Append(d.calls, call) /\ e.dropped = d.dropped /\ Rest(e) = <<>>
    BY <1>2, <1>3, <1>5, <1>8 DEF ToolDetector_, Rest
  <2>2. ToolWeight(c, e) = ToolWeight(c, d)
    BY <1>1, <1>3, <1>4, <1>5, <1>7, <2>1 DEF ToolWeight
  <2> QED  BY <2>1, <2>2 DEF ToolOK, e
<1>9. CASE ~Tools!IsToolCall(call)
  <2>1. /\ e \in ToolDetector_ /\ e.state = "normal" /\ e.text = shown /\ e.pending = d.pending
        /\ e.calls = d.calls /\ e.dropped = d.dropped /\ Rest(e) = <<>>
    BY <1>2, <1>3, <1>6, <1>9 DEF ToolDetector_, Rest
  <2>2. ToolWeight(c, e) = ToolWeight(c, d)
    BY <1>1, <1>3, <1>6, <1>7, <2>1 DEF ToolWeight
  <2> QED  BY <2>1, <2>2 DEF ToolOK, e
<1> QED  BY <1>8, <1>9

\* Text in a code fence is collected up to the closing fence.
LEMMA ToolFence ==
  ASSUME NEW d \in ToolDetector_, d.state = "in_code_fence", NEW c, Plain(c)
  PROVE  LET e == Tools!processCodeFenceState(d)
         IN  ToolOK(e) /\ ToolWeight(c, e) = ToolWeight(c, d)
<1> DEFINE e == Tools!processCodeFenceState(d)
           s == d.pending
           ends == Places(s, Fence)
           i == Least(ends)
           all == d.buffer \o s
           With(b, p) == [d EXCEPT !.buffer = b, !.pending = p]
<1>1. d.buffer \in Seq(Symbol) /\ s \in Seq(Symbol) /\ <<>> \in Seq(Symbol) /\ Count(c, <<>>) = 0
  BY ToolParts_, Sums
<1>2. ASSUME NEW b \in Seq(Symbol), NEW p \in Seq(Symbol),
             Count(c, b) + Count(c, p) = Count(c, d.buffer) + Count(c, s)
      PROVE  /\ With(b, p) \in ToolDetector_ /\ With(b, p).state = "in_code_fence"
             /\ ToolWeight(c, With(b, p)) = ToolWeight(c, d)
  <2> DEFINE w == With(b, p)
  <2>1. /\ w \in ToolDetector_ /\ w.state = "in_code_fence" /\ w.buffer = b /\ w.pending = p
        /\ w.text = d.text /\ w.calls = d.calls /\ w.dropped = d.dropped
    BY DEF ToolDetector_
  <2> HIDE DEF w
  <2>2. Rest(d) = d.buffer /\ Rest(w) = b
    BY <2>1 DEF Rest
  <2>3. /\ Count(c, d.text) \in Nat /\ Count(c, FlattenSeq(d.calls)) \in Nat
        /\ Count(c, d.dropped) \in Nat /\ Count(c, s) \in Nat /\ Count(c, d.buffer) \in Nat
        /\ Count(c, b) \in Nat /\ Count(c, p) \in Nat
    BY <2>2, ToolParts_, Sums
  <2>4. /\ Count(c, w.text) = Count(c, d.text) /\ Count(c, w.dropped) = Count(c, d.dropped)
        /\ Count(c, FlattenSeq(w.calls)) = Count(c, FlattenSeq(d.calls))
        /\ Count(c, w.pending) = Count(c, p) /\ Count(c, Rest(w)) = Count(c, b)
        /\ Count(c, Rest(d)) = Count(c, d.buffer)
    BY ONLY <2>1, <2>2
  <2>5. ToolWeight(c, w) = ToolWeight(c, d)
    <3>1. \A t, f, r, x, y, x1, y1 \in Nat : x + y = x1 + y1 => t + f + y + x + r = t + f + y1 + x1 + r
      OBVIOUS
    <3>2. Count(c, d.text) + Count(c, FlattenSeq(d.calls)) + Count(c, p) + Count(c, b)
            + Count(c, d.dropped)
            = Count(c, d.text) + Count(c, FlattenSeq(d.calls)) + Count(c, s) + Count(c, d.buffer)
                + Count(c, d.dropped)
      <4>1. PICK t \in Nat, f \in Nat, r \in Nat, x \in Nat, y \in Nat, x1 \in Nat, y1 \in Nat :
              /\ t = Count(c, d.text) /\ f = Count(c, FlattenSeq(d.calls))
              /\ r = Count(c, d.dropped) /\ x = Count(c, b) /\ y = Count(c, p)
              /\ x1 = Count(c, d.buffer) /\ y1 = Count(c, s)
        BY ONLY <2>3, Zenon
      <4>2. x + y = x1 + y1
        BY ONLY <1>2, <4>1
      <4>3. t + f + y + x + r = t + f + y1 + x1 + r
        BY ONLY <3>1, <4>2
      <4> QED  BY ONLY <4>1, <4>3
    <3> QED  BY ONLY <2>4, <3>2 DEF ToolWeight, s
  <2> QED  BY <2>1, <2>5 DEF w
<1>3. ASSUME NEW b \in Seq(Symbol), NEW p \in Seq(Symbol), e = Tools!completeCodeFence(With(b, p)),
             Count(c, b) + Count(c, p) = Count(c, d.buffer) + Count(c, s)
      PROVE  ToolOK(e) /\ ToolWeight(c, e) = ToolWeight(c, d)
  <2> HIDE DEF e, s, With
  <2> QED  BY <1>2, <1>3, ToolFenceEnds
<1>4. CASE ends # {}
  <2>1. e = Tools!completeCodeFence(With(d.buffer \o Before(s, i), From(s, i + 3)))
    BY <1>4, SameText DEF Tools!processCodeFenceState
  <2>2. /\ i \in 1 .. Len(s) /\ i + 2 \in 1 .. Len(s) /\ Len(s) \in Nat
        /\ s[i] = Tick /\ s[i + 1] = Tick /\ s[i + 2] = Tick
    BY <1>1, <1>4, FencePlaces
  <2> HIDE DEF i, e, With, s
  <2>3. i \in 1 .. Len(s) + 1 /\ i + 3 \in i .. Len(s) + 1
    BY <2>2
  <2>4. \A j \in i .. (i + 3) - 1 : s[j] # c
    <3>1. \A j \in i .. (i + 3) - 1 : j = i \/ j = i + 1 \/ j = i + 2
      BY <2>2
    <3> QED  BY <2>2, <3>1 DEF Plain
  <2>5. From(s, i + 3) \in Seq(Symbol) /\ Count(c, From(s, i)) = Count(c, From(s, i + 3))
    BY <1>1, <2>3, <2>4, CutOut
  <2>6. Before(s, i) \in Seq(Symbol) /\ Count(c, s) = Count(c, Before(s, i)) + Count(c, From(s, i))
    BY <1>1, <2>3, CutBefore
  <2>7. PICK x \in Seq(Symbol), y \in Seq(Symbol) : x = Before(s, i) /\ y = From(s, i + 3)
    BY <2>5, <2>6
  <2>8. d.buffer \o x \in Seq(Symbol) /\ Count(c, d.buffer \o x) = Count(c, d.buffer) + Count(c, x)
    BY ONLY <1>1, Sums, Symbols, x \in Seq(Symbol)
  <2>9. /\ Count(c, d.buffer) \in Nat /\ Count(c, x) \in Nat /\ Count(c, y) \in Nat
    BY <1>1, Sums
  <2>10. Count(c, d.buffer \o x) + Count(c, y) = Count(c, d.buffer) + Count(c, s)
    BY ONLY <2>5, <2>6, <2>7, <2>8, <2>9
  <2>11. PICK b \in Seq(Symbol) : b = d.buffer \o x
    BY <2>8
  <2>12. e = Tools!completeCodeFence(With(b, y))
    BY ONLY <2>1, <2>7, <2>11
  <2>13. Count(c, b) + Count(c, y) = Count(c, d.buffer) + Count(c, s)
    BY ONLY <2>10, <2>11
  <2> QED  BY <1>3, <2>12, <2>13 DEF e
<1>5. all \in Seq(Symbol) /\ Count(c, all) = Count(c, d.buffer) + Count(c, s)
  <2> HIDE DEF s
  <2> QED  BY <1>1, Sums, Symbols
<1>6. CASE ends = {} /\ IsSuffix(Fence, all)
  <2> DEFINE b == SubSeq(all, 1, Len(all) - 3)
  <2>1. e = Tools!completeCodeFence(With(b, <<>>))
    BY <1>6, SameText DEF Tools!processCodeFenceState
  <2> HIDE DEF all, e, With, s
  <2>2. /\ Len(all) - 3 \in 0 .. Len(all) /\ Len(all) \in Nat
        /\ \A j \in Len(all) - 2 .. Len(all) : all[j] = Tick
    BY <1>5, <1>6, FenceAtEnd
  <2> DEFINE k == Len(all) - 2
  <2>3. k \in 1 .. Len(all) + 1 /\ Len(all) + 1 \in k .. Len(all) + 1 /\ k - 1 = Len(all) - 3
    BY <2>2
  <2>4. \A j \in k .. (Len(all) + 1) - 1 : all[j] # c
    BY <2>2 DEF Plain
  <2> HIDE DEF k
  <2>5. b = Before(all, k)
    BY <2>3 DEF Before
  <2>6. From(all, Len(all) + 1) = <<>>
    BY <1>5, <2>2 DEF From
  <2>7. Count(c, From(all, k)) = 0
    BY <1>1, <1>5, <2>3, <2>4, <2>6, CutOut
  <2>8. b \in Seq(Symbol) /\ Count(c, all) = Count(c, b) + 0
    BY <1>5, <2>3, <2>5, <2>7, CutBefore
  <2> HIDE DEF b
  <2>9. Count(c, b) + Count(c, <<>>) = Count(c, d.buffer) + Count(c, s)
    BY <1>1, <1>5, <2>8
  <2>10. PICK p \in Seq(Symbol) : p = <<>>
    BY <1>1
  <2>11. e = Tools!completeCodeFence(With(b, p)) /\ b \in Seq(Symbol)
         /\ Count(c, b) + Count(c, p) = Count(c, d.buffer) + Count(c, s)
    BY ONLY <2>1, <2>8, <2>9, <2>10
  <2> QED  BY <1>3, <2>11 DEF e
<1>7. CASE ends = {} /\ ~IsSuffix(Fence, all)
  <2>1. e = With(all, <<>>)
    BY <1>7, SameText DEF Tools!processCodeFenceState
  <2> HIDE DEF all, With, s
  <2>2. Count(c, all) + Count(c, <<>>) = Count(c, d.buffer) + Count(c, s)
    <3>1. Count(c, all) \in Nat
      BY <1>5, Sums
    <3> QED  BY <1>1, <1>5, <3>1
  <2>3. e \in ToolDetector_ /\ e.state = "in_code_fence" /\ ToolWeight(c, e) = ToolWeight(c, d)
    <3>1. PICK b \in Seq(Symbol), p \in Seq(Symbol) : b = all /\ p = <<>>
      BY <1>1, <1>5
    <3>2. e = With(b, p) /\ Count(c, b) + Count(c, p) = Count(c, d.buffer) + Count(c, s)
      BY ONLY <2>1, <2>2, <3>1
    <3> HIDE DEF e
    <3> QED  BY <1>2, <3>2
  <2> QED  BY <2>3 DEF ToolOK
<1> QED  BY <1>4, <1>6, <1>7

\* A character is kept, or nothing changes outside of any object; an object that is open
\* stays open until a brace outside of its strings closes it.
LEMMA TrackerStep ==
  ASSUME NEW t \in Tracker, NEW ch \in Symbol
  PROVE  LET u == Tools!TrackChar(t, ch)
         IN  /\ u \in Tracker
             /\ (u = t /\ t.depth < 1) \/ (u # t /\ u.buffer = Append(t.buffer, ch))
             /\ t.depth >= 1 =>
                  u.depth >= 1 \/ (u.depth = 0 /\ ~t.inString /\ ch = Tools!CloseBrace)
<1> DEFINE u == Tools!TrackChar(t, ch)
           longer == Append(t.buffer, ch)
<1>1. /\ t.buffer \in Seq(Symbol) /\ t.depth \in Int /\ t.inString \in BOOLEAN
      /\ t.escaped \in BOOLEAN
  BY DEF Tracker
<1>2. longer \in Seq(Symbol) /\ longer # t.buffer
  BY <1>1
<1>3. (t.escaped \/ ch # Tools!Quote) \in BOOLEAN /\ (~t.escaped /\ ch = Tools!Backslash) \in BOOLEAN
  OBVIOUS
<1> HIDE DEF longer
<1>4. CASE t.inString
  <2>1. u = [t EXCEPT !.buffer = longer, !.escaped = ~t.escaped /\ ch = Tools!Backslash,
                      !.inString = t.escaped \/ ch # Tools!Quote]
    BY <1>4 DEF Tools!TrackChar, longer
  <2> HIDE DEF u
  <2>2. u \in Tracker /\ u.buffer = longer /\ u.depth = t.depth
    BY <1>2, <1>3, <2>1 DEF Tracker
  <2> QED  BY <1>2, <2>2 DEF u, longer
<1>5. CASE ~t.inString
  <2>1. \/ u = [t EXCEPT !.buffer = longer, !.inString = TRUE, !.escaped = FALSE]
        \/ u = [t EXCEPT !.buffer = longer, !.depth = t.depth + 1]
        \/ u = [t EXCEPT !.buffer = longer, !.depth = t.depth - 1] /\ ch = Tools!CloseBrace
        \/ u = [t EXCEPT !.buffer = longer]
        \/ u = t /\ ~(t.depth > 0)
    BY <1>5 DEF Tools!TrackChar, longer
  <2> HIDE DEF u
  <2>2. \/ u \in Tracker /\ u.buffer = longer /\ u.depth = t.depth
        \/ u \in Tracker /\ u.buffer = longer /\ u.depth = t.depth + 1
        \/ u \in Tracker /\ u.buffer = longer /\ u.depth = t.depth - 1 /\ ch = Tools!CloseBrace
        \/ u = t /\ ~(t.depth > 0)
    <3>1. /\ t.depth + 1 \in Int /\ t.depth - 1 \in Int /\ TRUE \in BOOLEAN /\ FALSE \in BOOLEAN
      BY <1>1
    <3>2. ASSUME u = [t EXCEPT !.buffer = longer, !.inString = TRUE, !.escaped = FALSE]
          PROVE  u \in Tracker /\ u.buffer = longer /\ u.depth = t.depth
      BY <1>2, <3>2 DEF Tracker
    <3>3. ASSUME NEW k \in Int, u = [t EXCEPT !.buffer = longer, !.depth = k]
          PROVE  u \in Tracker /\ u.buffer = longer /\ u.depth = k
      BY <1>2, <3>3 DEF Tracker
    <3>4. ASSUME u = [t EXCEPT !.buffer = longer]
          PROVE  u \in Tracker /\ u.buffer = longer /\ u.depth = t.depth
      BY <1>2, <3>4 DEF Tracker
    <3> QED  BY <2>1, <3>1, <3>2, <3>3, <3>4
  <2> QED  BY <1>1, <1>2, <1>5, <2>2 DEF u, longer
<1> QED  BY <1>4, <1>5

\* The brace that starts an object opens it.
LEMMA TrackerStarts ==
  LET u == Tools!TrackChar(Tools!NewTracker, Tools!OpenBrace)
  IN  u # Tools!NewTracker /\ u.depth = 1 /\ Tools!OpenBrace # Tools!CloseBrace
<1>1. Tools!OpenBrace # Tools!Quote /\ Tools!OpenBrace # Tools!CloseBrace
  BY DEF Tools!OpenBrace, Tools!CloseBrace, Tools!Quote
<1>2. Tools!NewTracker.depth = 0 /\ ~Tools!NewTracker.inString
  BY DEF Tools!NewTracker
<1>3. Tools!TrackChar(Tools!NewTracker, Tools!OpenBrace)
        = [Tools!NewTracker EXCEPT !.buffer = Append(@, Tools!OpenBrace), !.depth = @ + 1]
  BY <1>1, <1>2 DEF Tools!TrackChar
<1>4. Tools!TrackChar(Tools!NewTracker, Tools!OpenBrace).depth = 1
  <2>1. \A t \in Tracker : \A x : [t EXCEPT !.buffer = x, !.depth = @ + 1].depth = t.depth + 1
    BY DEF Tracker
  <2>2. Tools!NewTracker \in Tracker
    BY DEF Tools!NewTracker, Tracker
  <2>3. 0 + 1 = 1
    OBVIOUS
  <2> QED  BY ONLY <1>2, <1>3, <2>1, <2>2, <2>3
<1> QED  BY <1>1, <1>2, <1>4

\* A sequence that something was appended to is not empty.
LEMMA Appended ==
  ASSUME NEW U, NEW xs \in Seq(U), NEW x \in U
  PROVE  Append(xs, x) # <<>>
<1>1. Len(Append(xs, x)) = Len(xs) + 1 /\ Len(xs) \in Nat
  OBVIOUS
<1>2. Len(<<>>) = 0
  OBVIOUS
<1> QED  BY <1>1, <1>2

\* The empty text.
LEMMA EmptyText == <<>> \in Seq(Symbol) /\ <<>> \in Seq(Seq(Symbol))
OBVIOUS

\* FedOK: what the first n characters of a chunk made of a tracker.  Until an object is
\* complete none of them is skipped, and the object stays open.
Fed ==
  [tracker : Tracker, results : Seq(Seq(Symbol)), last : Nat, skipped : Seq(Symbol),
   between : Seq(Symbol)]
Results(c, f) == Count(c, FlattenSeq(f.results))
FedOK(c, t0, chunk, n, f) ==
  /\ f \in Fed /\ f.last \in 0 .. n
  /\ f.results = <<>> =>
       /\ f.last = 0 /\ f.skipped = <<>>
       /\ f.tracker.depth >= 1 \/ (n = 0 /\ f.tracker = t0)
  /\ f.results # <<>> =>
       /\ f.last >= 1
       /\ Count(c, t0.buffer) + Count(c, Before(chunk, f.last + 1))
            = Results(c, f) + Count(c, f.between)
  /\ Count(c, t0.buffer) + Count(c, Before(chunk, n + 1))
       = Count(c, f.tracker.buffer) + Results(c, f) + Count(c, f.skipped)

\* One character is fed to the tracker.
LEMMA FedStep ==
  ASSUME NEW c, NEW t0 \in Tracker, NEW chunk \in Seq(Symbol), InObject(t0, chunk),
         NEW n \in 1 .. Len(chunk), NEW f, FedOK(c, t0, chunk, n - 1, f)
  PROVE  FedOK(c, t0, chunk, n, Tools!FeedChar(f, chunk, n))
<1> DEFINE ch == chunk[n]
           t == f.tracker
           u == Tools!TrackChar(t, ch)
           complete == ~t.inString /\ ch = Tools!CloseBrace /\ u.depth = 0
           skipped == IF u = t THEN Append(f.skipped, ch) ELSE f.skipped
           one == IF ch = c THEN 1 ELSE 0
           g == Tools!FeedChar(f, chunk, n)
<1>1. /\ ch \in Symbol /\ one \in Nat /\ n \in Nat /\ n - 1 \in Nat /\ Len(chunk) \in Nat
  OBVIOUS
<1>2. /\ f \in Fed /\ t \in Tracker /\ t.buffer \in Seq(Symbol) /\ f.skipped \in Seq(Symbol)
      /\ f.results \in Seq(Seq(Symbol)) /\ FlattenSeq(f.results) \in Seq(Symbol)
      /\ f.between \in Seq(Symbol) /\ f.last \in Nat /\ f.last <= n - 1
  <2>1. f \in Fed /\ f.last \in 0 .. n - 1
    BY DEF FedOK
  <2>2. f.tracker \in Tracker /\ f.results \in Seq(Seq(Symbol))
    BY <2>1 DEF Fed
  <2> QED  BY <1>1, <2>1, <2>2, FlattenType DEF Fed, Tracker
<1>3. /\ u \in Tracker
      /\ (u = t /\ t.depth < 1) \/ (u # t /\ u.buffer = Append(t.buffer, ch))
      /\ t.depth >= 1 => u.depth >= 1 \/ complete
  <2> HIDE DEF t, ch
  <2> QED  BY <1>1, <1>2, TrackerStep
<1>4. u.buffer \in Seq(Symbol) /\ skipped \in Seq(Symbol)
  BY <1>1, <1>2, <1>3 DEF Tracker
<1>5. Count(c, Before(chunk, n + 1)) = Count(c, Before(chunk, n)) + one
      /\ Before(chunk, n) \in Seq(Symbol) /\ Before(chunk, n + 1) \in Seq(Symbol)
  <2>1. Before(chunk, n) \in Seq(Symbol) /\ Before(chunk, n + 1) = Append(Before(chunk, n), ch)
    BY <1>1 DEF Before
  <2>2. Append(Before(chunk, n), ch) \in Seq(Symbol)
    BY <1>1, <2>1
  <2>3. Count(c, Append(Before(chunk, n), ch)) = Count(c, Before(chunk, n)) + one
    <3> HIDE DEF ch
    <3> QED  BY ONLY <1>1, <2>1, Sums DEF one
  <2> QED  BY ONLY <2>1, <2>2, <2>3
<1>6. g = IF complete
          THEN [tracker |-> [u EXCEPT !.buffer = <<>>], results |-> Append(f.results, u.buffer),
                last |-> n, skipped |-> skipped, between |-> skipped]
          ELSE [f EXCEPT !.tracker = u, !.skipped = skipped]
  BY DEF Tools!FeedChar
<1>7. Count(c, u.buffer) + Count(c, skipped) = Count(c, t.buffer) + Count(c, f.skipped) + one
  <2>1. Count(c, Append(t.buffer, ch)) = Count(c, t.buffer) + one
        /\ Count(c, Append(f.skipped, ch)) = Count(c, f.skipped) + one
    <3> HIDE DEF t, ch
    <3> QED  BY <1>1, <1>2, Sums
  <2>2. Count(c, t.buffer) \in Nat /\ Count(c, f.skipped) \in Nat
    BY <1>2, Sums
  <2> HIDE DEF u, one, skipped, t, ch
  <2>3. PICK a \in Nat, b \in Nat, k \in Nat :
          a = Count(c, t.buffer) /\ b = Count(c, f.skipped) /\ k = one
    BY ONLY <1>1, <2>2, Zenon
  <2>4. \/ Count(c, u.buffer) = a /\ Count(c, skipped) = b + k
        \/ Count(c, u.buffer) = a + k /\ Count(c, skipped) = b
    BY ONLY <1>3, <2>1, <2>3 DEF skipped
  <2>5. a + (b + k) = a + b + k /\ (a + k) + b = a + b + k
    OBVIOUS
  <2> QED  BY ONLY <2>3, <2>4, <2>5
<1>8. /\ Count(c, t0.buffer) \in Nat /\ Count(c, Before(chunk, n)) \in Nat
      /\ Count(c, t.buffer) \in Nat /\ Results(c, f) \in Nat /\ Count(c, f.skipped) \in Nat
      /\ Count(c, u.buffer) \in Nat /\ Count(c, skipped) \in Nat
  <2>1. t0.buffer \in Seq(Symbol)
    BY DEF Tracker
  <2> HIDE DEF t, u, skipped
  <2> QED  BY <1>2, <1>4, <1>5, <2>1, Sums DEF Results
<1>9. Count(c, t0.buffer) + Count(c, Before(chunk, n + 1))
        = Count(c, u.buffer) + Results(c, f) + Count(c, skipped)
  <2>1. (n - 1) + 1 = n
    BY <1>1
  <2>2. Count(c, t0.buffer) + Count(c, Before(chunk, n))
          = Count(c, t.buffer) + Results(c, f) + Count(c, f.skipped)
    BY <2>1 DEF FedOK
  <2> HIDE DEF t, u, skipped, one
  <2>3. PICK p \in Nat, q \in Nat, a \in Nat, r \in Nat, b \in Nat, a1 \in Nat, b1 \in Nat,
             k \in Nat :
          /\ p = Count(c, t0.buffer) /\ q = Count(c, Before(chunk, n)) /\ a = Count(c, t.buffer)
          /\ r = Results(c, f) /\ b = Count(c, f.skipped) /\ a1 = Count(c, u.buffer)
          /\ b1 = Count(c, skipped) /\ k = one
    BY ONLY <1>1, <1>8, Zenon
  <2>4. a1 + b1 = a + b + k /\ p + q = a + r + b
    BY ONLY <1>7, <2>2, <2>3
  <2>5. p + (q + k) = a1 + r + b1
    BY <2>4
  <2> QED  BY ONLY <1>5, <2>3, <2>5
<1>10. f.results = <<>> => u # t /\ skipped = <<>> /\ (u.depth >= 1 \/ complete)
  <2> SUFFICES ASSUME f.results = <<>>
               PROVE  u # t /\ skipped = <<>> /\ (u.depth >= 1 \/ complete)
    OBVIOUS
  <2>1. f.skipped = <<>> /\ (t.depth >= 1 \/ (n = 1 /\ t = t0))
    BY <1>1 DEF FedOK
  <2>2. CASE t.depth >= 1
    <3>1. ~(t.depth < 1)
      BY <1>2, <2>2 DEF Tracker
    <3> HIDE DEF u, t, complete
    <3> QED  BY <1>3, <2>1, <2>2, <3>1
  <2>3. CASE ~(t.depth >= 1)
    <3>1. n = 1 /\ t = Tools!NewTracker /\ ch = Tools!OpenBrace
      BY <2>1, <2>3 DEF InObject
    <3>2. u # t /\ u.depth = 1
      BY <3>1, TrackerStarts
    <3> HIDE DEF u, t, complete
    <3> QED  BY <2>1, <3>2
  <2> QED  BY <2>2, <2>3
<1> HIDE DEF ch, t, u, skipped, one, g
<1>11. CASE complete
  <2>1. /\ g.results = Append(f.results, u.buffer) /\ g.last = n /\ g.skipped = skipped
        /\ g.between = skipped /\ g.tracker = [u EXCEPT !.buffer = <<>>]
        /\ g = [tracker |-> g.tracker, results |-> g.results, last |-> g.last,
                skipped |-> g.skipped, between |-> g.between]
    BY <1>6, <1>11
  <2>2. g.tracker \in Tracker /\ g.tracker.buffer = <<>>
    BY <1>3, <2>1, EmptyText DEF Tracker
  <2>3. /\ g.results \in Seq(Seq(Symbol)) /\ g.results # <<>>
        /\ Results(c, g) = Results(c, f) + Count(c, u.buffer)
    <3>1. PICK calls \in Seq(Seq(Symbol)), call \in Seq(Symbol) : calls = f.results /\ call = u.buffer
      BY <1>2, <1>4
    <3>2. Append(calls, call) # <<>>
      BY Appended
    <3>3. /\ Append(calls, call) \in Seq(Seq(Symbol))
          /\ Count(c, FlattenSeq(Append(calls, call))) = Count(c, FlattenSeq(calls)) + Count(c, call)
      BY CallMore
    <3> QED  BY ONLY <2>1, <3>1, <3>2, <3>3 DEF Results
  <2>4. g \in Fed /\ g.last \in 0 .. n
    <3>1. n \in Nat /\ n \in 0 .. n
      BY <1>1
    <3> QED  BY ONLY <1>4, <2>1, <2>2, <2>3, <3>1 DEF Fed
  <2>5. Count(c, g.tracker.buffer) = 0
    BY <2>2, Sums
  <2>6. Count(c, t0.buffer) + Count(c, Before(chunk, n + 1)) = Results(c, g) + Count(c, skipped)
    BY <1>8, <1>9, <2>3
  <2>7. Count(c, t0.buffer) + Count(c, Before(chunk, n + 1))
          = Count(c, g.tracker.buffer) + Results(c, g) + Count(c, skipped)
    BY <1>8, <2>3, <2>5, <2>6
  <2> QED  BY <1>1, <2>1, <2>3, <2>4, <2>6, <2>7 DEF FedOK, g
<1>12. CASE ~complete
  <2>1. /\ g.results = f.results /\ g.last = f.last /\ g.skipped = skipped
        /\ g.between = f.between /\ g.tracker = u /\ g \in Fed
    BY <1>2, <1>3, <1>4, <1>6, <1>12 DEF Fed
  <2>2. Results(c, g) = Results(c, f)
    BY <2>1 DEF Results
  <2>3. g.last \in 0 .. n
    BY <1>1, <1>2, <2>1
  <2>4. g.results = <<>> => g.last = 0 /\ g.skipped = <<>> /\ g.tracker.depth >= 1
    BY <1>10, <1>12, <2>1 DEF FedOK
  <2>5. g.results # <<>> =>
          /\ g.last >= 1
          /\ Count(c, t0.buffer) + Count(c, Before(chunk, g.last + 1))
               = Results(c, g) + Count(c, g.between)
    BY <2>1, <2>2 DEF FedOK
  <2>6. Count(c, t0.buffer) + Count(c, Before(chunk, n + 1))
          = Count(c, g.tracker.buffer) + Results(c, g) + Count(c, g.skipped)
    BY <1>9, <2>1, <2>2
  <2> QED  BY <2>1, <2>3, <2>4, <2>5, <2>6 DEF FedOK, g
<1> QED  BY <1>11, <1>12

\* The tracker stays a tracker.
LEMMA FedType ==
  ASSUME NEW chunk \in Seq(Symbol), NEW n \in 1 .. Len(chunk), NEW f \in Fed
  PROVE  Tools!FeedChar(f, chunk, n) \in Fed
<1> DEFINE ch == chunk[n]
           u == Tools!TrackChar(f.tracker, ch)
           skipped == IF u = f.tracker THEN Append(f.skipped, ch) ELSE f.skipped
           g == Tools!FeedChar(f, chunk, n)
           complete == ~f.tracker.inString /\ ch = Tools!CloseBrace /\ u.depth = 0
<1>1. ch \in Symbol /\ n \in Nat
  OBVIOUS
<1>2. /\ f.tracker \in Tracker /\ f.results \in Seq(Seq(Symbol)) /\ f.skipped \in Seq(Symbol)
      /\ f.last \in Nat /\ f.between \in Seq(Symbol)
  BY DEF Fed
<1>3. u \in Tracker /\ u.buffer \in Seq(Symbol)
  <2>1. u \in Tracker
    <3> HIDE DEF ch
    <3> QED  BY <1>1, <1>2, TrackerStep
  <2> HIDE DEF u
  <2> QED  BY <2>1 DEF Tracker
<1>4. skipped \in Seq(Symbol) /\ Append(f.results, u.buffer) \in Seq(Seq(Symbol))
  <2> HIDE DEF u, ch
  <2> QED  BY <1>1, <1>2, <1>3, CallMore
<1>5. g = IF complete
          THEN [tracker |-> [u EXCEPT !.buffer = <<>>], results |-> Append(f.results, u.buffer),
                last |-> n, skipped |-> skipped, between |-> skipped]
          ELSE [f EXCEPT !.tracker = u, !.skipped = skipped]
  BY DEF Tools!FeedChar
<1> HIDE DEF ch, u, skipped, g, complete
<1>6. [u EXCEPT !.buffer = <<>>] \in Tracker
  BY <1>3, EmptyText DEF Tracker
<1>7. g \in Fed
  BY <1>1, <1>2, <1>3, <1>4, <1>5, <1>6 DEF Fed
<1> QED  BY <1>7 DEF g

\* feedWithRemainder() feeds one character after the other.
FedNothing(t0) ==
  [tracker |-> t0, results |-> <<>>, last |-> 0, skipped |-> <<>>, between |-> <<>>]
FedAll(f, chunk) ==
  [tracker |-> f.tracker, results |-> f.results, between |-> f.between,
   remainder |-> IF f.last = 0 THEN <<>> ELSE From(chunk, f.last + 1)]

\* The characters are fed one after the other.
LEMMA FedInOrder ==
  ASSUME NEW t0 \in Tracker, NEW chunk \in Seq(Symbol)
  PROVE  \E f : /\ f[0] = FedNothing(t0)
                /\ Tools!feedWithRemainder(t0, chunk) = FedAll(f[Len(chunk)], chunk)
                /\ \A n \in 1 .. Len(chunk) : f[n] = Tools!FeedChar(f[n - 1], chunk, n)
<1> DEFINE m == Len(chunk)
           x == FedNothing(t0)
           Equation(f) ==
             f = [n \in 0 .. m |-> IF n = 0 THEN x ELSE Tools!FeedChar(f[n - 1], chunk, n)]
           G == [s \in Fed \X (1 .. m) |-> Tools!FeedChar(s[1], chunk, s[2])]
           g == CHOOSE f : Equation(f)
<1>1. m \in Nat /\ x \in Fed
  BY EmptyText DEF Fed, FedNothing
<1>2. G \in [Fed \X (1 .. m) -> Fed]
  BY FedType
<1>3. \A s \in Fed, n \in 1 .. m : G[<<s, n>>] = Tools!FeedChar(s, chunk, n)
  OBVIOUS
<1>4. Tools!feedWithRemainder(t0, chunk) = FedAll(g[m], chunk)
  BY SameText DEF Tools!feedWithRemainder, FedAll, FedNothing
<1> HIDE DEF G, m, x
<1>5. PICK f \in [0 .. m -> Fed] : Recurs(f, x, G, m)
  BY <1>1, <1>2, Recursion
<1>6. f[0] = x /\ \A n \in 1 .. m : f[n] = Tools!FeedChar(f[n - 1], chunk, n)
  <2>1. ASSUME NEW n \in 1 .. m PROVE f[n] = Tools!FeedChar(f[n - 1], chunk, n)
    <3>1. f[n] = G[<<f[n - 1], n>>]
      BY <1>5 DEF Recurs
    <3>2. f[n - 1] \in Fed
      BY <1>1
    <3> QED  BY <1>3, <3>1, <3>2
  <2> QED  BY <1>5, <2>1 DEF Recurs
<1>7. Equation(f)
  <2>1. f = [n \in 0 .. m |-> f[n]]
    OBVIOUS
  <2>2. \A n \in 0 .. m : f[n] = IF n = 0 THEN x ELSE Tools!FeedChar(f[n - 1], chunk, n)
    BY <1>1, <1>6
  <2> QED  BY <2>1, <2>2, Zenon
<1>8. Equation(g)
  BY <1>7
<1>9. g[0] = x /\ \A n \in 1 .. m : g[n] = Tools!FeedChar(g[n - 1], chunk, n)
  <2>1. \A n \in 0 .. m : g[n] = IF n = 0 THEN x ELSE Tools!FeedChar(g[n - 1], chunk, n)
    BY <1>8
  <2> HIDE DEF g
  <2> QED  BY <1>1, <2>1
<1> HIDE DEF g
<1> QED  BY <1>4, <1>9 DEF m, x

\* What was fed is in the objects, between them, after them or in the tracker.
LEMMA FedOut ==
  ASSUME NEW t0 \in Tracker, NEW chunk \in Seq(Symbol), InObject(t0, chunk), NEW c
  PROVE  LET fed == Tools!feedWithRemainder(t0, chunk)
         IN  /\ fed.tracker \in Tracker /\ fed.results \in Seq(Seq(Symbol))
             /\ fed.between \in Seq(Symbol) /\ fed.remainder \in Seq(Symbol)
             /\ fed.results = <<>> =>
                  /\ fed.tracker.depth >= 1
                  /\ Count(c, fed.tracker.buffer) = Count(c, t0.buffer) + Count(c, chunk)
             /\ fed.results # <<>> =>
                  Results(c, fed) + Count(c, fed.between) + Count(c, fed.remainder)
                    = Count(c, t0.buffer) + Count(c, chunk)
<1> DEFINE fed == Tools!feedWithRemainder(t0, chunk)
           m == Len(chunk)
<1>1. PICK f : /\ f[0] = FedNothing(t0) /\ fed = FedAll(f[m], chunk)
               /\ \A n \in 1 .. m : f[n] = Tools!FeedChar(f[n - 1], chunk, n)
  BY FedInOrder
<1> DEFINE D == [n \in 0 .. m |-> {e \in Fed : FedOK(c, t0, chunk, n, e)}]
           all == f[m]
<1>2. m \in Nat /\ Before(chunk, 0 + 1) = <<>> /\ Before(chunk, m + 1) = chunk
  BY DEF Before
<1> HIDE DEF fed, m
<1>3. f[0] \in D[0]
  <2> DEFINE e == f[0]
  <2>1. /\ e = FedNothing(t0) /\ e \in Fed /\ e.last \in 0 .. 0 /\ e.last = 0
        /\ e.skipped = <<>> /\ e.results = <<>> /\ e.tracker = t0 /\ 0 \in 0 .. m
    BY <1>1, <1>2, EmptyText DEF FedNothing, Fed
  <2> HIDE DEF e
  <2>2. Results(c, e) = 0 /\ Count(c, e.skipped) = 0 /\ Count(c, Before(chunk, 0 + 1)) = 0
    BY <1>2, <2>1, FlattenEmpty, Sums DEF Results
  <2>3. Count(c, t0.buffer) \in Nat
    BY Sums DEF Tracker
  <2>4. Count(c, t0.buffer) + Count(c, Before(chunk, 0 + 1))
          = Count(c, e.tracker.buffer) + Results(c, e) + Count(c, e.skipped)
    BY <2>1, <2>2, <2>3
  <2>5. FedOK(c, t0, chunk, 0, e)
    BY <2>1, <2>4 DEF FedOK
  <2> QED  BY <2>1, <2>5 DEF e
<1>4. \A n \in 1 .. m : f[n - 1] \in D[n - 1] => f[n] \in D[n]
  <2> SUFFICES ASSUME NEW n \in 1 .. m, f[n - 1] \in D[n - 1] PROVE f[n] \in D[n]
    OBVIOUS
  <2>1. FedOK(c, t0, chunk, n - 1, f[n - 1]) /\ n \in 0 .. m
    BY <1>2
  <2>2. FedOK(c, t0, chunk, n, Tools!FeedChar(f[n - 1], chunk, n))
    BY <2>1, FedStep DEF m
  <2>3. FedOK(c, t0, chunk, n, f[n])
    BY <1>1, <2>2
  <2>4. f[n] \in Fed
    BY <2>3 DEF FedOK
  <2> QED  BY <2>1, <2>3, <2>4
<1>5. FedOK(c, t0, chunk, m, all)
  <2> HIDE DEF D
  <2>1. \A n \in 0 .. m : f[n] \in D[n]
    BY ONLY <1>2, <1>3, <1>4, Stays
  <2>2. m \in 0 .. m
    BY <1>2
  <2>3. all \in D[m]
    BY <2>1, <2>2
  <2> QED  BY <2>2, <2>3 DEF D
<1> HIDE DEF all
<1>6. /\ all \in Fed /\ all.last \in 0 .. m
      /\ all.tracker \in Tracker /\ all.results \in Seq(Seq(Symbol))
      /\ all.between \in Seq(Symbol) /\ all.skipped \in Seq(Symbol)
  BY <1>5 DEF FedOK, Fed
<1>7. /\ fed.tracker = all.tracker /\ fed.results = all.results /\ fed.between = all.between
      /\ fed.remainder = IF all.last = 0 THEN <<>> ELSE From(chunk, all.last + 1)
  BY <1>1 DEF FedAll, all
<1>8. all.last + 1 \in 1 .. Len(chunk) + 1
  BY <1>2, <1>6 DEF m
<1>9. /\ From(chunk, all.last + 1) \in Seq(Symbol) /\ Before(chunk, all.last + 1) \in Seq(Symbol)
      /\ Count(c, chunk)
           = Count(c, Before(chunk, all.last + 1)) + Count(c, From(chunk, all.last + 1))
  BY <1>8, CutBefore
<1>10. fed.remainder \in Seq(Symbol)
  BY <1>7, <1>9, EmptyText
<1>11. ASSUME fed.results = <<>>
       PROVE  /\ fed.tracker.depth >= 1
              /\ Count(c, fed.tracker.buffer) = Count(c, t0.buffer) + Count(c, chunk)
  <2>1. /\ all.results = <<>> /\ all.skipped = <<>>
        /\ all.tracker.depth >= 1 \/ (m = 0 /\ all.tracker = t0)
        /\ Count(c, t0.buffer) + Count(c, chunk)
             = Count(c, all.tracker.buffer) + Results(c, all) + Count(c, all.skipped)
    BY <1>2, <1>5, <1>7, <1>11 DEF FedOK
  <2>2. Results(c, all) = 0 /\ Count(c, all.skipped) = 0
    BY <2>1, FlattenEmpty, Sums DEF Results
  <2>3. Count(c, all.tracker.buffer) \in Nat
    BY <1>6, Sums DEF Tracker
  <2>4. m = 0 => t0.depth >= 1
    BY DEF InObject, m
  <2> QED  BY <1>7, <2>1, <2>2, <2>3, <2>4
<1>12. ASSUME fed.results # <<>>
       PROVE  Results(c, fed) + Count(c, fed.between) + Count(c, fed.remainder)
                = Count(c, t0.buffer) + Count(c, chunk)
  <2>1. /\ all.last # 0 /\ Results(c, fed) = Results(c, all)
        /\ Count(c, t0.buffer) + Count(c, Before(chunk, all.last + 1))
             = Results(c, all) + Count(c, all.between)
    BY <1>5, <1>7, <1>12 DEF FedOK, Results
  <2>2. PICK a \in Nat, b \in Nat, r \in Nat, w \in Nat, x \in Nat :
          /\ a = Count(c, t0.buffer) /\ b = Count(c, Before(chunk, all.last + 1))
          /\ r = Results(c, all) /\ w = Count(c, all.between)
          /\ x = Count(c, From(chunk, all.last + 1))
    <3>1. t0.buffer \in Seq(Symbol) /\ FlattenSeq(all.results) \in Seq(Symbol)
      BY <1>6, FlattenType DEF Tracker
    <3>2. /\ Count(c, t0.buffer) \in Nat /\ Count(c, Before(chunk, all.last + 1)) \in Nat
          /\ Results(c, all) \in Nat /\ Count(c, all.between) \in Nat
          /\ Count(c, From(chunk, all.last + 1)) \in Nat
      BY <1>6, <1>9, <3>1, Sums DEF Results
    <3> QED  BY ONLY <3>2, Zenon
  <2>3. a + b = r + w
    BY ONLY <2>1, <2>2
  <2>4. r + w + x = a + (b + x)
    BY <2>3
  <2> QED  BY ONLY <1>7, <1>9, <2>1, <2>2, <2>4
<1> QED  BY <1>6, <1>7, <1>10, <1>11, <1>12 DEF fed

\* An object that is complete is emitted, as a call or as text.
Emitted(c, d) == Count(c, d.text) + Count(c, FlattenSeq(d.calls))
SameButEmitted(d, e) ==
  /\ e.pending = d.pending /\ e.buffer = d.buffer /\ e.tracker = d.tracker
  /\ e.state = d.state /\ e.dropped = d.dropped

\* A complete object is a call, or text again.
LEMMA ObjectStep ==
  ASSUME NEW d \in ToolDetector_, NEW json \in Seq(Symbol), NEW c, c # NL
  PROVE  LET e == Tools!completeObject(d, json)
         IN  /\ e \in ToolDetector_ /\ SameButEmitted(d, e)
             /\ Emitted(c, e) = Emitted(c, d) + Count(c, json)
<1> DEFINE e == Tools!completeObject(d, json)
           call == Tools!Trim(json)
           shown == d.text \o json
<1>1. call \in Seq(Symbol) /\ Count(c, call) = Count(c, json)
  BY CountTrim, SameText
<1>2. IF Tools!IsToolCall(call) THEN e = [d EXCEPT !.calls = Append(d.calls, call)]
      ELSE e = [d EXCEPT !.text = shown]
  BY DEF Tools!completeObject
<1>3. d.text \in Seq(Symbol) /\ d.calls \in Seq(Seq(Symbol)) /\ FlattenSeq(d.calls) \in Seq(Symbol)
  BY ToolParts_
<1>4. shown \in Seq(Symbol) /\ Count(c, shown) = Count(c, d.text) + Count(c, json)
  BY ONLY <1>3, Sums, Symbols, json \in Seq(Symbol)
<1> HIDE DEF e, call, shown
<1>5. /\ Append(d.calls, call) \in Seq(Seq(Symbol))
      /\ Count(c, FlattenSeq(Append(d.calls, call)))
           = Count(c, FlattenSeq(d.calls)) + Count(c, call)
  BY <1>1, <1>3, CallMore
<1>6. PICK a \in Nat, b \in Nat, k \in Nat :
        /\ a = Count(c, d.text) /\ b = Count(c, FlattenSeq(d.calls)) /\ k = Count(c, json)
  <2>1. /\ Count(c, d.text) \in Nat /\ Count(c, FlattenSeq(d.calls)) \in Nat
        /\ Count(c, json) \in Nat
    BY <1>3, Sums
  <2> QED  BY ONLY <2>1, Zenon
<1>7. a + (b + k) = (a + b) + k /\ (a + k) + b = (a + b) + k
  OBVIOUS
<1>8. CASE Tools!IsToolCall(call)
  <2>1. /\ e \in ToolDetector_ /\ SameButEmitted(d, e) /\ e.text = d.text
        /\ e.calls = Append(d.calls, call)
    BY <1>2, <1>5, <1>8 DEF ToolDetector_, SameButEmitted
  <2>2. Emitted(c, e) = Emitted(c, d) + Count(c, json)
    BY ONLY <1>1, <1>5, <1>6, <1>7, <2>1 DEF Emitted
  <2> QED  BY <2>1, <2>2 DEF e
<1>9. CASE ~Tools!IsToolCall(call)
  <2>1. /\ e \in ToolDetector_ /\ SameButEmitted(d, e) /\ e.text = shown /\ e.calls = d.calls
    BY <1>2, <1>4, <1>9 DEF ToolDetector_, SameButEmitted
  <2>2. Emitted(c, e) = Emitted(c, d) + Count(c, json)
    BY ONLY <1>4, <1>6, <1>7, <2>1 DEF Emitted
  <2> QED  BY <2>1, <2>2 DEF e
<1> QED  BY <1>8, <1>9

\* The objects are taken one after the other.
LEMMA ObjectsInOrder ==
  ASSUME NEW d \in ToolDetector_, NEW results \in Seq(Seq(Symbol))
  PROVE  \E f : /\ f[0] = d /\ Tools!completeObjects(d, results) = f[Len(results)]
                /\ \A n \in 1 .. Len(results) :
                     f[n] = Tools!completeObject(f[n - 1], results[n])
<1> DEFINE m == Len(results)
           Equation(f) ==
             f = [n \in 0 .. m |-> IF n = 0 THEN d ELSE Tools!completeObject(f[n - 1], results[n])]
           G == [s \in ToolDetector_ \X (1 .. m) |-> Tools!completeObject(s[1], results[s[2]])]
           g == CHOOSE f : Equation(f)
<1>1. m \in Nat /\ \A n \in 1 .. m : results[n] \in Seq(Symbol)
  OBVIOUS
<1>2. Tools!completeObjects(d, results) = g[m]
  BY DEF Tools!completeObjects
<1> HIDE DEF m
<1>3. G \in [ToolDetector_ \X (1 .. m) -> ToolDetector_]
  <2>1. "none" # NL
    BY DEF NL
  <2> QED  BY <1>1, <2>1, ObjectStep
<1>4. \A s \in ToolDetector_, n \in 1 .. m : G[<<s, n>>] = Tools!completeObject(s, results[n])
  OBVIOUS
<1> HIDE DEF G
<1>5. PICK f \in [0 .. m -> ToolDetector_] : Recurs(f, d, G, m)
  BY <1>1, <1>3, Recursion
<1>6. f[0] = d /\ \A n \in 1 .. m : f[n] = Tools!completeObject(f[n - 1], results[n])
  <2>1. ASSUME NEW n \in 1 .. m PROVE f[n] = Tools!completeObject(f[n - 1], results[n])
    <3>1. f[n] = G[<<f[n - 1], n>>]
      BY <1>5 DEF Recurs
    <3>2. f[n - 1] \in ToolDetector_
      BY <1>1
    <3> QED  BY <1>4, <3>1, <3>2
  <2> QED  BY <1>5, <2>1 DEF Recurs
<1>7. Equation(f)
  <2>1. f = [n \in 0 .. m |-> f[n]]
    OBVIOUS
  <2>2. \A n \in 0 .. m : f[n] = IF n = 0 THEN d ELSE Tools!completeObject(f[n - 1], results[n])
    BY <1>1, <1>6
  <2> QED  BY <2>1, <2>2, Zenon
<1>8. Equation(g)
  BY <1>7
<1>9. g[0] = d /\ \A n \in 1 .. m : g[n] = Tools!completeObject(g[n - 1], results[n])
  <2>1. \A n \in 0 .. m : g[n] = IF n = 0 THEN d ELSE Tools!completeObject(g[n - 1], results[n])
    BY <1>8
  <2> HIDE DEF g
  <2> QED  BY <1>1, <2>1
<1> HIDE DEF g
<1> QED  BY <1>2, <1>9 DEF m

\* All complete objects are taken.
LEMMA Objects ==
  ASSUME NEW d \in ToolDetector_, NEW results \in Seq(Seq(Symbol)), NEW c, c # NL
  PROVE  LET e == Tools!completeObjects(d, results)
         IN  /\ e \in ToolDetector_ /\ SameButEmitted(d, e)
             /\ Emitted(c, e) = Emitted(c, d) + Count(c, FlattenSeq(results))
<1> DEFINE m == Len(results)
           Upto(n) == SubSeq(results, 1, n)
           Total(n) == Count(c, FlattenSeq(Upto(n)))
<1>1. PICK f : /\ f[0] = d /\ Tools!completeObjects(d, results) = f[m]
               /\ \A n \in 1 .. m : f[n] = Tools!completeObject(f[n - 1], results[n])
  BY ObjectsInOrder
<1> DEFINE D == [n \in 0 .. m |-> {e \in ToolDetector_ :
                   SameButEmitted(d, e) /\ Emitted(c, e) = Emitted(c, d) + Total(n)}]
<1>2. m \in Nat /\ Upto(0) = <<>> /\ Upto(m) = results
  OBVIOUS
<1>3. \A n \in 1 .. m : /\ results[n] \in Seq(Symbol) /\ Upto(n - 1) \in Seq(Seq(Symbol))
                        /\ Upto(n) = Append(Upto(n - 1), results[n])
  OBVIOUS
<1>4. ASSUME NEW e \in ToolDetector_ PROVE Emitted(c, e) \in Nat
  <2>1. Count(c, e.text) \in Nat /\ Count(c, FlattenSeq(e.calls)) \in Nat
    BY ToolParts_
  <2> QED  BY ONLY <2>1 DEF Emitted
<1> HIDE DEF m, Upto
<1>5. \A n \in 1 .. m : /\ Total(n - 1) \in Nat /\ Count(c, results[n]) \in Nat
                        /\ Total(n) = Total(n - 1) + Count(c, results[n])
  <2> SUFFICES ASSUME NEW n \in 1 .. m
               PROVE  /\ Total(n - 1) \in Nat /\ Count(c, results[n]) \in Nat
                      /\ Total(n) = Total(n - 1) + Count(c, results[n])
    OBVIOUS
  <2>1. PICK calls \in Seq(Seq(Symbol)), call \in Seq(Symbol) :
          calls = Upto(n - 1) /\ call = results[n] /\ Upto(n) = Append(calls, call)
    BY <1>3
  <2>2. Count(c, FlattenSeq(Append(calls, call))) = Count(c, FlattenSeq(calls)) + Count(c, call)
    BY CallMore
  <2>3. Count(c, FlattenSeq(calls)) \in Nat /\ Count(c, call) \in Nat
    BY FlattenType, Sums
  <2> QED  BY ONLY <2>1, <2>2, <2>3
<1>6. f[0] \in D[0]
  <2>1. Total(0) = 0
    BY <1>2, FlattenEmpty, Sums
  <2>2. Emitted(c, d) = Emitted(c, d) + 0
    BY <1>4
  <2> QED  BY <1>1, <1>2, <2>1, <2>2 DEF SameButEmitted
<1> HIDE DEF Total
<1>7. \A n \in 1 .. m : f[n - 1] \in D[n - 1] => f[n] \in D[n]
  <2> SUFFICES ASSUME NEW n \in 1 .. m, f[n - 1] \in D[n - 1] PROVE f[n] \in D[n]
    OBVIOUS
  <2>1. /\ n \in 0 .. m /\ f[n - 1] \in ToolDetector_ /\ SameButEmitted(d, f[n - 1])
        /\ Emitted(c, f[n - 1]) = Emitted(c, d) + Total(n - 1)
    BY <1>2
  <2>2. /\ f[n] \in ToolDetector_ /\ SameButEmitted(f[n - 1], f[n])
        /\ Emitted(c, f[n]) = Emitted(c, f[n - 1]) + Count(c, results[n])
    BY <1>1, <1>3, <2>1, ObjectStep
  <2>3. SameButEmitted(d, f[n])
    BY <2>1, <2>2 DEF SameButEmitted
  <2>4. PICK a \in Nat, b \in Nat, k \in Nat :
          a = Emitted(c, d) /\ b = Total(n - 1) /\ k = Count(c, results[n])
    BY <1>4, <1>5
  <2>5. (a + b) + k = a + (b + k)
    OBVIOUS
  <2>6. Emitted(c, f[n]) = Emitted(c, d) + Total(n)
    BY ONLY <1>5, <2>1, <2>2, <2>4, <2>5, n \in 1 .. m
  <2> QED  BY <2>1, <2>2, <2>3, <2>6
<1>8. f[m] \in D[m] /\ m \in 0 .. m
  <2> HIDE DEF D
  <2>1. \A n \in 0 .. m : f[n] \in D[n]
    BY ONLY <1>2, <1>6, <1>7, Stays
  <2> QED  BY <1>2, <2>1
<1>9. /\ f[m] \in ToolDetector_ /\ SameButEmitted(d, f[m])
      /\ Emitted(c, f[m]) = Emitted(c, d) + Total(m)
  BY <1>8
<1> QED  BY <1>1, <1>2, <1>9 DEF Total

\* Objects that are complete end the raw state, with the text after them still to be read.
LEMMA ToolRaw ==
  ASSUME NEW d \in ToolDetector_, d.state = "in_raw_json", InObject(d.tracker, d.pending),
         NEW c, Plain(c)
  PROVE  LET e == Tools!processRawJsonState(d)
         IN  ToolOK(e) /\ ToolWeight(c, e) = ToolWeight(c, d)
<1> DEFINE e == Tools!processRawJsonState(d)
           s == d.pending
           fed == Tools!feedWithRemainder(d.tracker, s)
           done == Tools!completeObjects(d, fed.results)
           dropped == d.dropped \o fed.between
<1>1. /\ s \in Seq(Symbol) /\ d.tracker \in Tracker /\ d.dropped \in Seq(Symbol)
      /\ Rest(d) = d.tracker.buffer
  BY ToolParts_ DEF Rest
<1>2. /\ fed.tracker \in Tracker /\ fed.results \in Seq(Seq(Symbol))
      /\ fed.between \in Seq(Symbol) /\ fed.remainder \in Seq(Symbol)
      /\ fed.results = <<>> =>
           /\ fed.tracker.depth >= 1
           /\ Count(c, fed.tracker.buffer) = Count(c, d.tracker.buffer) + Count(c, s)
      /\ fed.results # <<>> =>
           Results(c, fed) + Count(c, fed.between) + Count(c, fed.remainder)
             = Count(c, d.tracker.buffer) + Count(c, s)
  <2> HIDE DEF s
  <2> QED  BY <1>1, FedOut DEF s
<1>3. IF fed.results = <<>> THEN e = [d EXCEPT !.tracker = fed.tracker, !.pending = <<>>]
      ELSE e = [done EXCEPT !.tracker = fed.tracker, !.pending = fed.remainder,
                            !.state = "normal", !.dropped = @ \o fed.between]
  BY DEF Tools!processRawJsonState
<1>4. PICK a \in Nat, k \in Nat, b \in Nat, x \in Nat :
        /\ a = Count(c, d.text) + Count(c, FlattenSeq(d.calls)) /\ k = Count(c, s)
        /\ b = Count(c, d.tracker.buffer) /\ x = Count(c, d.dropped)
  <2>1. /\ Count(c, d.text) \in Nat /\ Count(c, FlattenSeq(d.calls)) \in Nat
        /\ Count(c, s) \in Nat /\ Count(c, d.tracker.buffer) \in Nat /\ Count(c, d.dropped) \in Nat
    BY <1>1, ToolParts_
  <2>2. Count(c, d.text) + Count(c, FlattenSeq(d.calls)) \in Nat
    BY ONLY <2>1
  <2> QED  BY ONLY <2>1, <2>2, Zenon
<1>5. ToolWeight(c, d) = a + k + b + x
  BY ONLY <1>1, <1>4 DEF ToolWeight, s
<1> HIDE DEF e, s, fed, done, dropped
<1>6. CASE fed.results = <<>>
  <2>1. /\ e \in ToolDetector_ /\ e.state = "in_raw_json" /\ e.tracker = fed.tracker
        /\ e.pending = <<>> /\ e.text = d.text /\ e.calls = d.calls /\ e.dropped = d.dropped
    BY <1>2, <1>3, <1>6, EmptyText DEF ToolDetector_
  <2>2. Rest(e) = fed.tracker.buffer
    BY <2>1 DEF Rest
  <2>3. ToolOK(e)
    BY <1>2, <1>6, <2>1 DEF ToolOK, InObject
  <2>4. /\ Count(c, e.text) + Count(c, FlattenSeq(e.calls)) = a /\ Count(c, e.pending) = 0
        /\ Count(c, Rest(e)) = b + k /\ Count(c, e.dropped) = x
    BY ONLY <1>2, <1>4, <1>6, <2>1, <2>2, Sums
  <2>5. a + 0 + (b + k) + x = a + k + b + x
    OBVIOUS
  <2>6. ToolWeight(c, e) = ToolWeight(c, d)
    BY ONLY <1>5, <2>4, <2>5 DEF ToolWeight
  <2> QED  BY <2>3, <2>6 DEF e
<1>7. CASE fed.results # <<>>
  <2>1. done \in ToolDetector_ /\ SameButEmitted(d, done)
        /\ Emitted(c, done) = Emitted(c, d) + Results(c, fed)
    <3>1. c # NL
      BY DEF Plain
    <3> QED  BY <1>2, <3>1, Objects DEF done, Results
  <2>2. dropped \in Seq(Symbol) /\ Count(c, dropped) = x + Count(c, fed.between)
    <3>1. PICK v \in Seq(Symbol), w \in Seq(Symbol) : v = d.dropped /\ w = fed.between
      BY <1>1, <1>2
    <3>2. v \o w \in Seq(Symbol) /\ Count(c, v \o w) = Count(c, v) + Count(c, w)
      BY Sums, Symbols
    <3> QED  BY ONLY <1>4, <3>1, <3>2 DEF dropped
  <2>3. /\ e \in ToolDetector_ /\ e.state = "normal" /\ e.pending = fed.remainder
        /\ e.text = done.text /\ e.calls = done.calls /\ e.dropped = dropped
    BY <1>2, <1>3, <1>7, <2>1, <2>2, ZenonT(60) DEF ToolDetector_, SameButEmitted, dropped
  <2>4. Rest(e) = <<>>
    BY <2>3 DEF Rest
  <2>5. PICK r \in Nat, w \in Nat, y \in Nat :
          r = Results(c, fed) /\ w = Count(c, fed.between) /\ y = Count(c, fed.remainder)
    <3>1. FlattenSeq(fed.results) \in Seq(Symbol)
      BY <1>2, FlattenType
    <3>2. /\ Results(c, fed) \in Nat /\ Count(c, fed.between) \in Nat
          /\ Count(c, fed.remainder) \in Nat
      BY <1>2, <3>1, Sums DEF Results
    <3> QED  BY ONLY <3>2, Zenon
  <2>6. r + w + y = b + k
    BY ONLY <1>2, <1>4, <1>7, <2>5
  <2>7. /\ Count(c, e.text) + Count(c, FlattenSeq(e.calls)) = a + r /\ Count(c, e.pending) = y
        /\ Count(c, Rest(e)) = 0 /\ Count(c, e.dropped) = x + w
    BY ONLY <1>4, <2>1, <2>2, <2>3, <2>4, <2>5, Sums DEF Emitted
  <2>8. (a + r) + y + 0 + (x + w) = a + k + b + x
    BY <2>6
  <2>9. ToolWeight(c, e) = ToolWeight(c, d)
    BY ONLY <1>5, <2>7, <2>8 DEF ToolWeight
  <2> QED  BY <2>3, <2>9 DEF ToolOK, e
<1> QED  BY <1>6, <1>7

\* There is a character that is counted.
LEMMA SomePlain == Plain("none")
BY DEF Plain, Tick, NL, Json

SameWeight(d, e) == \A c : Plain(c) => ToolWeight(c, e) = ToolWeight(c, d)

\* One round of the tool detector, in any state.
LEMMA ToolRound ==
  ASSUME NEW d, ToolOK(d)
  PROVE  ToolOK(Tools!Round(d)) /\ SameWeight(d, Tools!Round(d))
<1> DEFINE e == CASE d.state = "normal"        -> Tools!processNormalState(d)
                  [] d.state = "in_code_fence" -> Tools!processCodeFenceState(d)
                  [] d.state = "in_raw_json"   -> Tools!processRawJsonState(d)
<1>1. Tools!Round(d) = d \/ Tools!Round(d) = e
  BY DEF Tools!Round
<1>2. d \in ToolDetector_ /\ d.state \in {"normal", "in_code_fence", "in_raw_json"}
  BY DEF ToolOK, ToolDetector_
<1>3. ASSUME NEW c, Plain(c) PROVE ToolOK(e) /\ ToolWeight(c, e) = ToolWeight(c, d)
  <2>1. CASE d.state = "normal"
    BY <1>2, <1>3, <2>1, ToolNormal
  <2>2. CASE d.state = "in_code_fence"
    BY <1>2, <1>3, <2>2, ToolFence
  <2>3. CASE d.state = "in_raw_json"
    <3>1. InObject(d.tracker, d.pending)
      BY <2>3 DEF ToolOK
    <3> QED  BY <1>2, <1>3, <2>3, <3>1, ToolRaw
  <2> QED  BY <1>2, <2>1, <2>2, <2>3
<1> HIDE DEF e
<1>4. ToolOK(e) /\ SameWeight(d, e)
  BY <1>3, SomePlain DEF SameWeight
<1>5. SameWeight(d, d)
  BY DEF SameWeight
<1> QED  BY <1>1, <1>4, <1>5

\* The rounds are steps of one sequence of states of the detector.
LEMMA RoundsInOrder ==
  ASSUME NEW d, ToolOK(d)
  PROVE  \E m \in Nat : \E f : /\ f[0] = d /\ Tools!Rounds(d) = f[m]
                               /\ \A n \in 1 .. m : f[n] = Tools!Round(f[n - 1])
<1> DEFINE m == 2 * Len(d.pending) + 1
           S == {e \in ToolDetector_ : ToolOK(e)}
           Equation(f) == f = [n \in 0 .. m |-> IF n = 0 THEN d ELSE Tools!Round(f[n - 1])]
           G == [s \in S \X (1 .. m) |-> Tools!Round(s[1])]
           g == CHOOSE f : Equation(f)
<1>1. m \in Nat
  BY ToolParts_ DEF ToolOK
<1>2. Tools!Rounds(d) = g[m]
  BY DEF Tools!Rounds
<1> HIDE DEF m
<1>3. d \in S
  BY DEF ToolOK
<1>4. G \in [S \X (1 .. m) -> S]
  <2>1. \A e \in S : Tools!Round(e) \in S
    BY ToolRound DEF ToolOK
  <2> HIDE DEF S
  <2> QED  BY <2>1
<1>5. \A s \in S, n \in 1 .. m : G[<<s, n>>] = Tools!Round(s)
  OBVIOUS
<1> HIDE DEF G, S
<1>6. PICK f \in [0 .. m -> S] : Recurs(f, d, G, m)
  BY <1>1, <1>3, <1>4, Recursion
<1>7. f[0] = d /\ \A n \in 1 .. m : f[n] = Tools!Round(f[n - 1])
  <2>1. ASSUME NEW n \in 1 .. m PROVE f[n] = Tools!Round(f[n - 1])
    <3>1. f[n] = G[<<f[n - 1], n>>]
      BY <1>6 DEF Recurs
    <3>2. f[n - 1] \in S
      BY <1>1
    <3> QED  BY <1>5, <3>1, <3>2
  <2> QED  BY <1>6, <2>1 DEF Recurs
<1>8. Equation(f)
  <2>1. f = [n \in 0 .. m |-> f[n]]
    OBVIOUS
  <2>2. \A n \in 0 .. m : f[n] = IF n = 0 THEN d ELSE Tools!Round(f[n - 1])
    BY <1>1, <1>7
  <2> QED  BY <2>1, <2>2, Zenon
<1>9. Equation(g)
  BY <1>8
<1>10. g[0] = d /\ \A n \in 1 .. m : g[n] = Tools!Round(g[n - 1])
  <2>1. \A n \in 0 .. m : g[n] = IF n = 0 THEN d ELSE Tools!Round(g[n - 1])
    BY <1>9
  <2> HIDE DEF g
  <2> QED  BY <1>1, <2>1
<1> HIDE DEF g
<1> QED  BY <1>1, <1>2, <1>10

\* The tool detector adds up: what it is given is what it emits, keeps and drops.
LEMMA ToolChunk ==
  ASSUME NEW d, ToolOK(d), NEW chunk \in Seq(Symbol)
  PROVE  LET e == Tools!processChunk(d, chunk)
         IN  ToolOK(e) /\ \A c : Plain(c) => ToolWeight(c, e) = ToolWeight(c, d) + Count(c, chunk)
<1> DEFINE d1 == [d EXCEPT !.pending = @ \o chunk]
           longer == d.pending \o chunk
           e == Tools!Rounds(d1)
<1>1. Tools!processChunk(d, chunk) = e
  BY DEF Tools!processChunk
<1>2. d \in ToolDetector_ /\ d.pending \in Seq(Symbol)
  BY ToolParts_ DEF ToolOK
<1>3. longer \in Seq(Symbol) /\ \A c : Count(c, longer) = Count(c, d.pending) + Count(c, chunk)
  <2>1. PICK p \in Seq(Symbol) : p = d.pending
    BY <1>2
  <2>2. p \o chunk \in Seq(Symbol) /\ \A c : Count(c, p \o chunk) = Count(c, p) + Count(c, chunk)
    BY Sums, Symbols
  <2> QED  BY ONLY <2>1, <2>2
<1>4. d.pending # <<>> => longer # <<>> /\ longer[1] = d.pending[1]
  BY <1>2
<1>5. d1 = [d EXCEPT !.pending = longer]
  OBVIOUS
<1> HIDE DEF d1, longer
<1>6. /\ d1 \in ToolDetector_ /\ d1.pending = longer /\ d1.state = d.state /\ d1.buffer = d.buffer
      /\ d1.tracker = d.tracker /\ d1.text = d.text /\ d1.calls = d.calls
      /\ d1.dropped = d.dropped
  BY <1>2, <1>3, <1>5 DEF ToolDetector_
<1>7. Rest(d1) = Rest(d)
  BY <1>6 DEF Rest
<1>8. ToolOK(d1)
  BY <1>4, <1>6 DEF ToolOK, InObject
<1>9. ASSUME NEW c PROVE ToolWeight(c, d1) = ToolWeight(c, d) + Count(c, chunk)
  <2>1. PICK a \in Nat, b \in Nat, k \in Nat, r \in Nat, x \in Nat, y \in Nat :
          /\ a = Count(c, d.text) /\ b = Count(c, FlattenSeq(d.calls)) /\ k = Count(c, d.pending)
          /\ r = Count(c, Rest(d)) /\ x = Count(c, d.dropped) /\ y = Count(c, chunk)
    <3>1. /\ Count(c, d.text) \in Nat /\ Count(c, FlattenSeq(d.calls)) \in Nat
          /\ Count(c, d.pending) \in Nat /\ Count(c, Rest(d)) \in Nat
          /\ Count(c, d.dropped) \in Nat /\ Count(c, chunk) \in Nat
      BY <1>2, ToolParts_, Sums
    <3> QED  BY ONLY <3>1, Zenon
  <2>2. a + b + (k + y) + r + x = (a + b + k + r + x) + y
    OBVIOUS
  <2> QED  BY ONLY <1>3, <1>6, <1>7, <2>1, <2>2 DEF ToolWeight
<1>10. PICK m \in Nat : \E f : /\ f[0] = d1 /\ e = f[m]
                               /\ \A n \in 1 .. m : f[n] = Tools!Round(f[n - 1])
  BY <1>8, RoundsInOrder
<1>11. PICK f : /\ f[0] = d1 /\ e = f[m]
                /\ \A n \in 1 .. m : f[n] = Tools!Round(f[n - 1])
  BY <1>10
<1> DEFINE D == [n \in 0 .. m |-> {s \in ToolDetector_ : ToolOK(s) /\ SameWeight(d1, s)}]
<1>12. f[0] \in D[0]
  BY <1>6, <1>8, <1>11 DEF SameWeight
<1>13. \A n \in 1 .. m : f[n - 1] \in D[n - 1] => f[n] \in D[n]
  <2> SUFFICES ASSUME NEW n \in 1 .. m, f[n - 1] \in D[n - 1] PROVE f[n] \in D[n]
    OBVIOUS
  <2>1. n \in 0 .. m /\ ToolOK(f[n - 1]) /\ SameWeight(d1, f[n - 1])
    OBVIOUS
  <2>2. ToolOK(f[n]) /\ SameWeight(f[n - 1], f[n])
    BY <1>11, <2>1, ToolRound
  <2>3. SameWeight(d1, f[n]) /\ f[n] \in ToolDetector_
    BY <2>1, <2>2 DEF SameWeight, ToolOK
  <2> QED  BY <2>1, <2>2, <2>3
<1>14. ToolOK(e) /\ SameWeight(d1, e)
  <2> HIDE DEF D
  <2>1. \A n \in 0 .. m : f[n] \in D[n]
    BY ONLY <1>12, <1>13, m \in Nat, Stays
  <2> QED  BY <1>11, <2>1 DEF D
<1> HIDE DEF e
<1> QED  BY <1>1, <1>9, <1>14 DEF SameWeight

\* The end of the answer: what is held back is a call, or is emitted.
LEMMA ToolEnds ==
  ASSUME NEW d, ToolOK(d)
  PROVE  ToolOK(Tools!finalize(d)) /\ SameWeight(d, Tools!finalize(d))
<1> DEFINE e == Tools!finalize(d)
           text == d.text \o d.pending
           raw == d.tracker.buffer
           call == Tools!Trim(raw)
           With(t, cs) == [d EXCEPT !.text = t, !.pending = <<>>, !.buffer = <<>>,
                                    !.tracker = Tools!NewTracker, !.state = "normal", !.calls = cs]
<1>1. /\ d \in ToolDetector_ /\ d.text \in Seq(Symbol) /\ d.pending \in Seq(Symbol)
      /\ d.calls \in Seq(Seq(Symbol)) /\ raw \in Seq(Symbol) /\ d.buffer \in Seq(Symbol)
      /\ d.state \in {"normal", "in_code_fence", "in_raw_json"}
  <2>1. d \in ToolDetector_
    BY DEF ToolOK
  <2> QED  BY <2>1, ToolParts_ DEF ToolDetector_
<1>2. text \in Seq(Symbol) /\ \A c : Count(c, text) = Count(c, d.text) + Count(c, d.pending)
  <2>1. PICK t \in Seq(Symbol), p \in Seq(Symbol) : t = d.text /\ p = d.pending
    BY <1>1
  <2>2. t \o p \in Seq(Symbol) /\ \A c : Count(c, t \o p) = Count(c, t) + Count(c, p)
    BY Sums, Symbols
  <2> QED  BY ONLY <2>1, <2>2
<1>3. Tools!NewTracker \in Tracker
  BY EmptyText DEF Tools!NewTracker, Tracker
<1>4. ASSUME NEW t \in Seq(Symbol), NEW cs \in Seq(Seq(Symbol)), e = With(t, cs),
             \A c : Plain(c) => Count(c, t) + Count(c, FlattenSeq(cs))
                                  = Count(c, text) + Count(c, FlattenSeq(d.calls)) + Count(c, Rest(d))
      PROVE  ToolOK(e) /\ SameWeight(d, e)
  <2>1. /\ e \in ToolDetector_ /\ e.state = "normal" /\ e.text = t /\ e.calls = cs
        /\ e.pending = <<>> /\ e.dropped = d.dropped
    <3> HIDE DEF e, text, raw, call
    <3>1. PICK k \in Tracker : e = [d EXCEPT !.text = t, !.pending = <<>>, !.buffer = <<>>,
                                             !.tracker = k, !.state = "normal", !.calls = cs]
      BY <1>3, <1>4
    <3> QED  BY ONLY <1>1, <3>1, EmptyText, t \in Seq(Symbol), cs \in Seq(Seq(Symbol))
             DEF ToolDetector_
  <2> HIDE DEF e, text
  <2>2. Rest(e) = <<>>
    BY <2>1 DEF Rest
  <2>3. ASSUME NEW c, Plain(c) PROVE ToolWeight(c, e) = ToolWeight(c, d)
    <3>1. PICK a \in Nat, b \in Nat, k \in Nat, r \in Nat, x \in Nat, u \in Nat, v \in Nat :
            /\ a = Count(c, d.text) /\ b = Count(c, FlattenSeq(d.calls))
            /\ k = Count(c, d.pending) /\ r = Count(c, Rest(d)) /\ x = Count(c, d.dropped)
            /\ u = Count(c, t) /\ v = Count(c, FlattenSeq(cs))
      <4>1. /\ Count(c, d.text) \in Nat /\ Count(c, FlattenSeq(d.calls)) \in Nat
            /\ Count(c, d.pending) \in Nat /\ Count(c, Rest(d)) \in Nat
            /\ Count(c, d.dropped) \in Nat /\ Count(c, t) \in Nat
            /\ Count(c, FlattenSeq(cs)) \in Nat
        BY <1>1, FlattenType, ToolParts_, Sums
      <4> QED  BY ONLY <4>1, Zenon
    <3>2. u + v = (a + k) + b + r
      BY ONLY <1>2, <1>4, <2>3, <3>1
    <3>3. u + v + 0 + 0 + x = a + b + k + r + x
      BY <3>2
    <3> QED  BY ONLY <2>1, <2>2, <3>1, <3>3, Sums DEF ToolWeight
  <2> QED  BY <2>1, <2>3 DEF ToolOK, SameWeight
<1>5. CASE d.state = "in_raw_json" /\ raw # <<>>
  <2>1. IF Tools!IsToolCall(call) THEN e = With(text, Append(d.calls, call))
        ELSE e = With(text \o raw, d.calls)
    BY <1>1, <1>5 DEF Tools!finalize, ToolDetector_
  <2>2. Rest(d) = raw
    BY <1>5 DEF Rest
  <2>3. call \in Seq(Symbol) /\ \A c : Plain(c) => Count(c, call) = Count(c, raw)
    <3> HIDE DEF raw
    <3>1. \A c : c # NL => Trim(raw) \in Seq(Symbol) /\ Count(c, Trim(raw)) = Count(c, raw)
      BY <1>1, CountTrim
    <3>2. \A c : Plain(c) => c # NL
      BY DEF Plain
    <3>3. call = Trim(raw)
      BY SameText
    <3> QED  BY ONLY <3>1, <3>2, <3>3, SomePlain
  <2> HIDE DEF e, text, raw, call, With
  <2>4. PICK t \in Seq(Symbol), w \in Seq(Symbol), cs \in Seq(Seq(Symbol)), v \in Seq(Symbol) :
          t = text /\ w = raw /\ cs = d.calls /\ v = call
    BY <1>1, <1>2, <2>3
  <2>5. /\ t \o w \in Seq(Symbol) /\ \A c : Count(c, t \o w) = Count(c, t) + Count(c, w)
        /\ Append(cs, v) \in Seq(Seq(Symbol))
        /\ \A c : Count(c, FlattenSeq(Append(cs, v))) = Count(c, FlattenSeq(cs)) + Count(c, v)
    BY CallMore, Sums, Symbols
  <2>6. FlattenSeq(cs) \in Seq(Symbol)
    BY FlattenType
  <2>7. ASSUME NEW c, Plain(c)
        PROVE  /\ Count(c, t \o w) + Count(c, FlattenSeq(cs))
                    = Count(c, t) + Count(c, FlattenSeq(cs)) + Count(c, w)
               /\ Count(c, t) + Count(c, FlattenSeq(Append(cs, v)))
                    = Count(c, t) + Count(c, FlattenSeq(cs)) + Count(c, w)
    <3>1. Count(c, v) = Count(c, w)
      BY ONLY <2>3, <2>4, <2>7
    <3>2. Count(c, t) \in Nat /\ Count(c, w) \in Nat /\ Count(c, FlattenSeq(cs)) \in Nat
      BY <2>6, Sums
    <3>3. PICK a \in Nat, b \in Nat, k \in Nat :
            a = Count(c, t) /\ b = Count(c, w) /\ k = Count(c, FlattenSeq(cs))
      BY ONLY <3>2, Zenon
    <3>4. (a + b) + k = a + k + b /\ a + (k + b) = a + k + b
      OBVIOUS
    <3> QED  BY ONLY <2>5, <3>1, <3>3, <3>4
  <2>8. CASE Tools!IsToolCall(call)
    <3>1. PICK cs1 \in Seq(Seq(Symbol)) : cs1 = Append(cs, v)
      BY <2>5
    <3>2. e = With(t, cs1)
      BY ONLY <2>1, <2>4, <2>8, <3>1
    <3>3. \A c : Plain(c) => Count(c, t) + Count(c, FlattenSeq(cs1))
                               = Count(c, text) + Count(c, FlattenSeq(d.calls)) + Count(c, Rest(d))
      BY ONLY <2>2, <2>4, <2>7, <3>1
    <3> QED  BY <1>4, <3>2, <3>3 DEF e
  <2>9. CASE ~Tools!IsToolCall(call)
    <3>1. PICK t1 \in Seq(Symbol) : t1 = t \o w
      BY <2>5
    <3>2. e = With(t1, cs)
      BY ONLY <2>1, <2>4, <2>9, <3>1
    <3>3. \A c : Plain(c) => Count(c, t1) + Count(c, FlattenSeq(cs))
                               = Count(c, text) + Count(c, FlattenSeq(d.calls)) + Count(c, Rest(d))
      BY ONLY <2>2, <2>4, <2>7, <3>1
    <3> QED  BY <1>4, <3>2, <3>3 DEF e
  <2> QED  BY <2>8, <2>9
<1>6. ASSUME NEW t \in Seq(Symbol), e = With(t, d.calls),
             \A c : Plain(c) => Count(c, t) = Count(c, text) + Count(c, Rest(d))
      PROVE  ToolOK(e) /\ SameWeight(d, e)
  <2> HIDE DEF e, text, With
  <2>1. ASSUME NEW c, Plain(c)
        PROVE  Count(c, t) + Count(c, FlattenSeq(d.calls))
                 = Count(c, text) + Count(c, FlattenSeq(d.calls)) + Count(c, Rest(d))
    <3>1. Count(c, text) \in Nat /\ Count(c, FlattenSeq(d.calls)) \in Nat /\ Count(c, Rest(d)) \in Nat
      BY <1>1, <1>2, ToolParts_, Sums
    <3>2. PICK a \in Nat, b \in Nat, k \in Nat :
            a = Count(c, text) /\ b = Count(c, FlattenSeq(d.calls)) /\ k = Count(c, Rest(d))
      BY ONLY <3>1, Zenon
    <3>3. (a + k) + b = a + b + k
      OBVIOUS
    <3> QED  BY ONLY <1>6, <2>1, <3>2, <3>3
  <2>2. PICK cs \in Seq(Seq(Symbol)) : cs = d.calls
    BY <1>1
  <2>3. e = With(t, cs)
    BY ONLY <1>6, <2>2
  <2>4. \A c : Plain(c) => Count(c, t) + Count(c, FlattenSeq(cs))
                             = Count(c, text) + Count(c, FlattenSeq(d.calls)) + Count(c, Rest(d))
    BY ONLY <2>1, <2>2
  <2> QED  BY <1>4, <2>3, <2>4 DEF e
<1>7. CASE d.state = "in_code_fence" /\ d.buffer # <<>>
  <2>1. e = With(text \o Fence \o <<NL>> \o d.buffer, d.calls) /\ Rest(d) = d.buffer
    BY <1>1, <1>7, SameText DEF Tools!finalize, Rest, ToolDetector_
  <2> HIDE DEF e, text, With
  <2>2. PICK t \in Seq(Symbol), b \in Seq(Symbol) : t = text /\ b = d.buffer
    BY <1>1, <1>2
  <2>3. \A c : Plain(c) => /\ t \o Fence \o <<NL>> \o b \in Seq(Symbol)
                           /\ Count(c, t \o Fence \o <<NL>> \o b) = Count(c, t) + Count(c, b)
    BY Written
  <2>4. PICK t1 \in Seq(Symbol) : t1 = t \o Fence \o <<NL>> \o b
    BY <2>3, SomePlain
  <2>5. e = With(t1, d.calls) /\ \A c : Plain(c) => Count(c, t1) = Count(c, text) + Count(c, Rest(d))
    BY ONLY <2>1, <2>2, <2>3, <2>4
  <2> QED  BY <1>6, <2>5 DEF e
<1>8. CASE ~(d.state = "in_raw_json" /\ raw # <<>>) /\ ~(d.state = "in_code_fence" /\ d.buffer # <<>>)
  <2>1. e = With(text, d.calls) /\ Rest(d) = <<>>
    BY <1>1, <1>8 DEF Tools!finalize, Rest, ToolDetector_
  <2> HIDE DEF e, text, With
  <2>2. \A c : Count(c, text) = Count(c, text) + Count(c, Rest(d))
    <3>1. \A c : Count(c, Rest(d)) = 0 /\ Count(c, text) \in Nat
      BY <1>2, <2>1, Sums
    <3>2. \A n \in Nat : n = n + 0
      OBVIOUS
    <3> QED  BY ONLY <3>1, <3>2
  <2>3. PICK t \in Seq(Symbol) : t = text
    BY <1>2
  <2> QED  BY <1>6, <2>1, <2>2, <2>3 DEF e
<1> QED  BY <1>5, <1>7, <1>8

-------------------------------------------------------------------------------
(* The detector of code blocks *)

Block_ == [language : Seq(Symbol), content : Seq(Symbol)]
BlockDetector_ ==
  [state : {"normal", "in_block"}, buffer : Seq(Symbol), language : Seq(Symbol),
   pending : Seq(Symbol), text : Seq(Symbol), blocks : Seq(Block_), lost : Seq(Symbol)]

\* Nothing is lost before the end of the answer.
BlockOK(d) == d \in BlockDetector_ /\ d.lost = <<>>

\* Counted: a character that stands in no language tag that is acted on.
Counted(c) == Plain(c) /\ \A l \in Languages : c \notin Range(l)

\* BlockWeight: how often a character is in what the detector has emitted, keeps and lost.
Contents(blocks) == [i \in DOMAIN blocks |-> blocks[i].content]
BlockRest(d) == IF d.state = "in_block" THEN d.buffer \o d.language ELSE d.lost
Shown(c, d) == Count(c, d.text) + Count(c, FlattenSeq(Contents(d.blocks)))
BlockWeight(c, d) == Shown(c, d) + Count(c, d.pending) + Count(c, BlockRest(d))

\* A block more, and its content.
LEMMA BlockMore ==
  ASSUME NEW blocks \in Seq(Block_), NEW block \in Block_
  PROVE  /\ Append(blocks, block) \in Seq(Block_) /\ Contents(blocks) \in Seq(Seq(Symbol))
         /\ FlattenSeq(Contents(Append(blocks, block)))
              = FlattenSeq(Contents(blocks)) \o block.content
<1>1. ASSUME NEW bs \in Seq(Block_) PROVE Contents(bs) \in Seq(Seq(Symbol))
  <2>1. DOMAIN bs = 1 .. Len(bs) /\ Len(bs) \in Nat /\ \A i \in 1 .. Len(bs) : bs[i] \in Block_
    OBVIOUS
  <2>2. \A b \in Block_ : b.content \in Seq(Symbol)
    BY DEF Block_
  <2>3. Contents(bs) = [i \in 1 .. Len(bs) |-> bs[i].content]
    BY <2>1 DEF Contents
  <2> QED  BY <2>1, <2>2, <2>3
<1>2. Append(blocks, block) \in Seq(Block_)
  OBVIOUS
<1>3. block.content \in Seq(Symbol)
  BY DEF Block_
<1>4. Contents(Append(blocks, block)) = Append(Contents(blocks), block.content)
  <2> DEFINE bs == Append(blocks, block)
             xs == Contents(blocks)
             n == Len(blocks)
  <2>1. xs \in Seq(Seq(Symbol)) /\ Len(xs) = n /\ \A i \in 1 .. n : xs[i] = blocks[i].content
    BY <1>1 DEF Contents
  <2>2. Contents(bs) \in Seq(Seq(Symbol)) /\ Len(bs) = n + 1 /\ Len(Contents(bs)) = n + 1
    <3>1. bs \in Seq(Block_) /\ DOMAIN bs = 1 .. n + 1 /\ Len(bs) = n + 1
      OBVIOUS
    <3>2. Contents(bs) = [i \in 1 .. n + 1 |-> bs[i].content] /\ Contents(bs) \in Seq(Seq(Symbol))
      <4> HIDE DEF bs
      <4> QED  BY <1>1, <3>1 DEF Contents
    <3> HIDE DEF bs
    <3> QED  BY <3>1, <3>2
  <2>3. \A i \in 1 .. n + 1 : Contents(bs)[i] = IF i <= n THEN xs[i] ELSE block.content
    BY <2>1 DEF Contents
  <2> HIDE DEF xs, bs
  <2>4. /\ Append(xs, block.content) \in Seq(Seq(Symbol)) /\ Len(Append(xs, block.content)) = n + 1
        /\ \A i \in 1 .. n + 1 :
             Append(xs, block.content)[i] = IF i <= n THEN xs[i] ELSE block.content
    BY <1>3, <2>1
  <2>5. Contents(bs) = Append(xs, block.content)
    BY <2>2, <2>3, <2>4, SameSequence
  <2> QED  BY <2>5 DEF xs, bs
<1> QED  BY <1>1, <1>2, <1>3, <1>4, FlattenAppend

\* The parts of the block detector.
LEMMA BlockParts ==
  ASSUME NEW d \in BlockDetector_, NEW c
  PROVE  /\ d.text \in Seq(Symbol) /\ d.pending \in Seq(Symbol) /\ d.lost \in Seq(Symbol)
         /\ d.buffer \in Seq(Symbol) /\ d.language \in Seq(Symbol) /\ d.blocks \in Seq(Block_)
         /\ d.state \in {"normal", "in_block"}
         /\ FlattenSeq(Contents(d.blocks)) \in Seq(Symbol) /\ BlockRest(d) \in Seq(Symbol)
         /\ Count(c, d.text) \in Nat /\ Count(c, FlattenSeq(Contents(d.blocks))) \in Nat
         /\ Count(c, d.pending) \in Nat /\ Count(c, BlockRest(d)) \in Nat /\ Shown(c, d) \in Nat
<1>1. /\ d.text \in Seq(Symbol) /\ d.pending \in Seq(Symbol) /\ d.lost \in Seq(Symbol)
      /\ d.buffer \in Seq(Symbol) /\ d.language \in Seq(Symbol) /\ d.blocks \in Seq(Block_)
      /\ d.state \in {"normal", "in_block"}
  BY DEF BlockDetector_
<1>2. FlattenSeq(Contents(d.blocks)) \in Seq(Symbol)
  <2>1. [language |-> <<>>, content |-> <<>>] \in Block_
    BY EmptyText DEF Block_
  <2>2. Contents(d.blocks) \in Seq(Seq(Symbol))
    BY <1>1, <2>1, BlockMore
  <2> QED  BY <2>2, FlattenType
<1>3. BlockRest(d) \in Seq(Symbol)
  <2>1. d.buffer \o d.language \in Seq(Symbol)
    BY <1>1, Symbols
  <2> QED  BY <1>1, <2>1 DEF BlockRest
<1>4. /\ Count(c, d.text) \in Nat /\ Count(c, FlattenSeq(Contents(d.blocks))) \in Nat
      /\ Count(c, d.pending) \in Nat /\ Count(c, BlockRest(d)) \in Nat
  BY <1>1, <1>2, <1>3, Sums
<1>5. Shown(c, d) \in Nat
  BY ONLY <1>4 DEF Shown
<1> QED  BY <1>1, <1>2, <1>3, <1>4, <1>5

\* Two texts after one another, and how often a character is in both.
LEMMA Together ==
  ASSUME NEW s, NEW t, s \in Seq(Symbol), t \in Seq(Symbol)
  PROVE  s \o t \in Seq(Symbol) /\ \A c : Count(c, s \o t) = Count(c, s) + Count(c, t)
BY Sums, Symbols

\* The character at i is not counted: it may be left out between two parts.
LEMMA CutMiddle ==
  ASSUME NEW s \in Seq(Symbol), NEW a \in 1 .. Len(s), NEW b \in a .. Len(s), NEW c, s[b] # c
  PROVE  /\ SubSeq(s, a, b - 1) \in Seq(Symbol) /\ From(s, b + 1) \in Seq(Symbol)
         /\ Count(c, From(s, a)) = Count(c, SubSeq(s, a, b - 1)) + Count(c, From(s, b + 1))
<1> DEFINE t == From(s, a)
           k == b - a + 1
<1>1. /\ t \in Seq(Symbol) /\ Len(t) = Len(s) - a + 1 /\ k \in 1 .. Len(t) + 1
      /\ Before(t, k) = SubSeq(s, a, b - 1) /\ From(t, k) = From(s, b)
  BY DEF From, Before
<1>2. From(s, b + 1) \in Seq(Symbol) /\ Count(c, From(s, b)) = Count(c, From(s, b + 1))
  <2>1. b \in 1 .. Len(s) + 1 /\ b + 1 \in b .. Len(s) + 1 /\ \A i \in b .. (b + 1) - 1 : s[i] # c
    OBVIOUS
  <2> QED  BY <2>1, CutOut
<1> HIDE DEF t, k
<1>3. Before(t, k) \in Seq(Symbol) /\ Count(c, t) = Count(c, Before(t, k)) + Count(c, From(t, k))
  BY <1>1, CutBefore
<1> QED  BY ONLY <1>1, <1>2, <1>3 DEF t

\* The backquotes that are kept are in the text.
LEMMA TrailingTicksFit ==
  ASSUME NEW s \in Seq(Symbol)
  PROVE  Blocks!TrailingTicks(s) \in 0 .. Len(s)
<1>1. ASSUME NEW w \in Seq(Symbol), Blocks!IsSuffix(w, s) PROVE Len(w) <= Len(s)
  <2>1. Len(Blocks!Reverse(w)) = Len(w) /\ Len(Blocks!Reverse(s)) = Len(s)
    BY DEF Blocks!Reverse
  <2>2. Len(Blocks!Reverse(w)) <= Len(Blocks!Reverse(s))
    BY <1>1 DEF Blocks!IsSuffix, Blocks!IsPrefix
  <2> QED  BY <2>1, <2>2
<1>2. /\ <<Tick>> \in Seq(Symbol) /\ Len(<<Tick>>) = 1
      /\ <<Tick, Tick>> \in Seq(Symbol) /\ Len(<<Tick, Tick>>) = 2 /\ Len(s) \in Nat
  BY SymbolsThatAreWritten
<1>3. Blocks!IsSuffix(<<Tick>>, s) => 1 <= Len(s)
  BY <1>1, <1>2
<1>4. Blocks!IsSuffix(<<Tick, Tick>>, s) => 2 <= Len(s)
  BY <1>1, <1>2
<1> QED  BY <1>2, <1>3, <1>4, SameText DEF Blocks!TrailingTicks

\* The first opening fence: three backquotes, and a newline after them.
LEMMA OpenerPlaces ==
  ASSUME NEW s \in Seq(Symbol), Blocks!Openers(s) # {}
  PROVE  LET open == CHOOSE o \in Blocks!Openers(s) : \A p \in Blocks!Openers(s) : o[1] <= p[1]
         IN  /\ open[1] \in 1 .. Len(s) /\ open[2] \in open[1] + 3 .. Len(s)
             /\ \A i \in open[1] .. open[1] + 2 : s[i] = Tick
             /\ s[open[2]] = NL
<1> DEFINE openers == Blocks!Openers(s)
           open == CHOOSE o \in openers : \A p \in openers : o[1] <= p[1]
           starts == {o[1] : o \in openers}
<1>1. \A o \in openers : /\ o[1] \in 1 .. Len(s) /\ o[2] \in 1 .. Len(s) /\ o[2] > o[1] + 2
                         /\ SubSeq(s, o[1], o[1] + 2) = Fence /\ s[o[2]] = NL
  BY SameText DEF Blocks!Openers
<1>2. openers # {}
  OBVIOUS
<1> HIDE DEF openers
<1>3. starts \in SUBSET Nat /\ starts # {}
  <2>1. \A o \in openers : o[1] \in Nat
    BY <1>1
  <2> QED  BY <1>2, <2>1
<1>4. \E i \in starts : \A j \in starts : i <= j
  <2> HIDE DEF starts
  <2> QED  BY <1>3, LeastExists
<1>5. \E o \in openers : \A p \in openers : o[1] <= p[1]
  BY <1>4
<1>6. open \in openers
  BY <1>5
<1> HIDE DEF open
<1>7. PICK a \in 1 .. Len(s), b \in 1 .. Len(s) :
        a = open[1] /\ b = open[2] /\ b > a + 2 /\ SubSeq(s, a, a + 2) = Fence /\ s[b] = NL
  BY <1>1, <1>6
<1>8. b \in a + 3 .. Len(s) /\ a + 2 \in a - 1 .. Len(s) /\ a \in 1 .. Len(s) + 1
  BY <1>7
<1>9. \A i \in 1 .. 3 : SubSeq(s, a, a + 2)[i] = s[a + i - 1]
  BY <1>8
<1>10. \A i \in 1 .. 3 : Fence[i] = Tick
  BY DEF Fence
<1>11. ASSUME NEW i \in a .. a + 2 PROVE s[i] = Tick
  <2>1. i - a + 1 \in 1 .. 3 /\ a + (i - a + 1) - 1 = i
    OBVIOUS
  <2> QED  BY <1>7, <1>9, <1>10, <2>1
<1> QED  BY <1>7, <1>8, <1>11 DEF open, openers

\* What may become an opening fence is in the text.
LEMMA PartialFencePlace ==
  ASSUME NEW s \in Seq(Symbol)
  PROVE  Blocks!PartialFence(s) \in 0 .. Len(s)
<1> DEFINE ticks == {i \in DOMAIN s : s[i] = Blocks!Tick}
           last == CHOOSE i \in ticks : \A j \in ticks : j <= i
           starts == {i \in 1 .. last : \A k \in i .. last : s[k] \in WordChars \cup {Blocks!Tick}}
<1>1. ticks \in SUBSET (1 .. Len(s)) /\ Len(s) \in Nat
  OBVIOUS
<1>2. Blocks!PartialFence(s) = IF ticks = {} THEN 0 ELSE Blocks!Least(starts)
  BY DEF Blocks!PartialFence
<1>3. \A i \in ticks : s[i] = Blocks!Tick
  OBVIOUS
<1> HIDE DEF ticks
<1>4. CASE ticks = {}
  BY <1>1, <1>2, <1>4
<1>5. CASE ticks # {}
  <2>1. last \in ticks
    <3>1. \E i \in ticks : \A j \in ticks : j <= i
      BY <1>1, <1>5, GreatestExists
    <3> QED  BY <3>1
  <2> HIDE DEF last
  <2>2. last \in 1 .. Len(s) /\ s[last] = Blocks!Tick
    BY <1>1, <1>3, <2>1
  <2>3. last \in starts /\ starts \in SUBSET Nat /\ \A i \in starts : i \in 1 .. Len(s)
    BY <1>1, <2>2
  <2> HIDE DEF starts
  <2>4. Blocks!Least(starts) \in starts
    BY <2>3, LeastExists, SameText
  <2>5. Blocks!Least(starts) \in 1 .. Len(s)
    BY <2>3, <2>4
  <2> QED  BY <1>1, <1>2, <1>5, <2>5
<1> QED  BY <1>4, <1>5

SameBlocks(d, e) ==
  BlockOK(e) /\ \A c : Counted(c) => BlockWeight(c, e) = BlockWeight(c, d)

\* Text outside of a block is shown or held back.
LEMMA BlockNormal ==
  ASSUME NEW d, BlockOK(d), d.state = "normal"
  PROVE  SameBlocks(d, Blocks!processNormal(d))
<1> DEFINE e == Blocks!processNormal(d)
           s == d.pending
           openers == Blocks!Openers(s)
           open == CHOOSE o \in openers : \A p \in openers : o[1] <= p[1]
           start == Blocks!PartialFence(s)
<1>1. /\ d \in BlockDetector_ /\ d.lost = <<>> /\ s \in Seq(Symbol) /\ Len(s) \in Nat
      /\ d.text \in Seq(Symbol)
  BY BlockParts DEF BlockOK
<1>2. BlockRest(d) = <<>>
  BY <1>1 DEF BlockRest
<1>3. ASSUME NEW t, NEW rest, t \in Seq(Symbol), rest \in Seq(Symbol), BlockOK(e),
             e.text = d.text \o t, e.pending = rest, e.blocks = d.blocks, e.lost = d.lost,
             \A c : Counted(c) => Count(c, s) = Count(c, t) + Count(c, BlockRest(e)) + Count(c, rest)
      PROVE  SameBlocks(d, e)
  <2> HIDE DEF e, s
  <2>1. ASSUME NEW c, Counted(c) PROVE BlockWeight(c, e) = BlockWeight(c, d)
    <3>1. PICK a \in Nat, b \in Nat, k \in Nat, m \in Nat, n \in Nat :
            /\ a = Count(c, d.text) /\ b = Count(c, FlattenSeq(Contents(d.blocks)))
            /\ k = Count(c, t) /\ m = Count(c, rest) /\ n = Count(c, BlockRest(e))
      <4>1. /\ Count(c, d.text) \in Nat /\ Count(c, FlattenSeq(Contents(d.blocks))) \in Nat
            /\ Count(c, t) \in Nat /\ Count(c, rest) \in Nat /\ Count(c, BlockRest(e)) \in Nat
        BY <1>1, <1>3, BlockParts, Sums DEF BlockOK
      <4> QED  BY ONLY <4>1, Zenon
    <3>2. Count(c, d.text \o t) = a + k
      BY ONLY <1>1, <1>3, <3>1, Together
    <3>3. Count(c, s) = k + n + m
      BY ONLY <1>3, <2>1, <3>1
    <3>4. Count(c, BlockRest(d)) = 0
      BY <1>2, Sums
    <3>5. a + k + b + m + n = a + b + (k + n + m) + 0
      OBVIOUS
    <3> QED  BY ONLY <1>3, <3>1, <3>2, <3>3, <3>4, <3>5 DEF BlockWeight, Shown, s
  <2> QED  BY <1>3, <2>1 DEF SameBlocks
<1>4. CASE openers # {}
  <2> DEFINE i == open[1]
             j == open[2]
             language == SubSeq(s, i + 3, j - 1)
  <2>1. e = [d EXCEPT !.text = d.text \o Before(s, i), !.buffer = <<>>, !.state = "in_block",
                      !.language = language, !.pending = From(s, j + 1)]
    BY <1>4, SameText DEF Blocks!processNormal
  <2>2. /\ i \in 1 .. Len(s) /\ j \in i + 3 .. Len(s) /\ s[j] = NL
        /\ \A k \in i .. i + 2 : s[k] = Tick
    BY <1>1, <1>4, OpenerPlaces
  <2> HIDE DEF i, j, e, s
  <2>3. i \in 1 .. Len(s) + 1 /\ i + 3 \in i .. Len(s) + 1 /\ i + 3 \in 1 .. Len(s)
        /\ j \in 1 .. Len(s) /\ j + 1 \in 1 .. Len(s) + 1 /\ j \in i + 3 .. Len(s)
    BY <1>1, <2>2
  <2>4. Before(s, i) \in Seq(Symbol) /\ From(s, j + 1) \in Seq(Symbol)
    BY <1>1, <2>3, CutBefore
  <2>5. language \in Seq(Symbol)
    BY <1>1, <2>3
  <2>6. ASSUME NEW c, Counted(c)
        PROVE  Count(c, s) = Count(c, Before(s, i)) + Count(c, language) + Count(c, From(s, j + 1))
    <3>1. c # Tick /\ c # NL
      BY <2>6 DEF Counted, Plain
    <3>2. Count(c, s) = Count(c, Before(s, i)) + Count(c, From(s, i))
      BY <1>1, <2>3, CutBefore
    <3>3. \A k \in i .. (i + 3) - 1 : s[k] # c
      BY <2>2, <2>3, <3>1
    <3>4. Count(c, From(s, i)) = Count(c, From(s, i + 3))
      BY <1>1, <2>3, <3>3, CutOut
    <3>5. Count(c, From(s, i + 3)) = Count(c, language) + Count(c, From(s, j + 1))
      BY <1>1, <2>2, <2>3, <3>1, CutMiddle
    <3>6. /\ Count(c, Before(s, i)) \in Nat /\ Count(c, language) \in Nat
          /\ Count(c, From(s, j + 1)) \in Nat
      BY <2>4, <2>5, Sums
    <3>7. PICK x \in Nat, y \in Nat, z \in Nat :
            x = Count(c, Before(s, i)) /\ y = Count(c, language) /\ z = Count(c, From(s, j + 1))
      BY ONLY <3>6, Zenon
    <3>8. x + (y + z) = x + y + z
      OBVIOUS
    <3> QED  BY ONLY <3>2, <3>4, <3>5, <3>7, <3>8
  <2> HIDE DEF language
  <2>7. d.text \o Before(s, i) \in Seq(Symbol)
    BY <1>1, <2>4, Together
  <2>8. /\ e \in BlockDetector_ /\ e.text = d.text \o Before(s, i) /\ e.buffer = <<>>
        /\ e.state = "in_block" /\ e.language = language /\ e.pending = From(s, j + 1)
        /\ e.blocks = d.blocks /\ e.lost = d.lost
    BY <1>1, <2>1, <2>4, <2>5, <2>7, EmptyText DEF BlockDetector_
  <2>9. BlockRest(e) = language
    BY <2>5, <2>8, Symbols DEF BlockRest
  <2> QED  BY <1>1, <1>3, <2>4, <2>6, <2>8, <2>9 DEF e, BlockOK
<1>5. ASSUME NEW k \in 1 .. Len(s) + 1,
             e = [d EXCEPT !.text = d.text \o Before(s, k), !.pending = From(s, k)]
      PROVE  SameBlocks(d, e)
  <2> HIDE DEF e, s
  <2>1. Before(s, k) \in Seq(Symbol) /\ From(s, k) \in Seq(Symbol)
    BY <1>1, CutBefore
  <2>2. d.text \o Before(s, k) \in Seq(Symbol)
    BY <1>1, <2>1, Together
  <2>3. /\ e \in BlockDetector_ /\ e.text = d.text \o Before(s, k) /\ e.pending = From(s, k)
        /\ e.blocks = d.blocks /\ e.lost = d.lost /\ e.state = "normal"
    BY <1>1, <1>5, <2>1, <2>2 DEF BlockDetector_
  <2>4. BlockRest(e) = <<>>
    BY <1>1, <2>3 DEF BlockRest
  <2>5. ASSUME NEW c
        PROVE  Count(c, s) = Count(c, Before(s, k)) + Count(c, BlockRest(e)) + Count(c, From(s, k))
    <3>1. Count(c, s) = Count(c, Before(s, k)) + Count(c, From(s, k))
      BY <1>1, CutBefore
    <3>2. PICK x \in Nat, y \in Nat : x = Count(c, Before(s, k)) /\ y = Count(c, From(s, k))
      BY <2>1, Sums
    <3>3. Count(c, BlockRest(e)) = 0 /\ x + y = x + 0 + y
      BY <2>4, Sums
    <3> QED  BY ONLY <3>1, <3>2, <3>3
  <2> QED  BY <1>1, <1>3, <2>1, <2>3, <2>5 DEF e, BlockOK
<1>6. CASE openers = {} /\ start # 0 /\ Len(s) - start + 1 <= HoldMax
  <2>1. e = [d EXCEPT !.text = d.text \o Before(s, start), !.pending = From(s, start)]
    BY <1>6, SameText DEF Blocks!processNormal
  <2>2. start \in 1 .. Len(s) + 1
    <3>1. start \in 0 .. Len(s)
      BY <1>1, PartialFencePlace
    <3> HIDE DEF start, s
    <3> QED  BY <1>1, <1>6, <3>1
  <2> HIDE DEF e, start, s
  <2> QED  BY <1>5, <2>1, <2>2 DEF e
<1>7. CASE openers = {} /\ ~(start # 0 /\ Len(s) - start + 1 <= HoldMax)
  <2>1. e = [d EXCEPT !.text = d.text \o s, !.pending = <<>>]
    BY <1>7 DEF Blocks!processNormal
  <2>2. Before(s, Len(s) + 1) = s /\ From(s, Len(s) + 1) = <<>> /\ Len(s) + 1 \in 1 .. Len(s) + 1
    BY <1>1 DEF Before, From
  <2> HIDE DEF e, s
  <2>3. e = [d EXCEPT !.text = d.text \o Before(s, Len(s) + 1), !.pending = From(s, Len(s) + 1)]
    BY ONLY <2>1, <2>2
  <2> QED  BY <1>5, <2>2, <2>3 DEF e
<1> QED  BY <1>4, <1>6, <1>7

\* A block that closes is collected or shown again, with its language unless it is acted on.
LEMMA BlockCloses ==
  ASSUME NEW d, BlockOK(d), NEW content \in Seq(Symbol)
  PROVE  LET e == Blocks!Closed(d, content)
         IN  /\ BlockOK(e) /\ e.state = "normal" /\ e.pending = d.pending
             /\ \A c : Counted(c) =>
                  Shown(c, e) = Shown(c, d) + Count(c, content) + Count(c, d.language)
<1> DEFINE e == Blocks!Closed(d, content)
           block == [language |-> d.language, content |-> content]
           done == [d EXCEPT !.state = "normal", !.buffer = <<>>, !.language = <<>>]
           shown == d.text \o Fence \o d.language \o <<NL>> \o content \o <<NL>> \o Fence
<1>1. /\ d \in BlockDetector_ /\ d.lost = <<>> /\ d.text \in Seq(Symbol)
      /\ d.language \in Seq(Symbol) /\ d.blocks \in Seq(Block_)
      /\ FlattenSeq(Contents(d.blocks)) \in Seq(Symbol)
  BY BlockParts DEF BlockOK
<1>2. IF d.language \in Languages
      THEN e = [done EXCEPT !.text = Append(@, "summary"), !.blocks = Append(@, block)]
      ELSE e = [done EXCEPT !.text = shown]
  BY <1>1, SameText DEF Blocks!Closed, BlockDetector_
<1> HIDE DEF e, shown
<1>3. block \in Block_ /\ block.content = content
  BY <1>1 DEF Block_
<1> HIDE DEF block
<1>4. CASE d.language \in Languages
  <2>1. /\ Append(d.blocks, block) \in Seq(Block_) /\ Contents(d.blocks) \in Seq(Seq(Symbol))
        /\ FlattenSeq(Contents(Append(d.blocks, block))) = FlattenSeq(Contents(d.blocks)) \o content
    BY <1>1, <1>3, BlockMore
  <2>2. Append(d.text, "summary") \in Seq(Symbol)
    BY <1>1, SymbolsThatAreWritten
  <2>3. /\ BlockOK(e) /\ e.state = "normal" /\ e.pending = d.pending
        /\ e.text = Append(d.text, "summary") /\ e.blocks = Append(d.blocks, block)
    BY <1>1, <1>2, <1>4, <2>1, <2>2, EmptyText DEF BlockOK, BlockDetector_
  <2>4. ASSUME NEW c, Counted(c)
        PROVE  Shown(c, e) = Shown(c, d) + Count(c, content) + Count(c, d.language)
    <3>1. "summary" # c /\ "summary" \in Symbol
      BY <2>4, SymbolsThatAreWritten DEF Counted, Plain
    <3>2. Count(c, d.language) = 0
      <4>1. c \notin Range(d.language)
        BY <1>4, <2>4 DEF Counted
      <4>2. \A i \in DOMAIN d.language : d.language[i] # c
        BY <4>1 DEF Range
      <4> QED  BY <1>1, <4>2, CountNone
    <3>3. PICK a \in Nat, b \in Nat, k \in Nat :
            /\ a = Count(c, d.text) /\ b = Count(c, FlattenSeq(Contents(d.blocks)))
            /\ k = Count(c, content)
      <4>1. /\ Count(c, d.text) \in Nat /\ Count(c, FlattenSeq(Contents(d.blocks))) \in Nat
            /\ Count(c, content) \in Nat
        BY <1>1, Sums
      <4> QED  BY ONLY <4>1, Zenon
    <3>4. Count(c, Append(d.text, "summary")) = a + 0
      BY ONLY <1>1, <3>1, <3>3, Sums
    <3>5. Count(c, FlattenSeq(Contents(d.blocks)) \o content) = b + k
      BY ONLY <1>1, <3>3, Together, content \in Seq(Symbol)
    <3>6. (a + 0) + (b + k) = (a + b) + k + 0
      OBVIOUS
    <3> QED  BY ONLY <2>1, <2>3, <3>2, <3>3, <3>4, <3>5, <3>6 DEF Shown
  <2> QED  BY <2>3, <2>4 DEF e
<1>5. CASE d.language \notin Languages
  <2>1. PICK t1 \in Seq(Symbol) : t1 = d.text \o Fence
    BY <1>1, Together, SymbolsThatAreWritten
  <2>2. PICK t2 \in Seq(Symbol) : t2 = t1 \o d.language
    BY <1>1, Together
  <2>3. PICK t3 \in Seq(Symbol) :
          t3 = t2 \o <<NL>> \o content \o <<NL>> \o Fence
    <3>1. PICK u \in Seq(Symbol) : u = t2 \o <<NL>>
      BY Together, SymbolsThatAreWritten
    <3>2. PICK v \in Seq(Symbol) : v = u \o content
      BY Together
    <3>3. PICK w \in Seq(Symbol) : w = v \o <<NL>>
      BY Together, SymbolsThatAreWritten
    <3>4. PICK x \in Seq(Symbol) : x = w \o Fence
      BY Together, SymbolsThatAreWritten
    <3> QED  BY ONLY <3>1, <3>2, <3>3, <3>4, x \in Seq(Symbol)
  <2>4. shown = t3
    BY ONLY <2>1, <2>2, <2>3 DEF shown
  <2>5. ASSUME NEW c, Counted(c)
        PROVE  Count(c, t3) = Count(c, d.text) + Count(c, d.language) + Count(c, content)
    <3>1. Plain(c)
      BY <2>5 DEF Counted
    <3>2. PICK n \in Seq(Symbol), f \in Seq(Symbol) :
            n = <<NL>> /\ f = Fence /\ Count(c, n) = 0 /\ Count(c, f) = 0
      BY <3>1, SymbolsThatAreWritten
    <3>3. PICK u \in Seq(Symbol) : u = t2 \o n
      BY Together
    <3>4. PICK v \in Seq(Symbol) : v = u \o content
      BY Together
    <3>5. PICK w \in Seq(Symbol) : w = v \o n
      BY Together
    <3>6. PICK x \in Seq(Symbol) : x = w \o f
      BY Together
    <3>7. x = t3
      BY ONLY <2>3, <3>2, <3>3, <3>4, <3>5, <3>6
    <3>8. /\ Count(c, t1) = Count(c, d.text) + 0
          /\ Count(c, t2) = Count(c, t1) + Count(c, d.language)
          /\ Count(c, u) = Count(c, t2) + 0 /\ Count(c, v) = Count(c, u) + Count(c, content)
          /\ Count(c, w) = Count(c, v) + 0 /\ Count(c, x) = Count(c, w) + 0
      <4>1. Count(c, d.text \o Fence) = Count(c, d.text) + Count(c, Fence)
        BY ONLY <1>1, SymbolsThatAreWritten, Together
      <4>2. Count(c, t1 \o d.language) = Count(c, t1) + Count(c, d.language)
        BY ONLY <1>1, Together, t1 \in Seq(Symbol)
      <4>3. /\ Count(c, t2 \o n) = Count(c, t2) + Count(c, n)
            /\ Count(c, u \o content) = Count(c, u) + Count(c, content)
            /\ Count(c, v \o n) = Count(c, v) + Count(c, n)
            /\ Count(c, w \o f) = Count(c, w) + Count(c, f)
        <5>1. Count(c, t2 \o n) = Count(c, t2) + Count(c, n)
          BY ONLY Together, t2 \in Seq(Symbol), n \in Seq(Symbol)
        <5>2. Count(c, u \o content) = Count(c, u) + Count(c, content)
          BY ONLY Together, u \in Seq(Symbol), content \in Seq(Symbol)
        <5>3. Count(c, v \o n) = Count(c, v) + Count(c, n)
          BY ONLY Together, v \in Seq(Symbol), n \in Seq(Symbol)
        <5>4. Count(c, w \o f) = Count(c, w) + Count(c, f)
          BY ONLY Together, w \in Seq(Symbol), f \in Seq(Symbol)
        <5> QED  BY ONLY <5>1, <5>2, <5>3, <5>4
      <4> QED  BY ONLY <2>1, <2>2, <3>2, <3>3, <3>4, <3>5, <3>6, <4>1, <4>2, <4>3
    <3>9. PICK a \in Nat, b \in Nat, k \in Nat :
            a = Count(c, d.text) /\ b = Count(c, d.language) /\ k = Count(c, content)
      <4>1. Count(c, d.text) \in Nat /\ Count(c, d.language) \in Nat /\ Count(c, content) \in Nat
        BY <1>1, Sums
      <4> QED  BY ONLY <4>1, Zenon
    <3>10. (((((a + 0) + b) + 0) + k) + 0) + 0 = a + b + k
      OBVIOUS
    <3> QED  BY ONLY <3>7, <3>8, <3>9, <3>10
  <2>6. /\ BlockOK(e) /\ e.state = "normal" /\ e.pending = d.pending /\ e.text = t3
        /\ e.blocks = d.blocks
    BY <1>1, <1>2, <1>5, <2>4, EmptyText DEF BlockOK, BlockDetector_
  <2>7. ASSUME NEW c, Counted(c)
        PROVE  Shown(c, e) = Shown(c, d) + Count(c, content) + Count(c, d.language)
    <3>1. PICK a \in Nat, b \in Nat, k \in Nat, m \in Nat :
            /\ a = Count(c, d.text) /\ b = Count(c, FlattenSeq(Contents(d.blocks)))
            /\ k = Count(c, content) /\ m = Count(c, d.language)
      <4>1. /\ Count(c, d.text) \in Nat /\ Count(c, FlattenSeq(Contents(d.blocks))) \in Nat
            /\ Count(c, content) \in Nat /\ Count(c, d.language) \in Nat
        BY <1>1, Sums
      <4> QED  BY ONLY <4>1, Zenon
    <3>2. Count(c, t3) = a + m + k
      BY ONLY <2>5, <2>7, <3>1
    <3>3. (a + m + k) + b = (a + b) + k + m
      OBVIOUS
    <3> QED  BY ONLY <2>6, <3>1, <3>2, <3>3 DEF Shown
  <2> QED  BY <2>6, <2>7 DEF e
<1> QED  BY <1>4, <1>5

\* Text in a block is collected up to the closing fence.
LEMMA BlockInside ==
  ASSUME NEW d, BlockOK(d), d.state = "in_block"
  PROVE  SameBlocks(d, Blocks!processInBlock(d))
<1> DEFINE e == Blocks!processInBlock(d)
           s == d.pending
           ends == Places(s, Fence)
           i == Least(ends)
           k == Len(s) - Blocks!TrailingTicks(s) + 1
<1>1. /\ d \in BlockDetector_ /\ d.lost = <<>> /\ s \in Seq(Symbol) /\ Len(s) \in Nat
      /\ d.buffer \in Seq(Symbol) /\ d.language \in Seq(Symbol)
      /\ BlockRest(d) = d.buffer \o d.language
      /\ \A c : Count(c, d.buffer \o d.language) = Count(c, d.buffer) + Count(c, d.language)
  <2>1. d \in BlockDetector_ /\ d.lost = <<>>
    BY DEF BlockOK
  <2>2. s \in Seq(Symbol) /\ Len(s) \in Nat /\ d.buffer \in Seq(Symbol) /\ d.language \in Seq(Symbol)
    BY <2>1, BlockParts
  <2>3. BlockRest(d) = d.buffer \o d.language
    BY DEF BlockRest
  <2> QED  BY ONLY <2>1, <2>2, <2>3, Together
<1>2. CASE ends # {}
  <2> DEFINE d1 == [d EXCEPT !.pending = From(s, i + 3)]
             content == Trim(d.buffer \o Before(s, i))
  <2>1. e = Blocks!Closed(d1, content)
    BY <1>2, SameText DEF Blocks!processInBlock
  <2>2. /\ i \in 1 .. Len(s) /\ i + 2 \in 1 .. Len(s)
        /\ s[i] = Tick /\ s[i + 1] = Tick /\ s[i + 2] = Tick
    BY <1>1, <1>2, FencePlaces
  <2> HIDE DEF i, e, s
  <2>3. i \in 1 .. Len(s) + 1 /\ i + 3 \in i .. Len(s) + 1 /\ i + 3 \in 1 .. Len(s) + 1
    BY <1>1, <2>2
  <2>4. Before(s, i) \in Seq(Symbol) /\ From(s, i + 3) \in Seq(Symbol)
    BY <1>1, <2>3, CutBefore
  <2>5. PICK x \in Seq(Symbol), w \in Seq(Symbol) : x = Before(s, i) /\ w = d.buffer \o x
    BY <1>1, <2>4, Together
  <2>6. content \in Seq(Symbol) /\ \A c : Counted(c) => Count(c, content) = Count(c, w)
    <3>1. \A c : c # NL => Trim(w) \in Seq(Symbol) /\ Count(c, Trim(w)) = Count(c, w)
      BY CountTrim
    <3>2. \A c : Counted(c) => c # NL
      BY DEF Counted, Plain
    <3>3. Trim(w) \in Seq(Symbol)
      BY <3>1, SomePlain DEF Plain
    <3> QED  BY ONLY <2>5, <3>1, <3>2, <3>3
  <2>7. /\ d1 \in BlockDetector_ /\ d1.lost = <<>> /\ d1.text = d.text /\ d1.blocks = d.blocks
        /\ d1.language = d.language /\ d1.pending = From(s, i + 3)
    BY <1>1, <2>4 DEF BlockDetector_
  <2>8. BlockOK(d1)
    BY <2>7 DEF BlockOK
  <2> HIDE DEF d1, content
  <2>9. /\ BlockOK(e) /\ e.state = "normal" /\ e.pending = d1.pending
        /\ \A c : Counted(c) =>
             Shown(c, e) = Shown(c, d1) + Count(c, content) + Count(c, d1.language)
    BY <2>1, <2>6, <2>8, BlockCloses
  <2>10. BlockRest(e) = <<>>
    BY <2>9 DEF BlockOK, BlockRest
  <2>11. ASSUME NEW c, Counted(c) PROVE BlockWeight(c, e) = BlockWeight(c, d)
    <3>1. \A j \in i .. (i + 3) - 1 : s[j] # c
      <4>1. \A j \in i .. (i + 3) - 1 : j = i \/ j = i + 1 \/ j = i + 2
        BY <2>2
      <4>2. c # Tick
        BY <2>11 DEF Counted, Plain
      <4> QED  BY <2>2, <4>1, <4>2
    <3>2. Count(c, From(s, i)) = Count(c, From(s, i + 3))
      BY <1>1, <2>3, <3>1, CutOut
    <3>3. Count(c, s) = Count(c, Before(s, i)) + Count(c, From(s, i))
      BY <1>1, <2>3, CutBefore
    <3>4. PICK a \in Nat, b \in Nat, m \in Nat, y \in Nat, z \in Nat :
            /\ a = Shown(c, d) /\ b = Count(c, d.buffer) /\ m = Count(c, d.language)
            /\ y = Count(c, x) /\ z = Count(c, From(s, i + 3))
      <4>1. /\ Shown(c, d) \in Nat /\ Count(c, d.buffer) \in Nat /\ Count(c, d.language) \in Nat
            /\ Count(c, x) \in Nat /\ Count(c, From(s, i + 3)) \in Nat
        BY <1>1, <2>4, BlockParts, Sums
      <4> QED  BY ONLY <4>1, Zenon
    <3>5. Count(c, d.buffer \o x) = b + y
      BY ONLY <1>1, <3>4, Together, x \in Seq(Symbol)
    <3>6. Shown(c, e) = a + (b + y) + m
      <4>1. Shown(c, d1) = Shown(c, d)
        BY ONLY <2>7 DEF Shown
      <4> QED  BY ONLY <2>5, <2>6, <2>7, <2>9, <2>11, <3>4, <3>5, <4>1
    <3>7. Count(c, e.pending) = z /\ Count(c, BlockRest(e)) = 0
      BY ONLY <2>7, <2>9, <2>10, <3>4, Sums
    <3>8. Count(c, s) = y + z /\ Count(c, BlockRest(d)) = b + m
      BY ONLY <1>1, <2>5, <3>2, <3>3, <3>4
    <3>9. (a + (b + y) + m) + z + 0 = a + (y + z) + (b + m)
      OBVIOUS
    <3> QED  BY ONLY <3>4, <3>6, <3>7, <3>8, <3>9 DEF BlockWeight, s
  <2> QED  BY <2>9, <2>11 DEF SameBlocks, e
<1>3. CASE ends = {}
  <2>1. e = [d EXCEPT !.buffer = @ \o SubSeq(s, 1, Len(s) - Blocks!TrailingTicks(s)),
                      !.pending = From(s, k)]
    BY <1>3, SameText DEF Blocks!processInBlock
  <2>2. k \in 1 .. Len(s) + 1 /\ k - 1 = Len(s) - Blocks!TrailingTicks(s)
    <3>1. Blocks!TrailingTicks(s) \in 0 .. Len(s)
      BY <1>1, TrailingTicksFit
    <3> HIDE DEF s
    <3> QED  BY <1>1, <3>1
  <2>3. e = [d EXCEPT !.buffer = d.buffer \o Before(s, k), !.pending = From(s, k)]
    BY <2>1, <2>2 DEF Before
  <2> HIDE DEF e, k, s
  <2>4. Before(s, k) \in Seq(Symbol) /\ From(s, k) \in Seq(Symbol)
    BY <1>1, <2>2, CutBefore
  <2>5. PICK x \in Seq(Symbol), w \in Seq(Symbol) : x = Before(s, k) /\ w = d.buffer \o x
    BY <1>1, <2>4, Together
  <2>6. /\ e \in BlockDetector_ /\ e.lost = <<>> /\ e.buffer = w /\ e.pending = From(s, k)
        /\ e.language = d.language /\ e.text = d.text /\ e.blocks = d.blocks
        /\ e.state = "in_block"
    BY <1>1, <2>3, <2>4, <2>5 DEF BlockDetector_
  <2>7. BlockRest(e) = w \o d.language
    BY <2>6 DEF BlockRest
  <2>8. ASSUME NEW c PROVE BlockWeight(c, e) = BlockWeight(c, d)
    <3>1. Count(c, s) = Count(c, Before(s, k)) + Count(c, From(s, k))
      BY <1>1, <2>2, CutBefore
    <3>2. PICK a \in Nat, b \in Nat, m \in Nat, y \in Nat, z \in Nat :
            /\ a = Shown(c, d) /\ b = Count(c, d.buffer) /\ m = Count(c, d.language)
            /\ y = Count(c, x) /\ z = Count(c, From(s, k))
      <4>1. /\ Shown(c, d) \in Nat /\ Count(c, d.buffer) \in Nat /\ Count(c, d.language) \in Nat
            /\ Count(c, x) \in Nat /\ Count(c, From(s, k)) \in Nat
        BY <1>1, <2>4, BlockParts, Sums
      <4> QED  BY ONLY <4>1, Zenon
    <3>3. Count(c, d.buffer \o x) = b + y
      BY ONLY <1>1, <3>2, Together, x \in Seq(Symbol)
    <3>4. Count(c, w \o d.language) = (b + y) + m
      <4>1. Count(c, w \o d.language) = Count(c, w) + Count(c, d.language)
        BY ONLY <1>1, Together, w \in Seq(Symbol)
      <4> QED  BY ONLY <2>5, <3>2, <3>3, <4>1
    <3>5. Shown(c, e) = a
      BY ONLY <2>6, <3>2 DEF Shown
    <3>6. Count(c, s) = y + z /\ Count(c, BlockRest(d)) = b + m
      BY ONLY <1>1, <2>5, <3>1, <3>2
    <3>7. a + z + ((b + y) + m) = a + (y + z) + (b + m)
      OBVIOUS
    <3> QED  BY ONLY <2>6, <2>7, <3>2, <3>4, <3>5, <3>6, <3>7 DEF BlockWeight, s
  <2> QED  BY <2>6, <2>8 DEF SameBlocks, BlockOK, e
<1> QED  BY <1>2, <1>3

\* One round of the detection of code blocks.
LEMMA BlockRoundKeeps ==
  ASSUME NEW d, BlockOK(d)
  PROVE  SameBlocks(d, Blocks!BlockRound(d))
<1>1. d.state \in {"normal", "in_block"}
  BY DEF BlockOK, BlockDetector_
<1>2. CASE d.pending = <<>>
  BY <1>2 DEF Blocks!BlockRound, SameBlocks
<1>3. CASE d.pending # <<>> /\ d.state = "normal"
  BY <1>3, BlockNormal DEF Blocks!BlockRound
<1>4. CASE d.pending # <<>> /\ d.state = "in_block"
  BY <1>4, BlockInside DEF Blocks!BlockRound
<1> QED  BY <1>1, <1>2, <1>3, <1>4

\* The rounds are steps of one sequence of states of the detector.
LEMMA BlockRoundsInOrder ==
  ASSUME NEW d, BlockOK(d)
  PROVE  \E m \in Nat : \E f : /\ f[0] = d /\ Blocks!BlockRounds(d) = f[m]
                               /\ \A n \in 1 .. m : f[n] = Blocks!BlockRound(f[n - 1])
<1> DEFINE m == Len(d.pending)
           S == {e \in BlockDetector_ : BlockOK(e)}
           Equation(f) == f = [n \in 0 .. m |-> IF n = 0 THEN d ELSE Blocks!BlockRound(f[n - 1])]
           G == [s \in S \X (1 .. m) |-> Blocks!BlockRound(s[1])]
           g == CHOOSE f : Equation(f)
<1>1. m \in Nat
  BY BlockParts DEF BlockOK
<1>2. Blocks!BlockRounds(d) = g[m]
  BY DEF Blocks!BlockRounds
<1> HIDE DEF m
<1>3. d \in S
  BY DEF BlockOK
<1>4. G \in [S \X (1 .. m) -> S]
  <2>1. \A e \in S : Blocks!BlockRound(e) \in S
    BY BlockRoundKeeps DEF SameBlocks, BlockOK
  <2> HIDE DEF S
  <2> QED  BY <2>1
<1>5. \A s \in S, n \in 1 .. m : G[<<s, n>>] = Blocks!BlockRound(s)
  OBVIOUS
<1> HIDE DEF G, S
<1>6. PICK f \in [0 .. m -> S] : Recurs(f, d, G, m)
  BY <1>1, <1>3, <1>4, Recursion
<1>7. f[0] = d /\ \A n \in 1 .. m : f[n] = Blocks!BlockRound(f[n - 1])
  <2>1. ASSUME NEW n \in 1 .. m PROVE f[n] = Blocks!BlockRound(f[n - 1])
    <3>1. f[n] = G[<<f[n - 1], n>>]
      BY <1>6 DEF Recurs
    <3>2. f[n - 1] \in S
      BY <1>1
    <3> QED  BY <1>5, <3>1, <3>2
  <2> QED  BY <1>6, <2>1 DEF Recurs
<1>8. Equation(f)
  <2>1. f = [n \in 0 .. m |-> f[n]]
    OBVIOUS
  <2>2. \A n \in 0 .. m : f[n] = IF n = 0 THEN d ELSE Blocks!BlockRound(f[n - 1])
    BY <1>1, <1>7
  <2> QED  BY <2>1, <2>2, Zenon
<1>9. Equation(g)
  BY <1>8
<1>10. g[0] = d /\ \A n \in 1 .. m : g[n] = Blocks!BlockRound(g[n - 1])
  <2>1. \A n \in 0 .. m : g[n] = IF n = 0 THEN d ELSE Blocks!BlockRound(g[n - 1])
    BY <1>9
  <2> HIDE DEF g
  <2> QED  BY <1>1, <2>1
<1> HIDE DEF g
<1> QED  BY <1>1, <1>2, <1>10

\* The block detector adds up as well, up to what stands in the languages it acts on.
LEMMA BlockChunk ==
  ASSUME NEW d, BlockOK(d), NEW chunk \in Seq(Symbol)
  PROVE  LET e == Blocks!processChunk(d, chunk)
         IN  BlockOK(e) /\ \A c : Counted(c) => BlockWeight(c, e) = BlockWeight(c, d) + Count(c, chunk)
<1> DEFINE d1 == [d EXCEPT !.pending = @ \o chunk]
           longer == d.pending \o chunk
           e == Blocks!BlockRounds(d1)
<1>1. Blocks!processChunk(d, chunk) = e
  BY DEF Blocks!processChunk
<1>2. d \in BlockDetector_ /\ d.pending \in Seq(Symbol)
  BY BlockParts DEF BlockOK
<1>3. longer \in Seq(Symbol) /\ \A c : Count(c, longer) = Count(c, d.pending) + Count(c, chunk)
  BY <1>2, Together
<1>4. d1 = [d EXCEPT !.pending = longer]
  OBVIOUS
<1> HIDE DEF d1, longer
<1>5. /\ d1 \in BlockDetector_ /\ d1.pending = longer /\ d1.state = d.state /\ d1.buffer = d.buffer
      /\ d1.language = d.language /\ d1.text = d.text /\ d1.blocks = d.blocks
      /\ d1.lost = d.lost
  BY <1>2, <1>3, <1>4 DEF BlockDetector_
<1>6. BlockOK(d1) /\ BlockRest(d1) = BlockRest(d) /\ \A c : Shown(c, d1) = Shown(c, d)
  BY <1>5 DEF BlockOK, BlockRest, Shown
<1>7. ASSUME NEW c PROVE BlockWeight(c, d1) = BlockWeight(c, d) + Count(c, chunk)
  <2>1. PICK a \in Nat, k \in Nat, r \in Nat, y \in Nat :
          /\ a = Shown(c, d) /\ k = Count(c, d.pending) /\ r = Count(c, BlockRest(d))
          /\ y = Count(c, chunk)
    <3>1. /\ Shown(c, d) \in Nat /\ Count(c, d.pending) \in Nat /\ Count(c, BlockRest(d)) \in Nat
          /\ Count(c, chunk) \in Nat
      BY <1>2, BlockParts, Sums
    <3> QED  BY ONLY <3>1, Zenon
  <2>2. a + (k + y) + r = (a + k + r) + y
    OBVIOUS
  <2> QED  BY ONLY <1>3, <1>5, <1>6, <2>1, <2>2 DEF BlockWeight
<1>8. PICK m \in Nat : \E f : /\ f[0] = d1 /\ e = f[m]
                              /\ \A n \in 1 .. m : f[n] = Blocks!BlockRound(f[n - 1])
  <2>1. BlockOK(d1)
    BY <1>6
  <2> QED  BY ONLY <2>1, BlockRoundsInOrder
<1>9. PICK f : /\ f[0] = d1 /\ e = f[m]
               /\ \A n \in 1 .. m : f[n] = Blocks!BlockRound(f[n - 1])
  BY <1>8
<1> DEFINE D == [n \in 0 .. m |-> {s \in BlockDetector_ : SameBlocks(d1, s)}]
<1>10. f[0] \in D[0]
  BY <1>5, <1>6, <1>9 DEF SameBlocks
<1>11. \A n \in 1 .. m : f[n - 1] \in D[n - 1] => f[n] \in D[n]
  <2> SUFFICES ASSUME NEW n \in 1 .. m, f[n - 1] \in D[n - 1] PROVE f[n] \in D[n]
    OBVIOUS
  <2>1. n \in 0 .. m /\ SameBlocks(d1, f[n - 1])
    OBVIOUS
  <2>2. SameBlocks(f[n - 1], f[n])
    BY <1>9, <2>1, BlockRoundKeeps DEF SameBlocks
  <2>3. SameBlocks(d1, f[n]) /\ f[n] \in BlockDetector_
    BY <2>1, <2>2 DEF SameBlocks, BlockOK
  <2> QED  BY <2>1, <2>3
<1>12. SameBlocks(d1, e)
  <2> HIDE DEF D
  <2>1. \A n \in 0 .. m : f[n] \in D[n]
    BY ONLY <1>10, <1>11, m \in Nat, Stays
  <2> QED  BY <1>9, <2>1 DEF D
<1> HIDE DEF e
<1> QED  BY <1>1, <1>7, <1>12 DEF SameBlocks

\* The end of the answer: what is held back is shown, but for the opening of a block that
\* nothing came after.
LEMMA BlockEnds ==
  ASSUME NEW d, BlockOK(d)
  PROVE  LET e == Blocks!finalize(d)
         IN  e \in BlockDetector_ /\ \A c : Counted(c) => BlockWeight(c, e) = BlockWeight(c, d)
<1> DEFINE e == Blocks!finalize(d)
           open == d.state = "in_block" /\ d.buffer # <<>>
           text == d.text \o d.pending
           With(t, l) == [d EXCEPT !.text = t, !.pending = <<>>, !.buffer = <<>>, !.lost = l,
                                   !.state = "normal"]
<1>1. /\ d \in BlockDetector_ /\ d.lost = <<>> /\ d.text \in Seq(Symbol) /\ d.pending \in Seq(Symbol)
      /\ d.buffer \in Seq(Symbol) /\ d.language \in Seq(Symbol) /\ d.state \in {"normal", "in_block"}
  BY BlockParts DEF BlockOK
<1>2. PICK tp \in Seq(Symbol) :
        tp = d.text \o d.pending /\ \A c : Count(c, tp) = Count(c, d.text) + Count(c, d.pending)
  BY <1>1, Together
<1>3. ASSUME NEW t \in Seq(Symbol), NEW l \in Seq(Symbol), e = With(t, l),
             \A c : Counted(c) => Count(c, t) + Count(c, l) = Count(c, tp) + Count(c, BlockRest(d))
      PROVE  e \in BlockDetector_ /\ \A c : Counted(c) => BlockWeight(c, e) = BlockWeight(c, d)
  <2>1. /\ e \in BlockDetector_ /\ e.state = "normal" /\ e.text = t /\ e.blocks = d.blocks
        /\ e.pending = <<>> /\ e.lost = l
    BY <1>1, <1>3, EmptyText DEF BlockDetector_
  <2> HIDE DEF e
  <2>2. BlockRest(e) = l
    BY <2>1 DEF BlockRest
  <2>3. ASSUME NEW c, Counted(c) PROVE BlockWeight(c, e) = BlockWeight(c, d)
    <3>1. PICK a \in Nat, b \in Nat, k \in Nat, r \in Nat, u \in Nat, v \in Nat :
            /\ a = Count(c, d.text) /\ b = Count(c, FlattenSeq(Contents(d.blocks)))
            /\ k = Count(c, d.pending) /\ r = Count(c, BlockRest(d))
            /\ u = Count(c, t) /\ v = Count(c, l)
      <4>1. /\ Count(c, d.text) \in Nat /\ Count(c, FlattenSeq(Contents(d.blocks))) \in Nat
            /\ Count(c, d.pending) \in Nat /\ Count(c, BlockRest(d)) \in Nat
            /\ Count(c, t) \in Nat /\ Count(c, l) \in Nat
        BY <1>1, BlockParts, Sums
      <4> QED  BY ONLY <4>1, Zenon
    <3>2. u + v = (a + k) + r
      BY ONLY <1>2, <1>3, <2>3, <3>1
    <3>3. (u + b) + 0 + v = (a + b) + k + r
      BY <3>2
    <3> QED  BY ONLY <2>1, <2>2, <3>1, <3>3, Sums DEF BlockWeight, Shown
  <2> QED  BY <2>1, <2>3
<1>4. CASE open
  <2>1. /\ e = With(text \o (Fence \o d.language \o <<NL>> \o d.buffer), <<>>)
        /\ BlockRest(d) = d.buffer \o d.language
    BY <1>1, <1>4, SameText DEF Blocks!finalize, BlockRest
  <2> HIDE DEF e, text, With
  <2>2. PICK f \in Seq(Symbol), nl \in Seq(Symbol), g \in Seq(Symbol), b \in Seq(Symbol) :
          /\ f = Fence /\ nl = <<NL>> /\ g = d.language /\ b = d.buffer
          /\ \A c : Plain(c) => Count(c, f) = 0 /\ Count(c, nl) = 0
    BY <1>1, SymbolsThatAreWritten
  <2>3. PICK fg \in Seq(Symbol) : fg = f \o g /\ \A c : Count(c, fg) = Count(c, f) + Count(c, g)
    BY Together
  <2>4. PICK fn \in Seq(Symbol) : fn = fg \o nl /\ \A c : Count(c, fn) = Count(c, fg) + Count(c, nl)
    BY Together
  <2>5. PICK fb \in Seq(Symbol) : fb = fn \o b /\ \A c : Count(c, fb) = Count(c, fn) + Count(c, b)
    BY Together
  <2>6. PICK t \in Seq(Symbol) : t = tp \o fb /\ \A c : Count(c, t) = Count(c, tp) + Count(c, fb)
    BY Together
  <2>7. e = With(t, <<>>)
    BY ONLY <1>2, <2>1, <2>2, <2>3, <2>4, <2>5, <2>6 DEF text
  <2>8. ASSUME NEW c, Counted(c)
        PROVE  Count(c, t) + Count(c, <<>>) = Count(c, tp) + Count(c, BlockRest(d))
    <3>1. PICK x \in Nat, y \in Nat, z \in Nat :
            x = Count(c, tp) /\ y = Count(c, g) /\ z = Count(c, b)
      <4>1. Count(c, tp) \in Nat /\ Count(c, g) \in Nat /\ Count(c, b) \in Nat
        BY Sums
      <4> QED  BY ONLY <4>1, Zenon
    <3>2. Count(c, f) = 0 /\ Count(c, nl) = 0 /\ Count(c, <<>>) = 0
      BY <2>2, <2>8, Sums DEF Counted
    <3>3. Count(c, BlockRest(d)) = z + y
      <4>1. Count(c, b \o g) = Count(c, b) + Count(c, g)
        BY Together
      <4> QED  BY ONLY <2>1, <2>2, <3>1, <4>1
    <3>4. Count(c, t) = x + (((0 + y) + 0) + z)
      BY ONLY <2>3, <2>4, <2>5, <2>6, <3>1, <3>2
    <3>5. x + (((0 + y) + 0) + z) + 0 = x + (z + y)
      OBVIOUS
    <3> QED  BY ONLY <3>1, <3>2, <3>3, <3>4, <3>5
  <2> QED  BY <1>3, <2>7, <2>8, EmptyText DEF e
<1>5. CASE ~open
  <2>1. e = With(text \o <<>>, IF d.state = "in_block" THEN d.language ELSE <<>>)
    BY <1>1, <1>5 DEF Blocks!finalize
  <2>2. text \o <<>> = tp
    BY <1>2
  <2>3. BlockRest(d) = IF d.state = "in_block" THEN d.language ELSE <<>>
    <3>1. \A s \in Seq(Symbol) : <<>> \o s = s
      OBVIOUS
    <3> QED  BY <1>1, <1>5, <3>1 DEF BlockRest
  <2>4. BlockRest(d) \in Seq(Symbol)
    BY <1>1, BlockParts
  <2>5. PICK l \in Seq(Symbol) : l = BlockRest(d)
    BY <2>4
  <2> HIDE DEF e, text, With
  <2>6. e = With(tp, l) /\ \A c : Counted(c) => Count(c, tp) + Count(c, l)
                                                  = Count(c, tp) + Count(c, BlockRest(d))
    BY ONLY <2>1, <2>2, <2>3, <2>5
  <2> QED  BY <1>3, <2>6 DEF e
<1> QED  BY <1>4, <1>5

-------------------------------------------------------------------------------
(* No character is lost *)

\* The detector that the program uses.
Detectors == IF program = "server" THEN ToolDetector_ ELSE BlockDetector_
DetectorOK(d) == IF program = "server" THEN ToolOK(d) ELSE BlockOK(d)
Weight(c, d) == IF program = "server" THEN ToolWeight(c, d) ELSE BlockWeight(c, d)

\* Adds: e is what d becomes when it is given a text.
Adds(d, e, text) ==
  DetectorOK(e) /\ \A c : Counted(c) => Weight(c, e) = Weight(c, d) + Count(c, text)

\* A weight is a number.
LEMMA WeightType ==
  ASSUME NEW d, d \in Detectors, NEW c
  PROVE  Weight(c, d) \in Nat
<1>1. CASE program = "server"
  <2>1. d \in ToolDetector_
    BY <1>1 DEF Detectors
  <2>2. PICK a \in Nat, b \in Nat, k \in Nat, r \in Nat, x \in Nat :
          /\ a = Count(c, d.text) /\ b = Count(c, FlattenSeq(d.calls)) /\ k = Count(c, d.pending)
          /\ r = Count(c, Rest(d)) /\ x = Count(c, d.dropped)
    <3>1. /\ Count(c, d.text) \in Nat /\ Count(c, FlattenSeq(d.calls)) \in Nat
          /\ Count(c, d.pending) \in Nat /\ Count(c, Rest(d)) \in Nat /\ Count(c, d.dropped) \in Nat
      BY <2>1, ToolParts_
    <3> QED  BY ONLY <3>1, Zenon
  <2>3. a + b + k + r + x \in Nat
    OBVIOUS
  <2> QED  BY ONLY <1>1, <2>2, <2>3 DEF Weight, ToolWeight
<1>2. CASE program # "server"
  <2>1. d \in BlockDetector_
    BY <1>2 DEF Detectors
  <2>2. Shown(c, d) \in Nat /\ Count(c, d.pending) \in Nat /\ Count(c, BlockRest(d)) \in Nat
    BY <2>1, BlockParts
  <2> QED  BY ONLY <1>2, <2>2 DEF Weight, BlockWeight
<1> QED  BY <1>1, <1>2

\* A delta is added to what the detector has.
LEMMA OneChunk ==
  ASSUME NEW d, DetectorOK(d), NEW chunk \in Seq(Symbol)
  PROVE  Adds(d, onChunk(d, chunk), chunk)
<1>1. CASE program = "server"
  <2>1. onChunk(d, chunk) = Tools!processChunk(d, chunk) /\ ToolOK(d)
    BY <1>1 DEF onChunk, DetectorOK
  <2>2. LET e == Tools!processChunk(d, chunk)
        IN  ToolOK(e) /\ \A c : Plain(c) => ToolWeight(c, e) = ToolWeight(c, d) + Count(c, chunk)
    BY <2>1, ToolChunk
  <2> QED  BY <1>1, <2>1, <2>2 DEF Adds, DetectorOK, Weight, Counted
<1>2. CASE program # "server"
  <2>1. onChunk(d, chunk) = Blocks!processChunk(d, chunk) /\ BlockOK(d)
    BY <1>2 DEF onChunk, DetectorOK
  <2>2. LET e == Blocks!processChunk(d, chunk)
        IN  BlockOK(e) /\ \A c : Counted(c) => BlockWeight(c, e) = BlockWeight(c, d) + Count(c, chunk)
    BY <2>1, BlockChunk
  <2> QED  BY <1>2, <2>1, <2>2 DEF Adds, DetectorOK, Weight
<1> QED  BY <1>1, <1>2

\* The deltas are given to the detector in their order.
LEMMA ChunksInOrder ==
  ASSUME NEW d, DetectorOK(d), NEW chunks \in Seq(Seq(Symbol))
  PROVE  \E f : /\ f[0] = d /\ onChunks(d, chunks) = f[Len(chunks)]
                /\ \A n \in 1 .. Len(chunks) : f[n] = onChunk(f[n - 1], chunks[n])
<1> DEFINE m == Len(chunks)
           S == {e \in Detectors : DetectorOK(e)}
           Equation(f) ==
             f = [n \in 0 .. m |-> IF n = 0 THEN d ELSE onChunk(f[n - 1], chunks[n])]
           G == [s \in S \X (1 .. m) |-> onChunk(s[1], chunks[s[2]])]
           g == CHOOSE f : Equation(f)
<1>1. m \in Nat /\ \A n \in 1 .. m : chunks[n] \in Seq(Symbol)
  OBVIOUS
<1>2. onChunks(d, chunks) = g[m]
  BY DEF onChunks
<1> HIDE DEF m
<1>3. \A e : DetectorOK(e) => e \in S
  BY DEF DetectorOK, Detectors, ToolOK, BlockOK
<1>4. G \in [S \X (1 .. m) -> S]
  <2>1. \A e \in S : \A n \in 1 .. m : onChunk(e, chunks[n]) \in S
    BY <1>1, <1>3, OneChunk DEF Adds
  <2> HIDE DEF S
  <2> QED  BY <2>1
<1>5. d \in S
  BY <1>3
<1>6. \A s \in S, n \in 1 .. m : G[<<s, n>>] = onChunk(s, chunks[n])
  OBVIOUS
<1> HIDE DEF G, S
<1>7. PICK f \in [0 .. m -> S] : Recurs(f, d, G, m)
  BY <1>1, <1>4, <1>5, Recursion
<1>8. f[0] = d /\ \A n \in 1 .. m : f[n] = onChunk(f[n - 1], chunks[n])
  <2>1. ASSUME NEW n \in 1 .. m PROVE f[n] = onChunk(f[n - 1], chunks[n])
    <3>1. f[n] = G[<<f[n - 1], n>>]
      BY <1>7 DEF Recurs
    <3>2. f[n - 1] \in S
      BY <1>1
    <3> QED  BY <1>6, <3>1, <3>2
  <2> QED  BY <1>7, <2>1 DEF Recurs
<1>9. Equation(f)
  <2>1. f = [n \in 0 .. m |-> f[n]]
    OBVIOUS
  <2>2. \A n \in 0 .. m : f[n] = IF n = 0 THEN d ELSE onChunk(f[n - 1], chunks[n])
    BY <1>1, <1>8
  <2> QED  BY <2>1, <2>2, Zenon
<1>10. Equation(g)
  BY <1>9
<1>11. g[0] = d /\ \A n \in 1 .. m : g[n] = onChunk(g[n - 1], chunks[n])
  <2>1. \A n \in 0 .. m : g[n] = IF n = 0 THEN d ELSE onChunk(g[n - 1], chunks[n])
    BY <1>10
  <2> HIDE DEF g
  <2> QED  BY <1>1, <2>1
<1> HIDE DEF g
<1> QED  BY <1>2, <1>11 DEF m

\* What n deltas have added.
LEMMA FlattenMore ==
  ASSUME NEW chunks \in Seq(Seq(Symbol)), NEW n \in 1 .. Len(chunks)
  PROVE  /\ FlattenSeq(SubSeq(chunks, 1, n)) = FlattenSeq(SubSeq(chunks, 1, n - 1)) \o chunks[n]
         /\ FlattenSeq(SubSeq(chunks, 1, n - 1)) \in Seq(Symbol) /\ chunks[n] \in Seq(Symbol)
<1> DEFINE before == SubSeq(chunks, 1, n - 1)
<1>1. before \in Seq(Seq(Symbol)) /\ chunks[n] \in Seq(Symbol)
  OBVIOUS
<1>2. SubSeq(chunks, 1, n) = Append(before, chunks[n])
  OBVIOUS
<1> HIDE DEF before
<1> QED  BY <1>1, <1>2, FlattenAppend, FlattenType DEF before

\* The messages are added to what the detector has.
LEMMA Chunks ==
  ASSUME NEW d, DetectorOK(d), NEW chunks \in Seq(Seq(Symbol))
  PROVE  Adds(d, onChunks(d, chunks), FlattenSeq(chunks))
<1> DEFINE m == Len(chunks)
           Upto(n) == FlattenSeq(SubSeq(chunks, 1, n))
           e == onChunks(d, chunks)
<1>1. PICK f : /\ f[0] = d /\ e = f[m]
               /\ \A n \in 1 .. m : f[n] = onChunk(f[n - 1], chunks[n])
  BY ChunksInOrder
<1> HIDE DEF e
<1>2. \A x : DetectorOK(x) => x \in Detectors
  BY DEF DetectorOK, Detectors, ToolOK, BlockOK
<1> DEFINE D == [n \in 0 .. m |-> {s \in Detectors : Adds(d, s, Upto(n))}]
<1>3. f[0] \in D[0]
  <2>1. Upto(0) = <<>>
    <3>1. SubSeq(chunks, 1, 0) = <<>>
      OBVIOUS
    <3> QED  BY <3>1, FlattenEmpty
  <2>2. \A c : Weight(c, d) = Weight(c, d) + Count(c, <<>>)
    <3>1. \A c : Weight(c, d) \in Nat /\ Count(c, <<>>) = 0
      BY <1>2, WeightType, Sums
    <3>2. \A n \in Nat : n = n + 0
      OBVIOUS
    <3> QED  BY ONLY <3>1, <3>2
  <2>3. Adds(d, d, Upto(0)) /\ d \in Detectors
    BY ONLY <1>2, <2>1, <2>2, DetectorOK(d) DEF Adds
  <2>4. 0 \in 0 .. m
    OBVIOUS
  <2> HIDE DEF Upto, m
  <2> QED  BY <1>1, <2>3, <2>4
<1>4. \A n \in 1 .. m : f[n - 1] \in D[n - 1] => f[n] \in D[n]
  <2> SUFFICES ASSUME NEW n \in 1 .. m, f[n - 1] \in D[n - 1] PROVE f[n] \in D[n]
    OBVIOUS
  <2>1. /\ Upto(n) = Upto(n - 1) \o chunks[n]
        /\ Upto(n - 1) \in Seq(Symbol) /\ chunks[n] \in Seq(Symbol)
    BY FlattenMore
  <2>2. n - 1 \in 0 .. m /\ n \in 0 .. m
    OBVIOUS
  <2> HIDE DEF Upto, m
  <2>3. Adds(d, f[n - 1], Upto(n - 1)) /\ DetectorOK(f[n - 1])
    BY <2>2 DEF Adds
  <2>4. Adds(f[n - 1], f[n], chunks[n])
    BY <1>1, <2>1, <2>3, OneChunk
  <2>5. DetectorOK(f[n]) /\ f[n] \in Detectors
    BY <1>2, <2>4 DEF Adds
  <2>6. ASSUME NEW c, Counted(c) PROVE Weight(c, f[n]) = Weight(c, d) + Count(c, Upto(n))
    <3>1. PICK w \in Nat, x \in Nat, y \in Nat :
            w = Weight(c, d) /\ x = Count(c, Upto(n - 1)) /\ y = Count(c, chunks[n])
      <4>1. Weight(c, d) \in Nat /\ Count(c, Upto(n - 1)) \in Nat /\ Count(c, chunks[n]) \in Nat
        BY <1>2, <2>1, WeightType, Sums
      <4> QED  BY ONLY <4>1, Zenon
    <3>2. Count(c, Upto(n)) = x + y
      BY ONLY <2>1, <3>1, Sums
    <3>3. Weight(c, f[n - 1]) = w + x /\ Weight(c, f[n]) = Weight(c, f[n - 1]) + y
      BY ONLY <2>3, <2>4, <2>6, <3>1 DEF Adds
    <3>4. (w + x) + y = w + (x + y)
      OBVIOUS
    <3> QED  BY ONLY <3>1, <3>2, <3>3, <3>4
  <2>7. Adds(d, f[n], Upto(n))
    BY ONLY <2>5, <2>6 DEF Adds
  <2> QED  BY <2>2, <2>5, <2>7
<1>5. Adds(d, e, Upto(m))
  <2>1. m \in Nat
    OBVIOUS
  <2> HIDE DEF D, m
  <2>2. \A n \in 0 .. m : f[n] \in D[n]
    BY ONLY <1>3, <1>4, <2>1, Stays
  <2>3. f[m] \in D[m] /\ m \in 0 .. m
    BY <2>1, <2>2
  <2> QED  BY <1>1, <2>3 DEF D
<1>6. Upto(m) = FlattenSeq(chunks)
  <2>1. SubSeq(chunks, 1, Len(chunks)) = chunks
    OBVIOUS
  <2> QED  BY <2>1
<1> HIDE DEF Upto
<1> QED  BY <1>5, <1>6 DEF e

\* The end of the stream changes nothing that is counted.
LEMMA Ends ==
  ASSUME NEW d, DetectorOK(d)
  PROVE  onEnd(d) \in Detectors /\ \A c : Counted(c) => Weight(c, onEnd(d)) = Weight(c, d)
<1>1. CASE program = "server"
  <2>1. ToolOK(Tools!finalize(d)) /\ SameWeight(d, Tools!finalize(d))
    BY <1>1, ToolEnds DEF DetectorOK
  <2> QED  BY <1>1, <2>1 DEF onEnd, Detectors, ToolOK, SameWeight, Weight, Counted
<1>2. CASE program # "server"
  <2>1. LET e == Blocks!finalize(d)
        IN  e \in BlockDetector_ /\ \A c : Counted(c) => BlockWeight(c, e) = BlockWeight(c, d)
    BY <1>2, BlockEnds DEF DetectorOK
  <2> QED  BY <1>2, <2>1 DEF onEnd, Detectors, Weight
<1> QED  BY <1>1, <1>2

\* Weighed: what was handed on is what the detector has emitted, keeps, dropped or lost.
Weighed ==
  /\ detector \in Detectors
  /\ cli.phase = "streaming" => DetectorOK(detector)
  /\ \A c : Counted(c) => Count(c, Handled) = Weight(c, detector)

\* A new detector has nothing.
LEMMA NewDetectors ==
  /\ ToolOK(Tools!NewDetector) /\ BlockOK(Blocks!NewBlockDetector)
  /\ \A c : ToolWeight(c, Tools!NewDetector) = 0 /\ BlockWeight(c, Blocks!NewBlockDetector) = 0
<1> DEFINE d == Tools!NewDetector
           e == Blocks!NewBlockDetector
<1>1. Tools!NewTracker \in Tracker
  BY EmptyText DEF Tools!NewTracker, Tracker
<1>2. /\ ToolOK(d) /\ d.text = <<>> /\ d.calls = <<>> /\ d.pending = <<>> /\ d.dropped = <<>>
      /\ d.state = "normal"
  BY <1>1, EmptyText DEF Tools!NewDetector, ToolOK, ToolDetector_
<1>3. /\ BlockOK(e) /\ e.text = <<>> /\ e.blocks = <<>> /\ e.pending = <<>> /\ e.lost = <<>>
      /\ e.state = "normal"
  <2>1. <<>> \in Seq(Block_) /\ <<>> \in Seq(Symbol)
    OBVIOUS
  <2> QED  BY <2>1 DEF Blocks!NewBlockDetector, BlockOK, BlockDetector_
<1> HIDE DEF d, e
<1>4. Rest(d) = <<>> /\ BlockRest(e) = <<>> /\ Contents(e.blocks) = <<>>
  <2>1. Contents(<<>>) = <<>>
    BY DEF Contents
  <2> QED  BY <1>2, <1>3, <2>1 DEF Rest, BlockRest
<1>5. ASSUME NEW c PROVE ToolWeight(c, d) = 0 /\ BlockWeight(c, e) = 0
  <2>1. Count(c, <<>>) = 0
    BY Sums
  <2> QED  BY <1>2, <1>3, <1>4, <2>1, FlattenEmpty DEF ToolWeight, BlockWeight, Shown
<1> QED  BY <1>2, <1>3, <1>5 DEF d, e

\* A new stream, and a new detector for it.
WeighedAtFirst ==
  /\ detector = IF program = "server" THEN Tools!NewDetector ELSE Blocks!NewBlockDetector
  /\ reader = NewReader
LEMMA WeighedBegins == WeighedAtFirst => Weighed
<1> SUFFICES ASSUME WeighedAtFirst PROVE Weighed
  OBVIOUS
<1>1. DetectorOK(detector) /\ detector \in Detectors
  BY NewDetectors DEF WeighedAtFirst, DetectorOK, Detectors, ToolOK, BlockOK
<1>2. Handled = <<>>
  BY DEF WeighedAtFirst, NewReader, Handled
<1>3. ASSUME NEW c PROVE Count(c, Handled) = Weight(c, detector)
  <2>1. Weight(c, detector) = 0
    BY NewDetectors DEF WeighedAtFirst, Weight
  <2> QED  BY <1>2, <2>1, Sums
<1> QED  BY <1>1, <1>3 DEF Weighed

\* The first detector is a new one.
LEMMA WeighedInit == Init => Weighed
BY WeighedBegins DEF Init, WeighedAtFirst

\* What was handed on is a text.
LEMMA HandledType == StreamOK => Handled \in Seq(Symbol)
<1> SUFFICES ASSUME StreamOK PROVE Handled \in Seq(Symbol)
  OBVIOUS
<1>1. answer.text \in Seq(Symbol) /\ reader.handled \in 0 .. Len(answer.text)
  BY DEF StreamOK, AnswerOK
<1>2. PICK s \in Seq(Symbol), h \in Nat :
        s = answer.text /\ h = reader.handled /\ h \in 0 .. Len(s)
  BY <1>1
<1>3. SubSeq(s, 1, h) \in Seq(Symbol)
  BY <1>2
<1> QED  BY <1>2, <1>3 DEF Handled

\* The messages that a step hands on, and what the detector becomes with them.
LEMMA WeighedMore ==
  ASSUME StreamOK, Weighed, cli.phase = "streaming", NEW messages, HandsOn(messages)
  PROVE  LET d == onChunks(detector, messages)
         IN  DetectorOK(d) /\ \A c : Counted(c) => Count(c, Handled') = Weight(c, d)
<1> DEFINE d == onChunks(detector, messages)
           x == FlattenSeq(messages)
<1>1. messages \in Seq(Seq(Symbol)) /\ DetectorOK(detector) /\ Handled' = Handled \o x
  BY DEF HandsOn, Weighed
<1>2. Adds(detector, d, x)
  BY <1>1, Chunks
<1>3. x \in Seq(Symbol) /\ Handled \in Seq(Symbol)
  BY <1>1, FlattenType, HandledType
<1> HIDE DEF d, x
<1>4. ASSUME NEW c, Counted(c) PROVE Count(c, Handled') = Weight(c, d)
  <2>1. Count(c, Handled \o x) = Count(c, Handled) + Count(c, x)
    BY <1>3, Together
  <2>2. Count(c, Handled) = Weight(c, detector)
    BY <1>4 DEF Weighed
  <2>3. Weight(c, d) = Weight(c, detector) + Count(c, x)
    BY <1>2, <1>4 DEF Adds
  <2> QED  BY ONLY <1>1, <2>1, <2>2, <2>3
<1> QED  BY <1>2, <1>4 DEF Adds, d

\* No step loses a character, or emits it twice.
LEMMA WeighedStep == ASSUME StreamOK, Weighed, [Next]_vars PROVE Weighed'
<1>1. ASSUME UNCHANGED <<program, reader, detector>>, answer'.text = answer.text,
             cli'.phase = "streaming" => cli.phase = "streaming"
      PROVE  Weighed'
  <2>1. Handled' = Handled /\ \A c : Weight(c, detector)' = Weight(c, detector)
    BY <1>1 DEF Handled, Weight
  <2>2. detector' \in Detectors' /\ (DetectorOK(detector) => DetectorOK(detector)')
    BY <1>1 DEF Weighed, Detectors, DetectorOK
  <2> QED  BY <1>1, <2>1, <2>2 DEF Weighed
<1>2. CASE UNCHANGED vars
  BY <1>1, <1>2 DEF vars
<1>3. ASSUME NEW n, SendText(n) PROVE Weighed'
  <2>1. answer'.text = answer.text
    BY <1>3 DEF SendText, StreamOK, AnswerOK
  <2> QED  BY <1>1, <1>3, <2>1 DEF SendText
<1>4. CASE SendTool
  <2>1. answer'.text = answer.text
    BY <1>4 DEF SendTool, StreamOK, AnswerOK
  <2> QED  BY <1>1, <1>4, <2>1 DEF SendTool
<1>5. CASE Close
  <2>1. answer'.text = answer.text
    BY <1>5 DEF Close, StreamOK, AnswerOK
  <2> QED  BY <1>1, <1>5, <2>1 DEF Close
<1>6. ASSUME NEW k \in 1 .. Len(wire), Read(k) PROVE Weighed'
  <2> DEFINE messages == processChunk(reader, SubSeq(wire, 1, k)).messages
             d == onChunks(detector, messages)
  <2>1. cli.phase = "streaming" /\ detector' = d /\ UNCHANGED <<program, answer, cli>>
    BY <1>6 DEF Read
  <2>2. HandsOn(messages)
    BY <1>6, ReadStep
  <2> HIDE DEF messages
  <2>3. DetectorOK(d) /\ \A c : Counted(c) => Count(c, Handled') = Weight(c, d)
    BY <2>1, <2>2, WeighedMore
  <2> HIDE DEF d
  <2>4. d \in Detectors
    BY <2>3 DEF DetectorOK, Detectors, ToolOK, BlockOK
  <2> QED  BY <2>1, <2>3, <2>4 DEF Weighed, Weight, DetectorOK, Detectors
<1>7. CASE End
  <2> DEFINE messages == finalizeStream(reader).messages
             d == onChunks(detector, messages)
  <2>1. cli.phase = "streaming" /\ detector' = onEnd(d) /\ UNCHANGED <<program, answer>>
    BY <1>7 DEF End
  <2>2. cli'.phase # "streaming"
    <3>1. PICK e : cli' = IF program = "server" THEN [cli EXCEPT !.phase = "ended"]
                          ELSE [cli EXCEPT !.turns = Append(@, Assistant), !.blocks = e.blocks,
                                           !.next = 1, !.results = <<>>,
                                           !.phase = IF e.blocks = <<>> THEN "prompt"
                                                     ELSE "executing"]
      BY <1>7, Zenon DEF End
    <3> QED  BY <3>1 DEF StreamOK, CliFields
  <2>3. HandsOn(messages)
    BY <1>7, EndStep
  <2> HIDE DEF messages
  <2>4. DetectorOK(d) /\ \A c : Counted(c) => Count(c, Handled') = Weight(c, d)
    BY <2>1, <2>3, WeighedMore
  <2> HIDE DEF d
  <2>5. onEnd(d) \in Detectors /\ \A c : Counted(c) => Weight(c, onEnd(d)) = Weight(c, d)
    BY <2>4, Ends
  <2>6. \A c : Counted(c) => Count(c, Handled') = Weight(c, onEnd(d))
    BY <2>4, <2>5
  <2> DEFINE e == onEnd(d)
  <2>7. detector' = e /\ e \in Detectors /\ \A c : Counted(c) => Count(c, Handled') = Weight(c, e)
    BY <2>1, <2>5, <2>6
  <2> HIDE DEF e
  <2> QED  BY <2>1, <2>2, <2>7 DEF Weighed, Weight, Detectors
<1>8. CASE Fail
  <2>1. answer'.text = answer.text /\ cli.phase = "streaming"
    BY <1>8 DEF Fail, StreamOK, AnswerOK
  <2> QED  BY <1>1, <1>8, <2>1 DEF Fail
<1>9. ASSUME NEW a \in CliAnswers, Ask(a) \/ SendResults(a) PROVE Weighed'
  <2>1. NewStream(a) /\ UNCHANGED program
    BY <1>9 DEF Ask, SendResults
  <2>2. WeighedAtFirst'
    BY <2>1 DEF NewStream, WeighedAtFirst
  <2>3. (WeighedAtFirst => Weighed)'
    BY WeighedBegins, PTL
  <2> QED  BY <2>2, <2>3
<1>10. CASE ApplyBlock \/ SkipBlock \/ SkipAll \/ NothingToReport
  <2>1. cli.phase = "executing" /\ UNCHANGED <<program, answer, wire, reader, detector>>
    BY <1>10 DEF ApplyBlock, SkipBlock, SkipAll, NothingToReport
  <2>2. cli'.phase # "streaming"
    <3>1. CASE ApplyBlock
      <4>1. PICK result, next, files, journal :
              cli' = [cli EXCEPT !.files = files, !.next = next, !.results = Append(@, result),
                                 !.applied = Append(@, result), !.journal = journal]
        BY <3>1, Applying
      <4> QED  BY <2>1, <4>1 DEF StreamOK, CliFields
    <3>2. CASE SkipBlock \/ SkipAll \/ NothingToReport
      BY <2>1, <3>2 DEF SkipBlock, SkipAll, NothingToReport, StreamOK, CliFields
    <3> QED  BY <1>10, <3>1, <3>2
  <2> QED  BY <1>1, <2>1, <2>2
<1> QED  BY <1>2, <1>3, <1>4, <1>5, <1>6, <1>7, <1>8, <1>9, <1>10 DEF Next

\* What the detector keeps is part of its weight.
LEMMA WeighedConserves == Weighed => TextConserved
<1> SUFFICES ASSUME Weighed, NEW c \in Characters
             PROVE  Count(c, Handled)
                      = Count(c, detector.text) + Count(c, Taken) + Count(c, Kept)
  BY DEF TextConserved
<1>1. Counted(c)
  BY DEF Characters, Counted, Plain
<1>2. Count(c, Handled) = Weight(c, detector)
  BY <1>1 DEF Weighed
<1>3. CASE program = "server"
  <2>1. detector \in ToolDetector_
    BY <1>3 DEF Weighed, Detectors
  <2>2. PICK p \in Seq(Symbol), r \in Seq(Symbol), x \in Seq(Symbol), pr \in Seq(Symbol) :
          p = detector.pending /\ r = Rest(detector) /\ x = detector.dropped /\ pr = p \o r
    <3>1. detector.pending \in Seq(Symbol) /\ Rest(detector) \in Seq(Symbol)
          /\ detector.dropped \in Seq(Symbol)
      BY <2>1, ToolParts_
    <3> QED  BY <3>1, Symbols, ZenonT(60)
  <2>3. Taken = FlattenSeq(detector.calls) /\ Kept = pr \o x
    BY <1>3, <2>2 DEF Taken, Kept, Tools!Held, Rest
  <2>4. /\ Count(c, p \o r) = Count(c, p) + Count(c, r)
        /\ Count(c, pr \o x) = Count(c, pr) + Count(c, x)
    BY Together
  <2>5. PICK a \in Nat, b \in Nat, k \in Nat, m \in Nat, y \in Nat :
          /\ a = Count(c, detector.text) /\ b = Count(c, FlattenSeq(detector.calls))
          /\ k = Count(c, p) /\ m = Count(c, r) /\ y = Count(c, x)
    <3>1. /\ Count(c, detector.text) \in Nat /\ Count(c, FlattenSeq(detector.calls)) \in Nat
          /\ Count(c, p) \in Nat /\ Count(c, r) \in Nat /\ Count(c, x) \in Nat
      BY <2>1, ToolParts_, Sums
    <3> QED  BY ONLY <3>1, Zenon
  <2>6. Count(c, Kept) = (k + m) + y
    BY ONLY <2>2, <2>3, <2>4, <2>5
  <2>7. Weight(c, detector) = a + b + k + m + y
    BY ONLY <1>3, <2>2, <2>5 DEF Weight, ToolWeight
  <2>8. a + b + k + m + y = a + b + ((k + m) + y)
    OBVIOUS
  <2> QED  BY ONLY <1>2, <2>3, <2>5, <2>6, <2>7, <2>8
<1>4. CASE program # "server"
  <2>1. detector \in BlockDetector_
    BY <1>4 DEF Weighed, Detectors
  <2>2. PICK p \in Seq(Symbol), r \in Seq(Symbol) : p = detector.pending /\ r = BlockRest(detector)
    BY <2>1, BlockParts
  <2>3. Taken = FlattenSeq(Contents(detector.blocks)) /\ Kept = p \o r
    BY <1>4, <2>2 DEF Taken, Kept, Contents, BlockRest
  <2>4. Count(c, p \o r) = Count(c, p) + Count(c, r)
    BY Together
  <2>5. PICK a \in Nat, b \in Nat, k \in Nat, m \in Nat :
          /\ a = Count(c, detector.text) /\ b = Count(c, FlattenSeq(Contents(detector.blocks)))
          /\ k = Count(c, p) /\ m = Count(c, r)
    <3>1. /\ Count(c, detector.text) \in Nat
          /\ Count(c, FlattenSeq(Contents(detector.blocks))) \in Nat
          /\ Count(c, p) \in Nat /\ Count(c, r) \in Nat
      BY <2>1, BlockParts, Sums
    <3> QED  BY ONLY <3>1, Zenon
  <2>6. Weight(c, detector) = (a + b) + k + m
    BY ONLY <1>4, <2>2, <2>5 DEF Weight, BlockWeight, Shown
  <2>7. (a + b) + k + m = a + b + (k + m)
    OBVIOUS
  <2> QED  BY ONLY <1>2, <2>3, <2>4, <2>5, <2>6, <2>7
<1> QED  BY <1>3, <1>4

\* TextConserved: whatever the answer and its deltas, each character that a detector was given
\* was emitted exactly once, as text or in a tool call or block, or is held back; except for
\* the text between two JSON objects that end in one delta (json-brace-tracker.ts:89) and the
\* language of an opening fence that nothing came after (code-block-detector.ts:77).
THEOREM EveryCharacterIsKept == Spec => []TextConserved
<1>1. StreamOK /\ Weighed /\ [Next]_vars => (StreamOK /\ Weighed)'
  BY StreamStep, WeighedStep
<1>2. Init => StreamOK /\ Weighed
  BY StreamInit, WeighedInit
<1> QED  BY <1>1, <1>2, WeighedConserves, PTL DEF Spec

-------------------------------------------------------------------------------
(* What an edit does to the files *)

HeaderName == {Headers[line] : line \in DOMAIN Headers}
FileName == DOMAIN Files \cup HeaderName
FileLine == Symbol \cup {"$"} \cup UNION {Range(Files[f]) : f \in DOMAIN Files}
FileSet == UNION {[names -> Seq(FileLine)] : names \in SUBSET FileName}

\* The files are a function from some names to lines.
LEMMA FilesAs ==
  ASSUME NEW fs
  PROVE  fs \in FileSet <=> DOMAIN fs \subseteq FileName /\ fs \in [DOMAIN fs -> Seq(FileLine)]
BY DEF FileSet

\* A block's text is a text of lines.
LEMMA SymbolLines == Seq(Symbol) \subseteq Seq(FileLine)
<1>1. Symbol \subseteq FileLine
  BY DEF FileLine
<1> QED  BY <1>1

Operation == [filename : HeaderName, search : Seq(Symbol), replace : Seq(Symbol)]
Parse == [file : {<<>>} \cup {<<name>> : name \in HeaderName},
          state : {"idle", "search", "replace"}, search : Seq(Symbol), replace : Seq(Symbol),
          operations : Seq(Operation)]
NothingParsed ==
  [file |-> <<>>, state |-> "idle", search |-> <<>>, replace |-> <<>>, operations |-> <<>>]

LEMMA EditLineType ==
  ASSUME NEW p \in Parse, NEW line \in Symbol
  PROVE  EditLine(p, line) \in Parse
<1>1. <<>> \in Seq(Symbol)
  OBVIOUS
<1>2. Append(p.search, line) \in Seq(Symbol) /\ Append(p.replace, line) \in Seq(Symbol)
  BY DEF Parse
<1>3. ASSUME p.file # <<>>
      PROVE  Append(p.operations, [filename |-> p.file[1], search |-> p.search,
                                   replace |-> p.replace]) \in Seq(Operation)
  <2>1. PICK name \in HeaderName : p.file = <<name>>
    BY <1>3 DEF Parse
  <2>2. [filename |-> p.file[1], search |-> p.search, replace |-> p.replace] \in Operation
    BY <2>1 DEF Parse, Operation
  <2> QED  BY <2>2 DEF Parse
<1>4. line \in DOMAIN Headers => <<Headers[line]>> \in {<<name>> : name \in HeaderName}
  BY DEF HeaderName
<1>5. CASE line \in DOMAIN Headers
  <2>1. PICK files \in {<<name>> : name \in HeaderName} : files = <<Headers[line]>>
    BY <1>4, <1>5
  <2>2. [p EXCEPT !.file = files] \in Parse
    BY DEF Parse
  <2> QED  BY <1>5, <2>1, <2>2 DEF EditLine
<1>6. CASE line \notin DOMAIN Headers /\ line = "SEARCH"
  BY <1>1, <1>6 DEF EditLine, Parse
<1>7. CASE line \notin DOMAIN Headers /\ line = "DIVIDER" /\ p.state = "search"
  BY <1>1, <1>7 DEF EditLine, Parse
<1>8. CASE line \notin DOMAIN Headers /\ line = "REPLACE"
  BY <1>3, <1>8 DEF EditLine, Parse
<1>9. CASE /\ line \notin DOMAIN Headers /\ line # "SEARCH"
           /\ ~(line = "DIVIDER" /\ p.state = "search") /\ line # "REPLACE"
  BY <1>2, <1>9 DEF EditLine, Parse
<1> QED  BY <1>5, <1>6, <1>7, <1>8, <1>9

\* The parser makes operations on named files, with lines of the block.
LEMMA ParseType ==
  ASSUME NEW content \in Seq(Symbol)
  PROVE  parseEditBlock(content) \in Seq(Operation)
<1> DEFINE m == Len(content)
           x == NothingParsed
           Equation(f) == f = [n \in 0 .. m |-> IF n = 0 THEN x ELSE EditLine(f[n - 1], content[n])]
           G == [s \in Parse \X (1 .. m) |-> EditLine(s[1], content[s[2]])]
           g == CHOOSE f : Equation(f)
<1>1. m \in Nat /\ \A n \in 1 .. m : content[n] \in Symbol
  OBVIOUS
<1>2. x \in Parse
  BY DEF NothingParsed, Parse
<1>3. parseEditBlock(content) = g[m].operations
  BY DEF parseEditBlock, NothingParsed
<1> HIDE DEF m, x
<1>4. G \in [Parse \X (1 .. m) -> Parse]
  BY <1>1, EditLineType
<1>5. \A s \in Parse, n \in 1 .. m : G[<<s, n>>] = EditLine(s, content[n])
  OBVIOUS
<1> HIDE DEF G
<1>6. PICK f \in [0 .. m -> Parse] : Recurs(f, x, G, m)
  BY <1>1, <1>2, <1>4, Recursion
<1>7. Equation(f)
  <2>1. f = [n \in 0 .. m |-> f[n]]
    OBVIOUS
  <2>2. ASSUME NEW n \in 0 .. m, n # 0 PROVE f[n] = EditLine(f[n - 1], content[n])
    <3>1. n \in 1 .. m /\ n - 1 \in 0 .. m
      BY <1>1, <2>2
    <3>2. f[n] = G[<<f[n - 1], n>>]
      BY <1>6, <3>1 DEF Recurs
    <3> QED  BY <1>5, <3>1, <3>2
  <2>3. \A n \in 0 .. m : f[n] = IF n = 0 THEN x ELSE EditLine(f[n - 1], content[n])
    BY <1>6, <2>2 DEF Recurs
  <2> QED  BY <2>1, <2>3, Zenon
<1>8. Equation(g)
  BY <1>7
<1>9. \A n \in 0 .. m : g[n] = IF n = 0 THEN x ELSE EditLine(g[n - 1], content[n])
  BY <1>8
<1> HIDE DEF g
<1> DEFINE D == [n \in 0 .. m |-> Parse]
<1>10. g[0] \in D[0] /\ \A n \in 1 .. m : g[n - 1] \in D[n - 1] => g[n] \in D[n]
  <2>1. 0 \in 0 .. m
    BY <1>1
  <2>2. ASSUME NEW n \in 1 .. m, g[n - 1] \in D[n - 1] PROVE g[n] \in D[n]
    <3>1. n - 1 \in 0 .. m /\ n \in 0 .. m /\ n # 0
      BY <1>1
    <3> QED  BY <1>1, <1>9, <2>2, <3>1, EditLineType
  <2> QED  BY <1>2, <1>9, <2>1, <2>2
<1>11. g[m] \in Parse
  <2>1. m \in 0 .. m
    BY <1>1
  <2> HIDE DEF D
  <2>2. g[m] \in D[m]
    BY <1>1, <1>10, <2>1, Stays
  <2> QED  BY <2>1, <2>2 DEF D
<1> QED  BY <1>3, <1>11 DEF Parse


\* Apart: two places that do not overlap.
Apart(P, w) == \E p, q \in P : p + w <= q

\* Single: r tells of the places up to n whether there is none, one that the others overlap,
\* or two apart.
Single(P, w, n, r) ==
  /\ r.found = 0 => r.next = 1 /\ \A q \in P : q > n
  /\ r.found = 1 => \E at \in P : /\ r.next = at + w /\ at <= n
                                  /\ \A q \in P : q <= n => at <= q /\ q < at + w
  /\ r.found > 1 => Apart(P, w)

LEMMA SingleStep ==
  ASSUME NEW P \in SUBSET (Nat \ {0}), NEW w \in Nat \ {0}, NEW n \in Nat \ {0},
         NEW r \in [found : Nat, next : Nat], Single(P, w, n - 1, r)
  PROVE  /\ n \notin P => Single(P, w, n, r)
         /\ n \in P /\ n < r.next => Single(P, w, n, r)
         /\ n \in P /\ ~(n < r.next) =>
              Single(P, w, n, [found |-> r.found + 1, next |-> n + w])
<1>1. r.found \in Nat /\ r.next \in Nat /\ \A q \in P : q \in Nat /\ q # 0
  OBVIOUS
<1>2. \A q \in P : (q > n - 1 <=> q > n \/ q = n) /\ (q <= n <=> q <= n - 1 \/ q = n)
  BY <1>1
<1>3. ASSUME n \notin P PROVE Single(P, w, n, r)
  <2>1. ASSUME r.found = 0 PROVE r.next = 1 /\ \A q \in P : q > n
    BY <1>2, <1>3, <2>1 DEF Single
  <2>2. ASSUME r.found = 1
        PROVE  \E at \in P : /\ r.next = at + w /\ at <= n
                             /\ \A q \in P : q <= n => at <= q /\ q < at + w
    <3>1. PICK at \in P : /\ r.next = at + w /\ at <= n - 1
                          /\ \A q \in P : q <= n - 1 => at <= q /\ q < at + w
      BY <2>2 DEF Single
    <3> QED  BY <1>2, <1>3, <3>1
  <2>3. r.found > 1 => Apart(P, w)
    BY DEF Single
  <2> QED  BY <2>1, <2>2, <2>3 DEF Single
<1>4. ASSUME n \in P, n < r.next PROVE Single(P, w, n, r)
  <2>1. r.found # 0
    BY <1>1, <1>4 DEF Single
  <2>2. ASSUME r.found = 1
        PROVE  \E at \in P : /\ r.next = at + w /\ at <= n
                             /\ \A q \in P : q <= n => at <= q /\ q < at + w
    <3>1. PICK at \in P : /\ r.next = at + w /\ at <= n - 1
                          /\ \A q \in P : q <= n - 1 => at <= q /\ q < at + w
      BY <2>2 DEF Single
    <3>2. at <= n /\ n < at + w
      BY <1>1, <1>4, <3>1
    <3> QED  BY <1>2, <3>1, <3>2
  <2>3. r.found > 1 => Apart(P, w)
    BY DEF Single
  <2> QED  BY <2>1, <2>2, <2>3 DEF Single
<1>5. ASSUME n \in P, ~(n < r.next)
      PROVE  Single(P, w, n, [found |-> r.found + 1, next |-> n + w])
  <2>1. r.found + 1 # 0
    BY <1>1
  <2>2. ASSUME r.found + 1 = 1 PROVE \A q \in P : q <= n => n <= q /\ q < n + w
    <3>1. r.found = 0
      BY <1>1, <2>2
    <3>2. \A q \in P : q > n - 1
      BY <3>1 DEF Single
    <3> QED  BY <1>1, <1>2, <3>2
  <2>3. n <= n
    OBVIOUS
  <2>4. ASSUME r.found + 1 > 1 PROVE Apart(P, w)
    <3>1. r.found = 1 \/ r.found > 1
      BY <1>1, <2>4
    <3>2. CASE r.found = 1
      <4>1. PICK at \in P : r.next = at + w
        BY <3>2 DEF Single
      <4>2. at + w <= n
        BY <1>1, <1>5, <4>1
      <4> QED  BY <1>5, <4>2 DEF Apart
    <3>3. CASE r.found > 1
      BY <3>3 DEF Single
    <3> QED  BY <3>1, <3>2, <3>3
  <2> QED  BY <1>5, <2>1, <2>2, <2>3, <2>4 DEF Single
<1> QED  BY <1>3, <1>4, <1>5

\* The places of a text that is not empty.
LEMMA PlacesType ==
  ASSUME NEW source \in Seq(FileLine), NEW search \in Seq(FileLine)
  PROVE  /\ Places(source, search) \in SUBSET (Nat \ {0})
         /\ \A q \in Places(source, search) : q + Len(search) - 1 <= Len(source)
BY DEF Places

\* A text that does not occur has no place, one that occurs once has a place that every
\* other place overlaps, and one that occurs more often has two apart.
LEMMA OccursAs ==
  ASSUME NEW source \in Seq(FileLine), NEW search \in Seq(FileLine), search # <<>>
  PROVE  LET P == Places(source, search)
             found == occurrences(source, search)
         IN  /\ found = 0 => P = {}
             /\ found # 0 /\ ~(found > 1) =>
                  \E at \in P : \A q \in P : at <= q /\ q < at + Len(search)
             /\ found > 1 => Apart(P, Len(search))
<1> DEFINE m == Len(source)
           P == Places(source, search)
           w == Len(search)
           R == [found : Nat, next : Nat]
           x == [found |-> 0, next |-> 1]
           Step(r, n) == IF n \notin P THEN r ELSE Found(r, n, search)
           Equation(f) ==
             f = [n \in 0 .. m |-> IF n = 0 THEN x
                                   ELSE IF n \notin P THEN f[n - 1] ELSE Found(f[n - 1], n, search)]
           G == [s \in R \X (1 .. m) |-> Step(s[1], s[2])]
           g == CHOOSE f : Equation(f)
<1>1. m \in Nat /\ w \in Nat \ {0} /\ x \in R
  OBVIOUS
<1>2. P \in SUBSET (Nat \ {0}) /\ \A q \in P : q <= m
  <2>1. P \in SUBSET (Nat \ {0}) /\ \A q \in P : q + w - 1 <= m
    BY PlacesType
  <2> HIDE DEF P, w, m
  <2> QED  BY <1>1, <2>1
<1>3. occurrences(source, search) = g[m].found
  BY DEF occurrences
<1>4. ASSUME NEW r \in R, NEW n \in 1 .. m PROVE Step(r, n) \in R
  BY <1>1 DEF Found
<1>5. ASSUME NEW r \in R, NEW n \in 1 .. m, Single(P, w, n - 1, r)
      PROVE  Single(P, w, n, Step(r, n))
  <2>1. n \in Nat \ {0}
    BY <1>1
  <2> HIDE DEF P
  <2>2. /\ n \notin P => Single(P, w, n, r)
        /\ n \in P /\ n < r.next => Single(P, w, n, r)
        /\ n \in P /\ ~(n < r.next) =>
             Single(P, w, n, [found |-> r.found + 1, next |-> n + w])
    <3> HIDE DEF w
    <3> QED  BY <1>1, <1>2, <1>5, <2>1, SingleStep, Zenon
  <2> QED  BY <2>2 DEF Found
<1>6. Single(P, w, 0, x)
  <2>1. \A q \in P : q > 0
    BY <1>2
  <2> QED  BY <2>1 DEF Single
<1> HIDE DEF x
<1>7. G \in [R \X (1 .. m) -> R]
  <2> HIDE DEF R, Step
  <2> QED  BY <1>4
<1>8. \A s \in R, n \in 1 .. m : G[<<s, n>>] = Step(s, n)
  OBVIOUS
<1> HIDE DEF G, R
<1>9. PICK f \in [0 .. m -> R] : Recurs(f, x, G, m)
  BY <1>1, <1>7, Recursion
<1>10. Equation(f)
  <2>1. f = [n \in 0 .. m |-> f[n]]
    OBVIOUS
  <2>2. ASSUME NEW n \in 0 .. m, n # 0 PROVE f[n] = Step(f[n - 1], n)
    <3>1. n \in 1 .. m /\ n - 1 \in 0 .. m
      BY <1>1, <2>2
    <3>2. f[n] = G[<<f[n - 1], n>>]
      BY <1>9, <3>1 DEF Recurs
    <3> QED  BY <1>8, <3>1, <3>2
  <2>3. \A n \in 0 .. m : f[n] = IF n = 0 THEN x
                                 ELSE IF n \notin P THEN f[n - 1] ELSE Found(f[n - 1], n, search)
    BY <1>9, <2>2 DEF Recurs
  <2> QED  BY <2>1, <2>3, Zenon
<1>11. Equation(g)
  <2> HIDE DEF Equation
  <2> QED  BY <1>10
<1>12. \A n \in 0 .. m : g[n] = IF n = 0 THEN x
                                ELSE IF n \notin P THEN g[n - 1] ELSE Found(g[n - 1], n, search)
  BY <1>11
<1> HIDE DEF g
<1> DEFINE D == [n \in 0 .. m |-> {r \in R : Single(P, w, n, r)}]
<1>13. g[0] \in D[0] /\ \A n \in 1 .. m : g[n - 1] \in D[n - 1] => g[n] \in D[n]
  <2>1. 0 \in 0 .. m
    BY <1>1
  <2>2. ASSUME NEW n \in 1 .. m, g[n - 1] \in D[n - 1] PROVE g[n] \in D[n]
    <3>1. n - 1 \in 0 .. m /\ n \in 0 .. m /\ n # 0
      BY <1>1
    <3>2. g[n - 1] \in R /\ Single(P, w, n - 1, g[n - 1])
      BY <2>2, <3>1
    <3>3. g[n] = Step(g[n - 1], n)
      BY <1>12, <3>1
    <3> HIDE DEF Step
    <3> QED  BY <1>4, <1>5, <3>1, <3>2, <3>3
  <2> QED  BY <1>1, <1>6, <1>12, <2>1, <2>2
<1>14. g[m] \in R /\ Single(P, w, m, g[m])
  <2>1. m \in 0 .. m
    BY <1>1
  <2> HIDE DEF D
  <2>2. g[m] \in D[m]
    BY <1>1, <1>13, <2>1, Stays
  <2> QED  BY <2>1, <2>2 DEF D
<1>15. g[m].found \in Nat
  BY <1>14 DEF R
<1> HIDE DEF P, w, m
<1>16. g[m].found = 0 => P = {}
  <2>1. ASSUME g[m].found = 0, NEW q \in P PROVE FALSE
    <3>1. q > m /\ q <= m /\ q \in Nat
      BY <1>2, <1>14, <2>1 DEF Single
    <3> QED  BY <1>1, <3>1
  <2> QED  BY <2>1
<1>17. g[m].found # 0 /\ ~(g[m].found > 1) => \E at \in P : \A q \in P : at <= q /\ q < at + w
  <2>1. g[m].found # 0 /\ ~(g[m].found > 1) => g[m].found = 1
    BY <1>15
  <2> QED  BY <1>2, <1>14, <2>1 DEF Single
<1>18. g[m].found > 1 => Apart(P, w)
  BY <1>14 DEF Single
<1> QED  BY <1>3, <1>16, <1>17, <1>18 DEF P, w

\* Only an empty text has one place for an empty search.
LEMMA OccursEmpty ==
  ASSUME NEW source \in Seq(FileLine)
  PROVE  LET found == occurrences(source, <<>>)
         IN  /\ found # 0 /\ ~(found > 1) => source = <<>>
             /\ found = 0 \/ found > 1 => source # <<>>
<1>1. Len(source) \in Nat /\ (Len(source) = 0 <=> source = <<>>)
  OBVIOUS
<1>2. occurrences(source, <<>>) = IF source = <<>> THEN -1 ELSE 2 * Len(source) - 2
  BY DEF occurrences
<1>3. source # <<>> => 2 * Len(source) - 2 = 0 \/ 2 * Len(source) - 2 > 1
  BY <1>1
<1>4. ~(-1 > 1) /\ -1 # 0
  OBVIOUS
<1> QED  BY <1>2, <1>3, <1>4

LEMMA PlacesEmpty ==
  ASSUME NEW source \in Seq(FileLine)
  PROVE  Places(source, <<>>) = 1 .. Len(source) + 1
<1>1. Len(<<>>) = 0 /\ Len(source) \in Nat
  OBVIOUS
<1>2. \A i \in 1 .. Len(source) + 1 : SubSeq(source, i, i - 1) = <<>>
  OBVIOUS
<1>3. \A i \in 1 .. Len(source) + 1 : i + 0 - 1 = i - 1
  OBVIOUS
<1> QED  BY <1>1, <1>2, <1>3 DEF Places

\* What the code counts as one occurrence is a text that stands once.
LEMMA CountedOnce ==
  ASSUME NEW source \in Seq(FileLine), NEW search \in Seq(FileLine)
  PROVE  LET P == Places(source, search)
             found == occurrences(source, search)
         IN  /\ found # 0 /\ ~(found > 1) =>
                  StandsOnce(source, search) /\ \E p \in P : \A q \in P : p <= q
             /\ found = 0 \/ found > 1 => ~StandsOnce(source, search)
<1> DEFINE P == Places(source, search)
           w == Len(search)
           found == occurrences(source, search)
<1>1. w \in Nat /\ P \in SUBSET (Nat \ {0})
  BY PlacesType
<1>2. CASE search = <<>>
  <2>1. P = 1 .. Len(source) + 1 /\ w = 0 /\ Len(source) \in Nat
    BY <1>2, PlacesEmpty
  <2>2. ASSUME source = <<>>
        PROVE  StandsOnce(source, search) /\ \E p \in P : \A q \in P : p <= q
    <3>1. P = {1}
      BY <2>1, <2>2
    <3> HIDE DEF P, w
    <3>2. P # {} /\ \A p, q \in P : p < q => q < p + w
      BY <3>1
    <3> QED  BY <3>1, <3>2 DEF StandsOnce, P, w
  <2>3. ASSUME source # <<>> PROVE ~StandsOnce(source, search)
    <3>1. Len(source) # 0
      BY <2>3
    <3> HIDE DEF P, w
    <3>2. 1 \in P /\ 2 \in P /\ 1 < 2 /\ ~(2 < 1 + w)
      BY <2>1, <3>1
    <3> QED  BY <3>2 DEF StandsOnce, P, w
  <2> QED  BY <1>2, <2>2, <2>3, OccursEmpty
<1>3. CASE search # <<>>
  <2>1. /\ found = 0 => P = {}
        /\ found # 0 /\ ~(found > 1) => \E at \in P : \A q \in P : at <= q /\ q < at + w
        /\ found > 1 => Apart(P, w)
    BY <1>3, OccursAs
  <2> HIDE DEF P, w, found
  <2>2. ASSUME found # 0, ~(found > 1)
        PROVE  StandsOnce(source, search) /\ \E p \in P : \A q \in P : p <= q
    <3>1. PICK at \in P : \A q \in P : at <= q /\ q < at + w
      BY <2>1, <2>2
    <3>2. \A p, q \in P : p < q => q < p + w
      BY <1>1, <3>1
    <3> QED  BY <3>1, <3>2 DEF StandsOnce, P, w
  <2>3. ASSUME found = 0 \/ found > 1 PROVE ~StandsOnce(source, search)
    <3>1. CASE found = 0
      BY <2>1, <3>1 DEF StandsOnce, P
    <3>2. CASE found > 1
      <4>1. w # 0
        BY <1>3 DEF w
      <4>2. PICK p \in P, q \in P : p + w <= q
        BY <2>1, <3>2 DEF Apart
      <4>3. p < q /\ ~(q < p + w)
        BY <1>1, <4>1, <4>2
      <4> QED  BY <4>3 DEF StandsOnce, P, w
    <3> QED  BY <2>3, <3>1, <3>2
  <2> QED  BY <2>2, <2>3 DEF P, found
<1> QED  BY <1>2, <1>3

\* A text, character by character, is the text.
LEMMA FlattenSingles ==
  ASSUME NEW S, NEW s \in Seq(S)
  PROVE  FlattenSeq([i \in DOMAIN s |-> <<s[i]>>]) = s
<1> DEFINE ones(n) == [i \in 1 .. n |-> <<s[i]>>]
           Same(n) == FlattenSeq(ones(n)) = SubSeq(s, 1, n)
           T == {n \in Nat : n <= Len(s) => Same(n)}
<1>1. 0 \in T
  <2>1. ones(0) = <<>> /\ SubSeq(s, 1, 0) = <<>>
    OBVIOUS
  <2> QED  BY <2>1, FlattenEmpty
<1>2. ASSUME NEW n \in Nat, n <= Len(s) => Same(n), n + 1 <= Len(s) PROVE Same(n + 1)
  <2>1. n + 1 \in 1 .. Len(s) /\ s[n + 1] \in S /\ FlattenSeq(ones(n)) = SubSeq(s, 1, n)
    BY <1>2
  <2>2. ones(n) \in Seq(Seq(S)) /\ <<s[n + 1]>> \in Seq(S)
    <3>1. \A i \in 1 .. n : <<s[i]>> \in Seq(S)
      BY <2>1
    <3> QED  BY <2>1, <3>1
  <2>3. ones(n + 1) = Append(ones(n), <<s[n + 1]>>)
    BY <2>1
  <2>4. FlattenSeq(ones(n + 1)) = SubSeq(s, 1, n) \o <<s[n + 1]>>
    <3> HIDE DEF ones
    <3> QED  BY <2>1, <2>2, <2>3, FlattenAppend
  <2>5. SubSeq(s, 1, n) \o <<s[n + 1]>> = SubSeq(s, 1, n + 1)
    BY <2>1
  <2> QED  BY <2>4, <2>5
<1>3. SubSeq(s, 1, Len(s)) = s /\ [i \in DOMAIN s |-> <<s[i]>>] = ones(Len(s))
      /\ Len(s) \in Nat
  OBVIOUS
<1>4. Same(Len(s))
  <2> HIDE DEF Same
  <2>1. T \in SUBSET Nat /\ \A n \in T : n + 1 \in T
    BY <1>2
  <2> HIDE DEF T
  <2>2. Len(s) \in T
    BY <1>1, <1>3, <2>1, SetInduction
  <2> QED  BY <1>3, <2>2 DEF T
<1> HIDE DEF ones
<1> QED  BY <1>3, <1>4

\* The places of a text are in it.
LEMMA CutAtPlace ==
  ASSUME NEW t \in Seq(FileLine), NEW search \in Seq(Symbol), NEW i \in Places(t, search)
  PROVE  Before(t, i) \in Seq(FileLine) /\ From(t, i + Len(search)) \in Seq(FileLine)
<1> DEFINE w == Len(search)
<1>1. search \in Seq(FileLine) /\ w \in Nat /\ Len(t) \in Nat
  BY SymbolLines
<1>2. i \in Nat /\ i # 0 /\ i + w - 1 <= Len(t)
  BY <1>1, PlacesType
<1> HIDE DEF w
<1>3. Before(t, i) \in Seq(FileLine) /\ From(t, i + w) \in Seq(FileLine)
  BY <1>1, <1>2 DEF Before, From
<1> QED  BY <1>3 DEF w

\* The new text with its patterns expanded; without patterns it is what is written.
LEMMA ExpandedText ==
  ASSUME NEW t \in Seq(FileLine), NEW search \in Seq(Symbol), NEW replace \in Seq(Symbol),
         NEW i \in Places(t, search)
  PROVE  LET new == FlattenSeq([k \in DOMAIN replace |-> Expanded(replace[k], t, i, search)])
         IN  new \in Seq(FileLine) /\ new = Inserted(t, i, search, replace)
<1> DEFINE part(k) == Expanded(replace[k], t, i, search)
           new == FlattenSeq([k \in DOMAIN replace |-> part(k)])
<1>1. search \in Seq(FileLine) /\ "$" \in FileLine /\ DOMAIN replace = 1 .. Len(replace)
      /\ Len(replace) \in Nat
  BY SymbolLines DEF FileLine
<1>2. ASSUME NEW k \in DOMAIN replace PROVE part(k) \in Seq(FileLine)
  <2>1. <<replace[k]>> \in Seq(FileLine) /\ <<"$">> \in Seq(FileLine)
    <3>1. replace[k] \in FileLine
      BY DEF FileLine
    <3> QED  BY <1>1, <3>1
  <2>2. Before(t, i) \in Seq(FileLine) /\ From(t, i + Len(search)) \in Seq(FileLine)
    BY CutAtPlace
  <2> QED  BY <1>1, <2>1, <2>2 DEF Expanded
<1>3. new \in Seq(FileLine)
  <2> HIDE DEF part
  <2>1. [k \in DOMAIN replace |-> part(k)] \in Seq(Seq(FileLine))
    BY <1>1, <1>2
  <2> QED  BY <2>1, FlattenType
<1>4. ASSUME Range(replace) \cap Patterns = {} PROVE new = replace
  <2>1. \A k \in DOMAIN replace : part(k) = <<replace[k]>>
    <3> SUFFICES ASSUME NEW k \in DOMAIN replace PROVE part(k) = <<replace[k]>>
      OBVIOUS
    <3>1. replace[k] \notin Patterns
      BY <1>4 DEF Range
    <3> QED  BY <3>1 DEF Expanded, Patterns
  <2> HIDE DEF part
  <2>2. [k \in DOMAIN replace |-> part(k)] = [k \in DOMAIN replace |-> <<replace[k]>>]
    BY <2>1
  <2> QED  BY <2>2, FlattenSingles
<1> QED  BY <1>3, <1>4 DEF Inserted

\* What an operation may make of a text is a text.
LEMMA ReplacementsType ==
  ASSUME NEW t \in Seq(FileLine), NEW search \in Seq(Symbol), NEW replace \in Seq(Symbol)
  PROVE  Replacements(t, search, replace) \in SUBSET Seq(FileLine)
<1> SUFFICES ASSUME NEW i \in Places(t, search)
             PROVE  Before(t, i) \o Inserted(t, i, search, replace) \o From(t, i + Len(search))
                      \in Seq(FileLine)
  BY DEF Replacements
<1>1. Before(t, i) \in Seq(FileLine) /\ From(t, i + Len(search)) \in Seq(FileLine)
  BY CutAtPlace
<1>2. Inserted(t, i, search, replace) \in Seq(FileLine)
  BY ExpandedText
<1> QED  BY <1>1, <1>2

\* An operation that finds its text once replaces it there; it finds no other.
LEMMA ReplacedOnce ==
  ASSUME NEW source \in Seq(FileLine), NEW search \in Seq(Symbol), NEW replace \in Seq(Symbol)
  PROVE  LET found == occurrences(source, search)
         IN  /\ found # 0 /\ ~(found > 1) =>
                  /\ StandsOnce(source, search)
                  /\ replaceFirst(source, search, replace) \in Replacements(source, search, replace)
             /\ found = 0 \/ found > 1 => ~StandsOnce(source, search)
<1> DEFINE P == Places(source, search)
           found == occurrences(source, search)
<1>1. search \in Seq(FileLine)
  BY SymbolLines
<1>2. /\ found # 0 /\ ~(found > 1) =>
           StandsOnce(source, search) /\ \E p \in P : \A q \in P : p <= q
      /\ found = 0 \/ found > 1 => ~StandsOnce(source, search)
  BY <1>1, CountedOnce
<1>3. ASSUME found # 0, ~(found > 1)
      PROVE  replaceFirst(source, search, replace) \in Replacements(source, search, replace)
  <2>1. PICK p \in P : \A q \in P : p <= q
    BY <1>2, <1>3
  <2>2. P \in SUBSET (Nat \ {0})
    BY <1>1, PlacesType
  <2>3. Least(P) = p
    <3> HIDE DEF P
    <3>1. \A i \in P : (\A j \in P : i <= j) => i = p
      BY <2>1, <2>2
    <3> QED  BY <2>1, <3>1 DEF Least
  <2>4. replaceFirst(source, search, replace)
          = Before(source, p)
              \o FlattenSeq([k \in DOMAIN replace |-> Expanded(replace[k], source, p, search)])
              \o From(source, p + Len(search))
    BY <2>3 DEF replaceFirst
  <2>5. FlattenSeq([k \in DOMAIN replace |-> Expanded(replace[k], source, p, search)])
          = Inserted(source, p, search, replace)
    BY ExpandedText
  <2>6. replaceFirst(source, search, replace)
          = Before(source, p) \o Inserted(source, p, search, replace)
              \o From(source, p + Len(search))
    BY <2>4, <2>5, Zenon
  <2> QED  BY <2>6 DEF Replacements
<1> QED  BY <1>2, <1>3

Statuses == {"error", "not found", "ambiguous", "edited"}
Edits == [files : FileSet, output : Seq(Statuses)]

\* Changed: the text of one file was replaced where it was found.
Changed(fs, fs2, op) ==
  /\ DOMAIN fs2 = DOMAIN fs /\ \A f \in DOMAIN fs \ {op.filename} : fs2[f] = fs[f]
  /\ fs2[op.filename] \in Replacements(fs[op.filename], op.search, op.replace)

\* Tried: an operation was done if it could be.
Tried(fs, fs2, op, status) ==
  IF op.filename \in DOMAIN fs \ ReadOnly /\ StandsOnce(fs[op.filename], op.search)
  THEN status = "edited" /\ Changed(fs, fs2, op)
  ELSE status # "edited" /\ fs2 = fs

\* One operation of a block.
LEMMA OneOperation ==
  ASSUME NEW e \in Edits, NEW op \in Operation
  PROVE  \E status \in Statuses :
            /\ EditOperation(e, op) \in Edits
            /\ EditOperation(e, op).output = Append(e.output, status)
            /\ Tried(e.files, EditOperation(e, op).files, op, status)
<1> DEFINE known == op.filename \in DOMAIN e.files
           source == IF known THEN e.files[op.filename] ELSE <<>>
           found == occurrences(source, op.search)
           status == IF ~known THEN "error"
                     ELSE IF found = 0 THEN "not found"
                     ELSE IF found > 1 THEN "ambiguous"
                     ELSE IF op.filename \in ReadOnly THEN "error" ELSE "edited"
           new == replaceFirst(source, op.search, op.replace)
           fs == IF status = "edited" THEN [e.files EXCEPT ![op.filename] = new] ELSE e.files
           e2 == EditOperation(e, op)
<1>1. e.files \in FileSet /\ e.output \in Seq(Statuses)
  BY DEF Edits
<1>2. DOMAIN e.files \subseteq FileName /\ e.files \in [DOMAIN e.files -> Seq(FileLine)]
  BY <1>1, FilesAs
<1>3. op.search \in Seq(Symbol) /\ op.replace \in Seq(Symbol)
  BY DEF Operation
<1>4. status \in Statuses
  BY DEF Statuses
<1>5. e2 = [e EXCEPT !.output = Append(@, status), !.files = fs]
  BY DEF EditOperation
<1>6. status = "edited" <=> /\ known /\ op.filename \notin ReadOnly
                            /\ found # 0 /\ ~(found > 1)
  OBVIOUS
<1>7. source \in Seq(FileLine)
  <2>1. <<>> \in Seq(FileLine)
    OBVIOUS
  <2> QED  BY <1>2, <2>1
<1> HIDE DEF status
<1>8. /\ found # 0 /\ ~(found > 1) =>
           StandsOnce(source, op.search) /\ new \in Replacements(source, op.search, op.replace)
      /\ found = 0 \/ found > 1 => ~StandsOnce(source, op.search)
  <2> HIDE DEF source
  <2> QED  BY <1>3, <1>7, ReplacedOnce
<1>9. new \in Seq(FileLine) \/ status # "edited"
  <2> HIDE DEF source, found, new
  <2> QED  BY <1>3, <1>6, <1>7, <1>8, ReplacementsType
<1> HIDE DEF new, found
<1>10. fs \in FileSet
  <2>1. CASE status = "edited"
    <3>1. [e.files EXCEPT ![op.filename] = new] \in [DOMAIN e.files -> Seq(FileLine)]
      BY <1>2, <1>6, <1>9, <2>1
    <3> QED  BY <1>2, <2>1, <3>1, FilesAs
  <2>2. CASE status # "edited"
    BY <1>1, <2>2
  <2> QED  BY <2>1, <2>2
<1>11. Tried(e.files, fs, op, status)
  <2>1. CASE status = "edited"
    <3>1. known /\ fs = [e.files EXCEPT ![op.filename] = new] /\ source = e.files[op.filename]
      BY <1>6, <2>1
    <3>2. /\ DOMAIN fs = DOMAIN e.files /\ fs[op.filename] = new
          /\ \A f \in DOMAIN e.files \ {op.filename} : fs[f] = e.files[f]
      BY <1>2, <3>1
    <3> HIDE DEF fs, source
    <3>3. Changed(e.files, fs, op)
      BY <1>6, <1>8, <2>1, <3>1, <3>2 DEF Changed
    <3> QED  BY <1>6, <1>8, <2>1, <3>1, <3>3 DEF Tried
  <2>2. CASE status # "edited"
    <3>1. fs = e.files
      BY <2>2
    <3>2. known => source = e.files[op.filename]
      OBVIOUS
    <3> HIDE DEF fs, source
    <3>3. ~(op.filename \in DOMAIN e.files \ ReadOnly /\ StandsOnce(e.files[op.filename], op.search))
      BY <1>6, <1>8, <2>2, <3>2
    <3> QED  BY <2>2, <3>1, <3>3 DEF Tried
  <2> QED  BY <2>1, <2>2
<1> HIDE DEF fs
<1>12. e2 \in Edits /\ e2.output = Append(e.output, status) /\ e2.files = fs
  <2>1. Append(e.output, status) \in Seq(Statuses)
    BY <1>1, <1>4
  <2> HIDE DEF e2
  <2> QED  BY <1>5, <1>10, <2>1 DEF Edits
<1> HIDE DEF e2
<1> QED  BY <1>4, <1>11, <1>12 DEF e2

\* A text under way through the operations, and whether all were done so far.
Underway == [text : Seq(FileLine), all : BOOLEAN]

LEMMA OperatedType ==
  ASSUME NEW e \in Underway, NEW search \in Seq(Symbol), NEW replace \in Seq(Symbol)
  PROVE  Operated(e, search, replace) \in SUBSET Underway
<1>1. e.text \in Seq(FileLine) /\ e.all \in BOOLEAN
  BY DEF Underway
<1>2. Replacements(e.text, search, replace) \in SUBSET Seq(FileLine)
  BY <1>1, ReplacementsType
<1> QED  BY <1>1, <1>2 DEF Operated, Underway

TextPairs(ops) ==
  /\ Len(ops) \in Nat
  /\ \A n \in 1 .. Len(ops) : ops[n][1] \in Seq(Symbol) /\ ops[n][2] \in Seq(Symbol)

\* EditedBy: h has the texts that the operations make, one after the other.
EditedBy(h, t, ops) ==
  /\ Edited(t, ops) = h[Len(ops)] /\ h[0] = {[text |-> t, all |-> TRUE]}
  /\ \A n \in 1 .. Len(ops) :
       h[n] = UNION {Operated(e, ops[n][1], ops[n][2]) : e \in h[n - 1]}

LEMMA EditedInOrder ==
  ASSUME NEW t \in Seq(FileLine), NEW ops, TextPairs(ops)
  PROVE  \E h : EditedBy(h, t, ops)
<1> DEFINE m == Len(ops)
           x == {[text |-> t, all |-> TRUE]}
           Texts == SUBSET Underway
           Step(T, n) == UNION {Operated(e, ops[n][1], ops[n][2]) : e \in T}
           Equation(f) ==
             f = [n \in 0 .. m |-> IF n = 0 THEN {[text |-> t, all |-> TRUE]}
                                   ELSE UNION {Operated(e, ops[n][1], ops[n][2]) : e \in f[n - 1]}]
           G == [s \in Texts \X (1 .. m) |-> Step(s[1], s[2])]
           g == CHOOSE f : Equation(f)
<1>1. /\ m \in Nat /\ x \in Texts
      /\ \A n \in 1 .. m : ops[n][1] \in Seq(Symbol) /\ ops[n][2] \in Seq(Symbol)
  BY DEF TextPairs, Underway
<1>2. Edited(t, ops) = g[m]
  BY DEF Edited
<1>3. ASSUME NEW T \in Texts, NEW n \in 1 .. m PROVE Step(T, n) \in Texts
  <2>1. \A e \in T : Operated(e, ops[n][1], ops[n][2]) \in SUBSET Underway
    BY <1>1, OperatedType
  <2> QED  BY <2>1
<1>4. G \in [Texts \X (1 .. m) -> Texts]
  <2> HIDE DEF Texts, Step, m
  <2> QED  BY <1>3
<1>5. \A s \in Texts, n \in 1 .. m : G[<<s, n>>] = Step(s, n)
  <2> HIDE DEF Texts, Step, m
  <2> QED  OBVIOUS
<1> HIDE DEF G, Texts, m, x
<1>6. PICK f \in [0 .. m -> Texts] : Recurs(f, x, G, m)
  BY <1>1, <1>4, Recursion
<1>7. Equation(f)
  <2>1. f = [n \in 0 .. m |-> f[n]]
    OBVIOUS
  <2>2. ASSUME NEW n \in 0 .. m, n # 0 PROVE f[n] = Step(f[n - 1], n)
    <3>1. n \in 1 .. m /\ n - 1 \in 0 .. m
      BY <1>1, <2>2
    <3>2. f[n] = G[<<f[n - 1], n>>]
      BY <1>6, <3>1 DEF Recurs
    <3> HIDE DEF Step
    <3> QED  BY <1>5, <3>1, <3>2
  <2>3. \A n \in 0 .. m : f[n] = IF n = 0 THEN x ELSE Step(f[n - 1], n)
    <3> HIDE DEF Step
    <3> QED  BY <1>6, <2>2 DEF Recurs
  <2> QED  BY <2>1, <2>3, Zenon DEF x
<1>8. Equation(g)
  <2> HIDE DEF Equation
  <2> QED  BY <1>7
<1>9. \A n \in 0 .. m : g[n] = IF n = 0 THEN x ELSE Step(g[n - 1], n)
  BY <1>8, Zenon DEF x
<1> HIDE DEF g, Step
<1>10. g[0] = x
  <2>1. 0 \in 0 .. m
    BY <1>1
  <2> QED  BY <1>9, <2>1
<1>11. ASSUME NEW n \in 1 .. m PROVE g[n] = Step(g[n - 1], n)
  <2>1. n \in 0 .. m /\ n # 0
    BY <1>1
  <2> QED  BY <1>9, <2>1
<1> QED  BY <1>2, <1>10, <1>11 DEF m, Step, EditedBy, x

EditBegins(fs) == [files |-> fs, output |-> <<>>]
OneFile(ops) == ~(Cardinality({ops[i].filename : i \in DOMAIN ops}) > 1)

\* The operations of a block are applied one after the other.
LEMMA EditsInOrder ==
  ASSUME NEW content \in Seq(Symbol), NEW fs \in FileSet
  PROVE  LET ops == parseEditBlock(content)
             m == Len(ops)
             r == applyEditBlock(content, fs)
         IN  \E g : /\ g[0] = EditBegins(fs)
                    /\ \A n \in 1 .. m : g[n] = EditOperation(g[n - 1], ops[n])
                    /\ \A n \in 0 .. m : g[n] \in Edits
                    /\ r.success \in BOOLEAN /\ r.files \in {fs, g[m].files}
                    /\ ops # <<>> /\ OneFile(ops) =>
                         /\ r.files = g[m].files
                         /\ r.success <=> Range(g[m].output) = {"edited"}
<1> DEFINE ops == parseEditBlock(content)
           m == Len(ops)
           r == applyEditBlock(content, fs)
           x == EditBegins(fs)
           Equation(f) ==
             f = [n \in 0 .. m |-> IF n = 0 THEN x ELSE EditOperation(f[n - 1], ops[n])]
           G == [s \in Edits \X (1 .. m) |-> EditOperation(s[1], ops[s[2]])]
           g == CHOOSE f : Equation(f)
<1>1. ops \in Seq(Operation) /\ m \in Nat /\ \A n \in 1 .. m : ops[n] \in Operation
  BY ParseType
<1>2. x \in Edits
  BY DEF EditBegins, Edits
<1> DEFINE few == OneFile(ops)
<1>3. /\ r.success \in BOOLEAN /\ r.files \in {fs, g[m].files}
      /\ ops # <<>> /\ few =>
           /\ r.files = g[m].files
           /\ r.success <=> Range(g[m].output) = {"edited"}
  <2>1. r = IF ops = <<>> THEN Result(FALSE, fs, <<"no operations">>)
            ELSE IF Cardinality({ops[i].filename : i \in DOMAIN ops}) > 1
            THEN Result(FALSE, fs, <<"multiple files">>)
            ELSE Result(Range(g[m].output) = {"edited"}, g[m].files, g[m].output)
    BY Zenon DEF applyEditBlock, EditBegins
  <2> DEFINE e == g[m]
  <2>2. /\ ops # <<>> /\ few => r = Result(Range(e.output) = {"edited"}, e.files, e.output)
        /\ ~(ops # <<>> /\ few) => \/ r = Result(FALSE, fs, <<"no operations">>)
                                   \/ r = Result(FALSE, fs, <<"multiple files">>)
    <3> HIDE DEF r, ops, m, g
    <3>1. few <=> ~(Cardinality({ops[i].filename : i \in DOMAIN ops}) > 1)
      BY DEF OneFile
    <3> HIDE DEF few
    <3> QED  BY <2>1, <3>1, Zenon
  <2> HIDE DEF r, ops, e, few
  <2>3. PICK b \in BOOLEAN : b <=> (Range(e.output) = {"edited"})
    BY Zenon
  <2>4. CASE ops # <<>> /\ few
    <3>1. (Range(e.output) = {"edited"}) = b
      BY <2>3, Zenon
    <3>2. r = Result(b, e.files, e.output)
      BY <2>2, <2>4, <3>1, Zenon
    <3>3. r.success = b /\ r.files = e.files
      BY <3>2 DEF Result
    <3> QED  BY <2>3, <3>3, Zenon DEF e
  <2>5. CASE ~(ops # <<>> /\ few)
    <3>1. \/ r = Result(FALSE, fs, <<"no operations">>)
          \/ r = Result(FALSE, fs, <<"multiple files">>)
      BY <2>2, <2>5, Zenon
    <3>2. CASE r = Result(FALSE, fs, <<"no operations">>)
      BY <2>5, <3>2 DEF Result
    <3>3. CASE r = Result(FALSE, fs, <<"multiple files">>)
      BY <2>5, <3>3 DEF Result
    <3> QED  BY <3>1, <3>2, <3>3
  <2> QED  BY <2>4, <2>5
<1> HIDE DEF few
<1> HIDE DEF r, ops
<1> HIDE DEF m, x
<1>4. \A e \in Edits, n \in 1 .. m : EditOperation(e, ops[n]) \in Edits
  BY <1>1, OneOperation
<1>5. G \in [Edits \X (1 .. m) -> Edits]
  BY <1>4
<1>6. \A s \in Edits, n \in 1 .. m : G[<<s, n>>] = EditOperation(s, ops[n])
  OBVIOUS
<1> HIDE DEF G
<1>7. PICK f \in [0 .. m -> Edits] : Recurs(f, x, G, m)
  BY <1>1, <1>2, <1>5, Recursion
<1>8. Equation(f)
  <2>1. f = [n \in 0 .. m |-> f[n]]
    OBVIOUS
  <2>2. ASSUME NEW n \in 0 .. m, n # 0 PROVE f[n] = EditOperation(f[n - 1], ops[n])
    <3>1. n \in 1 .. m /\ n - 1 \in 0 .. m
      BY <1>1, <2>2
    <3>2. f[n] = G[<<f[n - 1], n>>]
      BY <1>7, <3>1 DEF Recurs
    <3> QED  BY <1>6, <3>1, <3>2
  <2>3. \A n \in 0 .. m : f[n] = IF n = 0 THEN x ELSE EditOperation(f[n - 1], ops[n])
    BY <1>7, <2>2 DEF Recurs
  <2> QED  BY <2>1, <2>3, Zenon
<1>9. Equation(g)
  <2> HIDE DEF Equation
  <2> QED  BY <1>8
<1>10. \A n \in 0 .. m : g[n] = IF n = 0 THEN x ELSE EditOperation(g[n - 1], ops[n])
  BY <1>9, Zenon
<1> HIDE DEF g
<1>11. g[0] = x
  <2>1. 0 \in 0 .. m
    BY <1>1
  <2> QED  BY <1>10, <2>1
<1>12. ASSUME NEW n \in 1 .. m PROVE g[n] = EditOperation(g[n - 1], ops[n])
  <2>1. n \in 0 .. m /\ n # 0
    BY <1>1
  <2> QED  BY <1>10, <2>1
<1>13. ASSUME NEW n \in 0 .. m PROVE g[n] \in Edits
  <2> DEFINE D == [i \in 0 .. m |-> Edits]
  <2>1. 0 \in 0 .. m
    BY <1>1
  <2>2. ASSUME NEW i \in 1 .. m, g[i - 1] \in D[i - 1] PROVE g[i] \in D[i]
    <3>1. i - 1 \in 0 .. m /\ i \in 0 .. m
      BY <1>1
    <3> QED  BY <1>4, <1>12, <2>2, <3>1
  <2>3. g[0] \in D[0]
    BY <1>2, <1>11, <2>1
  <2> HIDE DEF D
  <2>4. g[n] \in D[n]
    BY <1>1, <2>2, <2>3, Stays
  <2> QED  BY <2>4 DEF D
<1>14. /\ g[0] = x /\ \A n \in 1 .. m : g[n] = EditOperation(g[n - 1], ops[n])
       /\ \A n \in 0 .. m : g[n] \in Edits
  BY <1>11, <1>12, <1>13
<1> QED  BY <1>3, <1>14, Zenon DEF m, x, ops, r, few

\* The journal has an edit as it was applied.
Entry(block, fs, done) ==
  [content |-> block.content, before |-> fs, after |-> done.files, success |-> done.success]

\* An edit block did what it describes.
LEMMA EditApplied ==
  ASSUME NEW block \in Block_, NEW fs \in FileSet, NEW r, r = applyEditBlock(block.content, fs)
  PROVE  /\ r.files \in FileSet /\ r.success \in BOOLEAN
         /\ block.content \in DOMAIN Intended => AsWritten(Entry(block, fs, r))
<1> DEFINE content == block.content
           ops == parseEditBlock(content)
           m == Len(ops)
           file == Intended[content].file
           intended == Intended[content].operations
           t == IF file \in DOMAIN fs THEN fs[file] ELSE <<>>
<1>1. content \in Seq(Symbol)
  BY DEF Block_
<1>2. ops \in Seq(Operation)
  BY <1>1, ParseType
<1>3. PICK g : /\ g[0] = EditBegins(fs)
               /\ \A n \in 1 .. m : g[n] = EditOperation(g[n - 1], ops[n])
               /\ \A n \in 0 .. m : g[n] \in Edits
               /\ r.success \in BOOLEAN /\ r.files \in {fs, g[m].files}
               /\ ops # <<>> /\ OneFile(ops) =>
                    /\ r.files = g[m].files
                    /\ r.success <=> Range(g[m].output) = {"edited"}
  <2> HIDE DEF content
  <2> QED  BY <1>1, EditsInOrder, Zenon DEF content
<1> HIDE DEF ops
<1>4. m \in Nat /\ 0 \in 0 .. m /\ m \in 0 .. m
  BY <1>2
<1> HIDE DEF m
<1>5. r.files \in FileSet /\ r.success \in BOOLEAN
  <2>1. g[m] \in Edits
    BY <1>3, <1>4
  <2> QED  BY <1>3, <2>1 DEF Edits
<1>6. ASSUME content \in DOMAIN Intended PROVE AsWritten(Entry(block, fs, r))
  <2>1. DOMAIN ops = 1 .. m /\ \A n \in 1 .. m : ops[n] \in Operation
    BY <1>2 DEF m
  <2>2. /\ Len(intended) = m /\ ops # <<>>
        /\ \A n \in 1 .. m : /\ ops[n].filename = file /\ ops[n].search = intended[n][1]
                             /\ ops[n].replace = intended[n][2]
    BY <1>6, <2>1, IntendedIsRead DEF ops, m
  <2>3. m # 0
    BY <1>2, <2>2 DEF m
  <2>4. \A n \in 1 .. m : intended[n][1] \in Seq(Symbol) /\ intended[n][2] \in Seq(Symbol)
    BY <2>1, <2>2 DEF Operation
  <2>5. t \in Seq(FileLine)
    <3>1. <<>> \in Seq(FileLine) /\ fs \in [DOMAIN fs -> Seq(FileLine)]
      BY FilesAs
    <3> QED  BY <3>1
  <2> HIDE DEF t, file, intended, content
  <2>6. r.files = g[m].files /\ (r.success <=> Range(g[m].output) = {"edited"})
    <3> DEFINE names == {ops[i].filename : i \in DOMAIN ops}
    <3>1. names = {file}
      BY <1>4, <2>1, <2>2, <2>3
    <3>2. Cardinality({file}) = 1
      BY FS_Singleton
    <3> HIDE DEF names
    <3>3. ~(Cardinality(names) > 1)
      <4>1. Cardinality(names) = 1
        BY <3>1, <3>2
      <4> QED  BY <4>1
    <3>4. OneFile(ops)
      BY <3>3, Zenon DEF OneFile, names
    <3>5. ops # <<>>
      BY <2>2
    <3> QED  BY <1>3, <3>4, <3>5, Zenon
  <2>7. PICK h : EditedBy(h, t, intended)
    <3>1. TextPairs(intended)
      BY <1>4, <2>2, <2>4 DEF TextPairs
    <3> QED  BY <2>5, <3>1, EditedInOrder
  <2>8. /\ Edited(t, intended) = h[m] /\ h[0] = {[text |-> t, all |-> TRUE]}
        /\ \A n \in 1 .. m :
             h[n] = UNION {Operated(e, intended[n][1], intended[n][2]) : e \in h[n - 1]}
    BY <2>2, <2>7 DEF EditedBy
  <2> DEFINE AllEdited(e) == \A i \in DOMAIN e.output : e.output[i] = "edited"
             Writable == file \in DOMAIN fs \ ReadOnly
             Made(n, e) == /\ Len(e.output) = n /\ DOMAIN e.files = DOMAIN fs
                           /\ \A f \in DOMAIN fs \ {file} : e.files[f] = fs[f]
                           /\ Writable => [text |-> e.files[file], all |-> AllEdited(e)] \in h[n]
                           /\ ~Writable => e.files = fs /\ (n # 0 => ~AllEdited(e))
             D == [n \in 0 .. m |-> {e \in Edits : Made(n, e)}]
  <2>9. g[0] \in D[0]
    <3>1. 0 \in 0 .. m /\ g[0] \in Edits
      BY <1>3, <1>4
    <3>2. g[0].files = fs /\ g[0].output = <<>>
      BY <1>3 DEF EditBegins
    <3>3. AllEdited(g[0])
      BY <3>2
    <3>4. Writable => [text |-> g[0].files[file], all |-> AllEdited(g[0])] \in h[0]
      <4>1. AllEdited(g[0]) = TRUE
        BY <3>3
      <4> HIDE DEF AllEdited
      <4> QED  BY <2>8, <3>2, <4>1 DEF t
    <3>5. Made(0, g[0])
      <4> HIDE DEF AllEdited
      <4> QED  BY <3>2, <3>4
    <3> HIDE DEF Made
    <3> QED  BY <3>1, <3>5
  <2>10. ASSUME NEW n \in 1 .. m, g[n - 1] \in D[n - 1] PROVE g[n] \in D[n]
    <3>1. n - 1 \in 0 .. m /\ n \in 0 .. m /\ n # 0
      BY <1>4
    <3>2. PICK e \in Edits : e = g[n - 1] /\ Made(n - 1, e)
      <4> HIDE DEF Made
      <4> QED  BY <2>10, <3>1
    <3>3. PICK e2 \in Edits, status \in Statuses :
            /\ e2 = g[n] /\ e2.output = Append(e.output, status)
            /\ Tried(e.files, e2.files, ops[n], status)
      <4>1. g[n] = EditOperation(e, ops[n])
        BY <1>3, <3>2
      <4> QED  BY <2>1, <4>1, OneOperation
    <3>4. e.output \in Seq(Statuses)
      BY DEF Edits
    <3>5. /\ Len(e2.output) = n
          /\ AllEdited(e2) <=> AllEdited(e) /\ status = "edited"
      <4>1. /\ Len(e2.output) = Len(e.output) + 1 /\ Len(e.output) = n - 1
            /\ DOMAIN e2.output = 1 .. Len(e.output) + 1 /\ DOMAIN e.output = 1 .. Len(e.output)
            /\ e2.output[Len(e.output) + 1] = status /\ Len(e.output) \in Nat
            /\ \A i \in DOMAIN e.output : e2.output[i] = e.output[i]
        BY <3>2, <3>3, <3>4
      <4>2. AllEdited(e2) => status = "edited"
        BY <4>1
      <4>3. ASSUME AllEdited(e2), NEW i \in DOMAIN e.output PROVE e.output[i] = "edited"
        <5>1. i \in DOMAIN e2.output
          BY <4>1
        <5> QED  BY <4>1, <4>3, <5>1
      <4>4. ASSUME AllEdited(e), status = "edited", NEW i \in DOMAIN e2.output
            PROVE  e2.output[i] = "edited"
        <5>1. i \in DOMAIN e.output \/ i = Len(e.output) + 1
          BY <4>1
        <5> QED  BY <4>1, <4>4, <5>1
      <4>5. Len(e2.output) = n
        BY <3>1, <4>1
      <4> QED  BY <4>2, <4>3, <4>4, <4>5
    <3> HIDE DEF AllEdited
    <3>6. /\ DOMAIN e.files = DOMAIN fs /\ \A f \in DOMAIN fs \ {file} : e.files[f] = fs[f]
          /\ Writable => [text |-> e.files[file], all |-> AllEdited(e)] \in h[n - 1]
          /\ ~Writable => e.files = fs
      BY <3>2
    <3>7. /\ ops[n].filename = file /\ ops[n].search = intended[n][1]
          /\ ops[n].replace = intended[n][2]
      BY <2>2
    <3> DEFINE s == intended[n][1]
               u == intended[n][2]
               old == [text |-> e.files[file], all |-> AllEdited(e)]
               next == [text |-> e2.files[file], all |-> AllEdited(e2)]
    <3>8. CASE Writable /\ StandsOnce(e.files[file], s)
      <4>1. /\ status = "edited" /\ DOMAIN e2.files = DOMAIN e.files
            /\ \A f \in DOMAIN e.files \ {file} : e2.files[f] = e.files[f]
            /\ e2.files[file] \in Replacements(e.files[file], s, u)
        BY <3>3, <3>6, <3>7, <3>8 DEF Tried, Changed
      <4>2. next.all = old.all
        <5>1. AllEdited(e2) = AllEdited(e)
          BY <3>5, <4>1 DEF AllEdited
        <5> QED  BY <5>1
      <4>3. next \in Operated(old, s, u)
        BY <3>8, <4>1, <4>2 DEF Operated
      <4>4. next \in h[n]
        <5> HIDE DEF s, u, old, next
        <5> QED  BY <2>8, <3>6, <3>8, <4>3 DEF s, u, old
      <4>5. Made(n, e2)
        BY <3>5, <3>6, <3>8, <4>1, <4>4
      <4> HIDE DEF Made
      <4> QED  BY <3>1, <3>3, <4>5
    <3>9. CASE Writable /\ ~StandsOnce(e.files[file], s)
      <4>1. status # "edited" /\ e2.files = e.files
        BY <3>3, <3>7, <3>9 DEF Tried
      <4>2. next = [text |-> old.text, all |-> FALSE]
        <5>1. AllEdited(e2) = FALSE
          BY <3>5, <4>1 DEF AllEdited
        <5> QED  BY <4>1, <5>1
      <4>3. next \in Operated(old, s, u)
        BY <3>9, <4>2 DEF Operated
      <4>4. next \in h[n]
        <5> HIDE DEF s, u, old, next
        <5> QED  BY <2>8, <3>6, <3>9, <4>3 DEF s, u, old
      <4>5. Made(n, e2)
        BY <3>5, <3>6, <3>9, <4>1, <4>4
      <4> HIDE DEF Made
      <4> QED  BY <3>1, <3>3, <4>5
    <3>10. CASE ~Writable
      <4>1. status # "edited" /\ e2.files = e.files
        BY <3>3, <3>6, <3>7, <3>10 DEF Tried
      <4>2. Made(n, e2)
        BY <3>5, <3>6, <3>10, <4>1
      <4> HIDE DEF Made
      <4> QED  BY <3>1, <3>3, <4>2
    <3> QED  BY <3>8, <3>9, <3>10
  <2>11. g[m] \in Edits /\ Made(m, g[m])
    <3>1. m \in 0 .. m
      BY <1>4
    <3> HIDE DEF D
    <3>2. g[m] \in D[m]
      BY <1>4, <2>9, <2>10, <3>1, Stays
    <3> HIDE DEF Made
    <3> QED  BY <3>1, <3>2 DEF D
  <2>12. r.success <=> AllEdited(g[m])
    <3>1. g[m].output \in Seq(Statuses) /\ Len(g[m].output) = m
      BY <2>11 DEF Edits
    <3>2. 1 \in DOMAIN g[m].output
      BY <1>4, <2>3, <3>1
    <3> QED  BY <2>6, <3>2 DEF Range
  <2> HIDE DEF AllEdited
  <2>13. CASE Writable
    <3>1. r.success = AllEdited(g[m])
      BY <1>5, <2>12 DEF AllEdited
    <3>2. /\ DOMAIN r.files = DOMAIN fs /\ \A f \in DOMAIN fs \ {file} : r.files[f] = fs[f]
          /\ [text |-> r.files[file], all |-> r.success] \in Edited(fs[file], intended)
      BY <2>6, <2>8, <2>11, <2>13, <3>1 DEF t
    <3> QED  BY <2>13, <3>2 DEF AsWritten, Entry, content, file, intended
  <2>14. CASE ~Writable
    <3>1. r.files = fs /\ ~r.success
      BY <2>3, <2>6, <2>11, <2>12, <2>14
    <3> QED  BY <2>14, <3>1 DEF AsWritten, Entry, content, file
  <2> QED  BY <2>13, <2>14
<1> QED  BY <1>5, <1>6

\* A block leaves files, and an edit block does what it describes.
LEMMA BlockApplied ==
  ASSUME NEW block \in Block_, NEW fs \in FileSet, NEW done \in Applied(block, fs)
  PROVE  /\ done.files \in FileSet /\ done.success \in BOOLEAN
         /\ block.language = <<"edit">> /\ block.content \in DOMAIN Intended
              => AsWritten(Entry(block, fs, done))
<1>1. block.content \in Seq(Symbol)
  BY DEF Block_
<1>2. CASE block.language = <<"edit">>
  <2>1. <<"edit">> # <<"read">>
    OBVIOUS
  <2>2. done = applyEditBlock(block.content, fs)
    BY <1>2, <2>1 DEF Applied
  <2> QED  BY <2>2, EditApplied
<1>3. CASE block.language = <<"read">>
  <2>1. done = applyReadBlock(block.content, fs)
    BY <1>3 DEF Applied
  <2>2. done.files = fs /\ done.success \in BOOLEAN
    BY <2>1 DEF applyReadBlock, Result
  <2>3. block.language # <<"edit">>
    BY <1>3
  <2> QED  BY <2>2, <2>3
<1>4. CASE block.language = <<"create">>
  <2>1. block.language # <<"edit">> /\ block.language # <<"read">>
    BY <1>4
  <2>2. done = applyCreateBlock(block.content, fs)
    BY <1>4, <2>1 DEF Applied
  <2>3. CASE block.content = <<>> \/ block.content[1] \notin DOMAIN Headers
    BY <2>1, <2>2, <2>3 DEF applyCreateBlock, Result
  <2>4. CASE block.content # <<>> /\ block.content[1] \in DOMAIN Headers
    <3> DEFINE name == Headers[block.content[1]]
               fs2 == [f \in DOMAIN fs \cup {name} |-> IF f = name THEN Tail(block.content) ELSE fs[f]]
    <3>1. name \in FileName /\ Tail(block.content) \in Seq(FileLine)
      <4>1. Tail(block.content) \in Seq(Symbol)
        BY <1>1, <2>4
      <4> QED  BY <2>4, <4>1, SymbolLines DEF FileName, HeaderName
    <3>2. DOMAIN fs \subseteq FileName /\ fs \in [DOMAIN fs -> Seq(FileLine)]
      BY FilesAs
    <3>3. fs2 \in FileSet
      <4>1. fs2 \in [DOMAIN fs \cup {name} -> Seq(FileLine)]
        <5> DEFINE lines == Tail(block.content)
        <5> HIDE DEF name, lines
        <5> QED  BY <3>1, <3>2 DEF lines
      <4>2. DOMAIN fs2 = DOMAIN fs \cup {name} /\ DOMAIN fs2 \subseteq FileName
        BY <3>1, <3>2
      <4> HIDE DEF fs2
      <4> QED  BY <4>1, <4>2, FilesAs
    <3>4. done.files \in {fs, fs2} /\ done.success \in BOOLEAN
      BY <2>2, <2>4 DEF applyCreateBlock, Result
    <3> QED  BY <2>1, <3>3, <3>4
  <2> QED  BY <2>3, <2>4
<1>5. CASE block.language \notin {<<"edit">>, <<"read">>, <<"create">>}
  <2>1. done \in executeBlock(fs)
    BY <1>5 DEF Applied
  <2>2. done = Result(TRUE, fs, <<"exit 0">>) \/ done = Result(FALSE, fs, <<"exit 1">>)
    BY <2>1, Zenon DEF executeBlock
  <2>3. done.files = fs /\ done.success \in BOOLEAN
    <3>1. CASE done = Result(TRUE, fs, <<"exit 0">>)
      BY <3>1 DEF Result
    <3>2. CASE done = Result(FALSE, fs, <<"exit 1">>)
      BY <3>2 DEF Result
    <3> QED  BY <2>2, <3>1, <3>2
  <2> QED  BY <1>5, <2>3
<1> QED  BY <1>2, <1>3, <1>4, <1>5

-------------------------------------------------------------------------------
(* The journal of the edits *)

Entries == {e \in [content : Seq(Symbol), before : FileSet, after : FileSet, success : BOOLEAN] :
              e.content \in DOMAIN Intended => AsWritten(e)}

\* Journalled: what the CLI edited, it edited as written; and files, and the blocks that it
\* is about to apply, are text.
Journalled ==
  /\ cli.files \in FileSet /\ cli.journal \in Seq(Entries)
  /\ cli.phase = "executing" => cli.blocks \in Seq(Block_) /\ cli.next \in Nat \ {0}

LEMMA JournalledInit == Init => Journalled
<1> SUFFICES ASSUME Init PROVE Journalled
  OBVIOUS
<1>1. cli \in {NewCli, [NewCli EXCEPT !.phase = "streaming"]}
  BY DEF Init
<1>2. cli.files = Files /\ cli.journal = <<>> /\ cli.phase # "executing"
  BY <1>1 DEF NewCli
<1>3. Files \in FileSet
  <2>1. PICK lines : lines = UNION {Range(Files[f]) : f \in DOMAIN Files}
    OBVIOUS
  <2>2. \A f \in DOMAIN Files : Files[f] \in Seq(FileLine)
    <3>1. \A f \in DOMAIN Files : Files[f] \in Seq(lines)
      BY <2>1, FilesAreText
    <3>2. lines \subseteq FileLine
      BY <2>1 DEF FileLine
    <3> QED  BY <3>1, <3>2
  <2>3. Files = [f \in DOMAIN Files |-> Files[f]]
    BY FilesAreText
  <2>4. Files \in [DOMAIN Files -> Seq(FileLine)]
    BY <2>2, <2>3
  <2> QED  BY <2>4, FilesAs DEF FileName
<1> QED  BY <1>2, <1>3 DEF Journalled

\* A block is applied.
LEMMA JournalledApply == ASSUME StreamOK, Journalled, ApplyBlock PROVE Journalled'
<1>1. PICK done \in Applied(Block, cli.files) :
        cli' = [cli EXCEPT !.files = done.files, !.next = @ + 1,
                           !.results = Append(@, [language |-> Block.language,
                                                  success |-> done.success]),
                           !.applied = Append(@, [language |-> Block.language,
                                                  success |-> done.success]),
                           !.journal = IF Block.language = <<"edit">>
                                       THEN Append(@, Entry(Block, cli.files, done)) ELSE @]
  BY Zenon DEF ApplyBlock, Entry
<1>2. /\ cli.files \in FileSet /\ cli.journal \in Seq(Entries) /\ cli.blocks \in Seq(Block_)
      /\ cli.next \in Nat \ {0} /\ cli.next <= Len(cli.blocks)
  BY DEF Journalled, ApplyBlock
<1>3. Block \in Block_
  BY <1>2 DEF Block
<1>4. /\ done.files \in FileSet /\ done.success \in BOOLEAN
      /\ Block.language = <<"edit">> /\ Block.content \in DOMAIN Intended
           => AsWritten(Entry(Block, cli.files, done))
  BY <1>2, <1>3, BlockApplied
<1>5. /\ cli'.files = done.files /\ cli'.next = cli.next + 1 /\ cli'.blocks = cli.blocks
      /\ cli'.journal = IF Block.language = <<"edit">>
                        THEN Append(cli.journal, Entry(Block, cli.files, done)) ELSE cli.journal
  BY <1>1 DEF StreamOK, CliFields
<1>6. Block.language = <<"edit">> => Entry(Block, cli.files, done) \in Entries
  <2>1. Block.content \in Seq(Symbol)
    BY <1>3 DEF Block_
  <2> QED  BY <1>2, <1>4, <2>1 DEF Entries, Entry
<1>7. cli'.journal \in Seq(Entries)
  BY <1>2, <1>5, <1>6
<1> QED  BY <1>2, <1>4, <1>5, <1>7 DEF Journalled

LEMMA JournalledStep == ASSUME StreamOK, Journalled, Weighed', [Next]_vars PROVE Journalled'
<1> DEFINE Kept_ == cli'.files = cli.files /\ cli'.journal = cli.journal
<1>1. Kept_ /\ cli'.phase # "executing" => Journalled'
  BY DEF Journalled
<1>2. Kept_ /\ UNCHANGED <<cli>> => Journalled'
  BY DEF Journalled
<1>3. CASE UNCHANGED vars
  BY <1>2, <1>3 DEF vars
<1>4. ASSUME NEW n \in DeltaSizes \cup {Len(answer.text) - answer.sent}, SendText(n)
      PROVE  Journalled'
  BY <1>2, <1>4 DEF SendText
<1>5. CASE SendTool \/ Close
  BY <1>2, <1>5 DEF SendTool, Close
<1>6. ASSUME NEW k \in 1 .. Len(wire), Read(k) PROVE Journalled'
  BY <1>2, <1>6 DEF Read
<1>7. CASE End
  <2>1. UNCHANGED program
        /\ cli' = IF program = "server" THEN [cli EXCEPT !.phase = "ended"]
                  ELSE [cli EXCEPT !.turns = Append(@, Assistant), !.blocks = detector'.blocks,
                                   !.next = 1, !.results = <<>>,
                                   !.phase = IF detector'.blocks = <<>> THEN "prompt"
                                             ELSE "executing"]
    BY <1>7, Zenon DEF End
  <2>2. CASE program = "server"
    BY <1>1, <2>1, <2>2 DEF StreamOK, CliFields
  <2>3. CASE program # "server"
    <3>1. detector' \in BlockDetector_
      BY <2>1, <2>3 DEF Weighed, Detectors
    <3>2. detector'.blocks \in Seq(Block_)
      BY <3>1 DEF BlockDetector_
    <3>3. Kept_ /\ cli'.blocks = detector'.blocks /\ cli'.next = 1
      BY <2>1, <2>3 DEF StreamOK, CliFields
    <3> QED  BY <3>2, <3>3 DEF Journalled
  <2> QED  BY <2>2, <2>3
<1>8. CASE Fail
  BY <1>1, <1>8 DEF Fail, StreamOK, CliFields
<1>9. ASSUME NEW a \in CliAnswers, Ask(a) \/ SendResults(a) PROVE Journalled'
  BY <1>1, <1>9 DEF Ask, SendResults, StreamOK, CliFields
<1>10. CASE ApplyBlock
  BY <1>10, JournalledApply
<1>11. CASE SkipBlock \/ SkipAll
  <2>1. cli.phase = "executing" /\ Kept_ /\ cli'.blocks = cli.blocks
        /\ cli'.next \in {cli.next + 1, Len(cli.blocks) + 1}
    BY <1>11 DEF SkipBlock, SkipAll, StreamOK, CliFields
  <2>2. cli.blocks \in Seq(Block_) /\ cli.next \in Nat \ {0}
    BY <2>1 DEF Journalled
  <2>3. Len(cli.blocks) \in Nat
    BY <2>2
  <2>4. cli'.next \in Nat \ {0}
    BY <2>1, <2>2, <2>3
  <2> QED  BY <2>1, <2>2, <2>4 DEF Journalled
<1>12. CASE NothingToReport
  BY <1>1, <1>12 DEF NothingToReport, StreamOK, CliFields
<1> QED  BY <1>3, <1>4, <1>5, <1>6, <1>7, <1>8, <1>9, <1>10, <1>11, <1>12 DEF Next

\* EditsAsWritten: an edit does the operations of its block in their order, each at the only
\* place where its text stands, leaves out those whose text does not stand once, changes no
\* other file, and is reported as a success exactly if it left out none, for every answer,
\* cut into any deltas, and for any files, whatever patterns of String.replace() the new
\* text has (edit-applier.ts:147-172).
THEOREM EditsDoAsTheySay == Spec => []EditsAsWritten
<1>1. StreamOK /\ Weighed /\ Journalled /\ [Next]_vars => (StreamOK /\ Weighed /\ Journalled)'
  BY StreamStep, WeighedStep, JournalledStep
<1>2. Init => StreamOK /\ Weighed /\ Journalled
  BY StreamInit, WeighedInit, JournalledInit
<1>3. Journalled => EditsAsWritten
  <2> SUFFICES ASSUME Journalled, NEW i \in DOMAIN cli.journal,
                      cli.journal[i].content \in DOMAIN Intended
               PROVE  AsWritten(cli.journal[i])
    BY DEF EditsAsWritten
  <2>1. cli.journal[i] \in Entries
    BY DEF Journalled
  <2> QED  BY <2>1 DEF Entries
<1> QED  BY <1>1, <1>2, <1>3, PTL DEF Spec
===============================================================================
