--------------------------- MODULE SequenceLemmas ---------------------------
(***************************************************************************)
(* Facts that the proofs about pages, chunks and rows share: induction     *)
(* over the natural numbers, least and greatest elements, pieces of a      *)
(* sequence, and sequences of sequences (FlattenSeq of SequencesExt).      *)
(***************************************************************************)
EXTENDS Integers, Sequences, SequencesExt, SequenceTheorems, FiniteSetTheorems, WellFoundedInduction,
        TLAPS

-----------------------------------------------------------------------------
\* Natural numbers: a set of them has a minimum, and what holds of 0 and passes from n to n + 1
\* holds of them all.

Less == {p \in Nat \X Nat : p[1] < p[2]}

LEMMA LessIsWellFounded == IsWellFoundedOn(Less, Nat)
<1>1. IsWellFoundedOn(OpToRel(<, Nat), Nat)
  BY NatLessThanWellFounded
<1>2. OpToRel(<, Nat) = Less
  BY DEF OpToRel, Less
<1> QED
  BY <1>1, <1>2

LEMMA Least ==
  ASSUME NEW T \in SUBSET Nat, T # {}
  PROVE  \E m \in T : \A n \in T : m <= n
<1>1. \E x \in T : \A y \in T : ~(<<y, x>> \in Less)
  <2> HIDE DEF Less
  <2> QED
    BY LessIsWellFounded, WFMin
<1>2. \A a, b \in Nat : a < b => <<a, b>> \in Less
  BY DEF Less
<1>3. PICK x \in T : \A y \in T : ~(<<y, x>> \in Less)
  BY <1>1
<1>4. ASSUME NEW y \in T PROVE x <= y
  <2>1. x \in Nat /\ y \in Nat
    OBVIOUS
  <2>2. ~(<<y, x>> \in Less)
    BY <1>3
  <2>3. ~(y < x)
    BY <1>2, <2>1, <2>2
  <2> QED
    BY <2>1, <2>3
<1> QED
  BY <1>4

LEMMA Induction ==
  ASSUME NEW S \in SUBSET Nat, 0 \in S, \A n \in S : n + 1 \in S
  PROVE  S = Nat
<1>1. SUFFICES ASSUME Nat \ S # {} PROVE FALSE
  OBVIOUS
<1>2. PICK m \in Nat \ S : \A n \in Nat \ S : m <= n
  BY <1>1, Least
<1>3. m # 0 /\ m - 1 \in Nat /\ m - 1 \notin Nat \ S
  BY <1>2
<1> QED
  BY <1>2, <1>3

LEMMA MinOfNats ==
  ASSUME NEW S \in SUBSET Nat, S # {}
  PROVE  Min(S) \in S /\ \A n \in S : Min(S) <= n
BY Least DEF Min

LEMMA MaxOfTwo ==
  ASSUME NEW a \in Nat, NEW b \in Nat
  PROVE  Max({a, b}) \in {a, b} /\ a <= Max({a, b}) /\ b <= Max({a, b})
<1>1. \E x \in {a, b} : \A y \in {a, b} : x >= y
  <2>1. CASE a >= b
    BY <2>1
  <2>2. CASE b >= a
    BY <2>2
  <2> QED
    BY <2>1, <2>2
<1>2. Max({a, b}) \in {a, b} /\ \A y \in {a, b} : Max({a, b}) >= y
  BY <1>1 DEF Max
<1> QED
  BY <1>2

-----------------------------------------------------------------------------
\* Pieces of a sequence.

LEMMA PieceOf ==
  ASSUME NEW f \in Seq(Nat), NEW from \in Nat, NEW to \in Nat, to <= Len(f)
  PROVE  /\ SubSeq(f, from + 1, to) \in Seq(Nat)
         /\ Len(SubSeq(f, from + 1, to)) = IF from <= to THEN to - from ELSE 0
         /\ \A i \in 1 .. to - from : SubSeq(f, from + 1, to)[i] = f[from + i]
<1>1. \A i \in from + 1 .. to : f[i] \in Nat
  BY ElementOfSeq, LenProperties
<1>2. /\ SubSeq(f, from + 1, to) \in Seq(Nat)
      /\ Len(SubSeq(f, from + 1, to)) = IF from + 1 <= to THEN to - (from + 1) + 1 ELSE 0
      /\ \A i \in 1 .. to - (from + 1) + 1 : SubSeq(f, from + 1, to)[i] = f[from + 1 + i - 1]
  BY <1>1, SubSeqProperties
<1> QED
  BY <1>2

\* Pieces of a sequence, one after the other, are its beginning.
LEMMA PiecesFlatten ==
  ASSUME NEW data \in Seq(Nat), NEW n \in Nat \ {0}, NEW seqs, Len(seqs) = n,
         NEW at \in [0 .. n -> 0 .. Len(data)], at[0] = 0,
         \A i \in 1 .. n : at[i - 1] <= at[i] /\ seqs[i] = SubSeq(data, at[i - 1] + 1, at[i])
  PROVE  FlattenSeq(seqs) = SubSeq(data, 1, at[n])
<1> DEFINE Rest(h) == [i \in 1 .. n |-> IF i = 1 THEN seqs[i] ELSE h[i - 1] \o seqs[i]]
           f == CHOOSE h : h = Rest(h)
           g == [i \in 1 .. n |-> SubSeq(data, 1, at[i])]
<1>1. FlattenSeq(seqs) = f[n]
  BY DEF FlattenSeq
<1>2. g = Rest(g)
  <2>1. ASSUME NEW i \in 1 .. n
        PROVE  g[i] = IF i = 1 THEN seqs[i] ELSE g[i - 1] \o seqs[i]
    <3>1. CASE i = 1
      <4>1. at[i - 1] + 1 = 1
        BY <3>1
      <4> QED
        BY <3>1, <4>1
    <3>2. CASE i # 1
      <4> DEFINE a == at[i - 1]
                 b == at[i]
      <4>1. i - 1 \in 1 .. n /\ i - 1 \in 0 .. n /\ i \in 0 .. n
        BY <2>1, <3>2
      <4>2. a \in 0 .. Len(data) /\ b \in 0 .. Len(data) /\ a <= b /\ Len(data) \in Nat
        BY <4>1, LenProperties
      <4>3. g[i - 1] = SubSeq(data, 1, a) /\ seqs[i] = SubSeq(data, a + 1, b) /\ g[i] = SubSeq(data, 1, b)
        BY <2>1, <4>1
      <4> HIDE DEF a, b, g
      <4>4. SubSeq(data, 1, a) \o SubSeq(data, a + 1, b) = SubSeq(data, 1, b)
        <5>1. 1 \in 1 .. Len(data) + 1 /\ a \in 1 - 1 .. Len(data) /\ b \in a .. Len(data)
          BY <4>2
        <5> QED
          BY <5>1, ConcatAdjacentSubSeq
      <4> QED
        BY <3>2, <4>3, <4>4
    <3> QED
      BY <3>1, <3>2
  <2> DEFINE B(i) == IF i = 1 THEN seqs[i] ELSE g[i - 1] \o seqs[i]
  <2>2. Rest(g) = [i \in 1 .. n |-> B(i)]
    OBVIOUS
  <2>3. g = [i \in 1 .. n |-> g[i]]
    BY Zenon
  <2>4. \A i \in 1 .. n : g[i] = B(i)
    BY <2>1
  <2> HIDE DEF B, g, Rest
  <2>5. [i \in 1 .. n |-> g[i]] = [i \in 1 .. n |-> B(i)]
    BY <2>4
  <2> QED
    BY <2>2, <2>3, <2>5
<1> HIDE DEF g
<1>3. f = Rest(f)
  <2>1. \E h : h = Rest(h)
    <3> HIDE DEF Rest
    <3> QED
      BY <1>2
  <2> HIDE DEF Rest
  <2> QED
    BY <2>1
<1> HIDE DEF f
<1>4. \A i \in 1 .. n : f[i] = IF i = 1 THEN seqs[i] ELSE f[i - 1] \o seqs[i]
  BY <1>3
<1>5. \A i \in 1 .. n : g[i] = IF i = 1 THEN seqs[i] ELSE g[i - 1] \o seqs[i]
  BY <1>2
<1> HIDE DEF Rest
<1> DEFINE S == {i \in Nat : i + 1 \in 1 .. n => f[i + 1] = g[i + 1]}
<1>6. 0 \in S
  BY <1>4, <1>5
<1>7. ASSUME NEW i \in S PROVE i + 1 \in S
  <2>1. i \in Nat /\ (i + 1 \in 1 .. n => f[i + 1] = g[i + 1])
    BY <1>7
  <2>2. ASSUME NEW j \in 1 .. n, j - 1 \in 1 .. n, f[j - 1] = g[j - 1] PROVE f[j] = g[j]
    <3>1. j # 1
      BY <2>2
    <3>2. f[j] = f[j - 1] \o seqs[j] /\ g[j] = g[j - 1] \o seqs[j]
      BY <1>4, <1>5, <3>1
    <3> QED
      BY <2>2, <3>2
  <2>3. SUFFICES ASSUME i + 1 + 1 \in 1 .. n PROVE f[i + 1 + 1] = g[i + 1 + 1]
    BY <2>1
  <2> HIDE DEF S
  <2>4. i + 1 \in 1 .. n /\ i + 1 + 1 - 1 = i + 1
    BY <2>1, <2>3
  <2> QED
    BY <2>1, <2>2, <2>3, <2>4
<1>8. S \in SUBSET Nat
  OBVIOUS
<1>9. S = Nat
  <2> HIDE DEF S
  <2> QED
    BY <1>6, <1>7, <1>8, Induction
<1>10. f[n] = g[n]
  <2>1. n - 1 \in Nat /\ n - 1 + 1 = n /\ n \in 1 .. n
    OBVIOUS
  <2>2. n - 1 \in S
    <3> HIDE DEF S
    <3> QED
      BY <1>9, <2>1
  <2> QED
    BY <2>1, <2>2
<1>11. g[n] = SubSeq(data, 1, at[n])
  <2>1. n \in 1 .. n
    OBVIOUS
  <2> QED
    BY <2>1 DEF g
<1> QED
  BY <1>1, <1>10, <1>11

-----------------------------------------------------------------------------
\* A sequence of sequences in one.

FlatStep(f, ss) == [i \in 1 .. Len(ss) |-> IF i = 1 THEN ss[i] ELSE f[i - 1] \o ss[i]]

\* The beginnings of the whole, of 1 .. k of the sequences.
Beginnings(f, ss, k, S) ==
    /\ f \in [1 .. k -> Seq(S)]
    /\ \A i \in 1 .. k : f[i] = IF i = 1 THEN ss[i] ELSE f[i - 1] \o ss[i]

LEMMA BeginningsExist ==
  ASSUME NEW S, NEW ss \in Seq(Seq(S)), ss # <<>>
  PROVE  \E f : Beginnings(f, ss, Len(ss), S)
<1> DEFINE n == Len(ss)
           T == {k \in Nat : k + 1 \in 1 .. n => \E f : Beginnings(f, ss, k + 1, S)}
<1>1. n \in Nat \ {0} /\ \A i \in 1 .. n : ss[i] \in Seq(S)
  BY EmptySeq, ElementOfSeq
<1> HIDE DEF n
<1>2. 0 \in T
  <2>1. Beginnings([i \in 1 .. 1 |-> ss[1]], ss, 1, S)
    BY <1>1 DEF Beginnings
  <2> QED
    BY <2>1
<1>3. ASSUME NEW k \in T PROVE k + 1 \in T
  <2>1. k \in Nat /\ (k + 1 \in 1 .. n => \E f : Beginnings(f, ss, k + 1, S))
    BY <1>3
  <2>2. SUFFICES ASSUME k + 1 + 1 \in 1 .. n PROVE \E f : Beginnings(f, ss, k + 1 + 1, S)
    BY <2>1
  <2> HIDE DEF T
  <2>3. k + 1 \in 1 .. n /\ k + 1 \in Nat
    BY <1>1, <2>1, <2>2
  <2>4. PICK f : Beginnings(f, ss, k + 1, S)
    BY <2>1, <2>3
  <2> DEFINE m == k + 1
             x == f[m] \o ss[m + 1]
             g == [i \in 1 .. m + 1 |-> IF i = m + 1 THEN x ELSE f[i]]
  <2>5. m \in Nat \ {0} /\ m + 1 \in 1 .. n
    BY <2>1, <2>2
  <2>6. /\ f \in [1 .. m -> Seq(S)]
        /\ \A i \in 1 .. m : f[i] = IF i = 1 THEN ss[i] ELSE f[i - 1] \o ss[i]
    BY <2>4 DEF Beginnings
  <2> HIDE DEF m
  <2>7. x \in Seq(S)
    <3>1. f[m] \in Seq(S) /\ ss[m + 1] \in Seq(S)
      BY <1>1, <2>5, <2>6
    <3> QED
      BY <3>1, ConcatProperties
  <2> HIDE DEF x
  <2>8. g \in [1 .. m + 1 -> Seq(S)]
    BY <2>5, <2>6, <2>7
  <2>9. ASSUME NEW i \in 1 .. m + 1
        PROVE  g[i] = IF i = 1 THEN ss[i] ELSE g[i - 1] \o ss[i]
    <3>1. CASE i = m + 1
      <4>1. i # 1 /\ i - 1 = m /\ m \in 1 .. m + 1 /\ m # m + 1
        BY <2>5, <3>1
      <4>2. g[i] = x /\ g[m] = f[m]
        BY <3>1, <4>1
      <4> QED
        BY <3>1, <4>1, <4>2 DEF x
    <3>2. CASE i # m + 1
      <4>1. i \in 1 .. m /\ (i # 1 => i - 1 \in 1 .. m + 1 /\ i - 1 # m + 1)
        BY <2>5, <3>2
      <4>2. g[i] = f[i] /\ (i # 1 => g[i - 1] = f[i - 1])
        BY <3>2, <4>1
      <4> QED
        BY <2>6, <4>1, <4>2
    <3> QED
      BY <3>1, <3>2
  <2>10. Beginnings(g, ss, m + 1, S)
    <3> HIDE DEF g
    <3> QED
      BY <2>8, <2>9 DEF Beginnings
  <2> QED
    BY <2>10 DEF m
<1>4. T \in SUBSET Nat
  OBVIOUS
<1>5. T = Nat
  <2> HIDE DEF T
  <2> QED
    BY <1>2, <1>3, <1>4, Induction
<1>6. n - 1 \in Nat /\ n - 1 + 1 = n /\ n \in 1 .. n
  BY <1>1
<1>7. n - 1 \in T
  <2> HIDE DEF T
  <2> QED
    BY <1>5, <1>6
<1> QED
  BY <1>6, <1>7 DEF n

LEMMA FlattenIsTheLast ==
  ASSUME NEW S, NEW ss \in Seq(Seq(S)), ss # <<>>
  PROVE  \E f : Beginnings(f, ss, Len(ss), S) /\ FlattenSeq(ss) = f[Len(ss)]
<1> DEFINE n == Len(ss)
           f == CHOOSE h : h = FlatStep(h, ss)
<1>1. n \in Nat \ {0} /\ \A i \in 1 .. n : ss[i] \in Seq(S)
  BY EmptySeq, ElementOfSeq
<1>2. FlattenSeq(ss) = f[n]
  BY <1>1 DEF FlattenSeq, FlatStep
<1>3. PICK g : Beginnings(g, ss, n, S)
  BY BeginningsExist
<1>4. /\ g \in [1 .. n -> Seq(S)]
      /\ \A i \in 1 .. n : g[i] = IF i = 1 THEN ss[i] ELSE g[i - 1] \o ss[i]
  BY <1>3 DEF Beginnings
<1>5. g = FlatStep(g, ss)
  <2> DEFINE B(i) == IF i = 1 THEN ss[i] ELSE g[i - 1] \o ss[i]
  <2>1. FlatStep(g, ss) = [i \in 1 .. n |-> B(i)]
    BY DEF FlatStep
  <2>2. \A i \in 1 .. n : g[i] = B(i)
    BY <1>4
  <2>3. g = [i \in 1 .. n |-> g[i]]
    BY <1>4
  <2> HIDE DEF B, n
  <2>4. [i \in 1 .. n |-> g[i]] = [i \in 1 .. n |-> B(i)]
    BY <2>2
  <2> QED
    BY <2>1, <2>3, <2>4
<1>6. f = FlatStep(f, ss)
  <2> HIDE DEF n
  <2> QED
    BY <1>5
<1> HIDE DEF f
<1>7. \A i \in 1 .. n : f[i] = IF i = 1 THEN ss[i] ELSE f[i - 1] \o ss[i]
  BY <1>6 DEF FlatStep
<1>8. DOMAIN f = 1 .. n /\ f = [i \in 1 .. n |-> f[i]]
  BY <1>6 DEF FlatStep
<1> HIDE DEF n
<1> DEFINE T == {k \in Nat : k + 1 \in 1 .. n => f[k + 1] = g[k + 1]}
<1>9. 0 \in T
  <2>1. 1 \in 1 .. n
    BY <1>1
  <2>2. f[1] = ss[1]
    BY <1>7, <2>1
  <2>3. g[1] = ss[1]
    BY <1>4, <2>1
  <2>4. f[0 + 1] = g[0 + 1]
    BY <2>2, <2>3
  <2> QED
    BY <2>4
<1>10. ASSUME NEW k \in T PROVE k + 1 \in T
  <2>1. k \in Nat /\ (k + 1 \in 1 .. n => f[k + 1] = g[k + 1])
    BY <1>10
  <2>2. ASSUME NEW j \in 1 .. n, j - 1 \in 1 .. n, f[j - 1] = g[j - 1] PROVE f[j] = g[j]
    <3>1. j # 1
      BY <2>2
    <3>2. f[j] = f[j - 1] \o ss[j] /\ g[j] = g[j - 1] \o ss[j]
      BY <1>4, <1>7, <3>1
    <3> QED
      BY <2>2, <3>2
  <2>3. SUFFICES ASSUME k + 1 + 1 \in 1 .. n PROVE f[k + 1 + 1] = g[k + 1 + 1]
    BY <2>1
  <2> HIDE DEF T
  <2>4. k + 1 \in 1 .. n /\ k + 1 + 1 - 1 = k + 1
    BY <1>1, <2>1, <2>3
  <2> QED
    BY <2>1, <2>2, <2>3, <2>4
<1>11. T \in SUBSET Nat
  OBVIOUS
<1>12. T = Nat
  <2> HIDE DEF T
  <2> QED
    BY <1>9, <1>10, <1>11, Induction
<1>13. n - 1 \in Nat /\ n - 1 + 1 = n /\ n \in 1 .. n
  BY <1>1
<1>14. n - 1 \in T
  <2> HIDE DEF T
  <2> QED
    BY <1>12, <1>13
<1>15. f[n] = g[n]
  BY <1>13, <1>14
<1> QED
  BY <1>2, <1>3, <1>15 DEF n

LEMMA BeginningsAgree ==
  ASSUME NEW S, NEW ss, NEW tt, NEW k, NEW f, NEW g, k \in Nat,
         Beginnings(f, ss, k, S), Beginnings(g, tt, k + 1, S), \A i \in 1 .. k : ss[i] = tt[i]
  PROVE  \A i \in 1 .. k : f[i] = g[i]
<1>1. \A i \in 1 .. k : f[i] = IF i = 1 THEN ss[i] ELSE f[i - 1] \o ss[i]
  BY DEF Beginnings
<1>2. \A i \in 1 .. k : g[i] = IF i = 1 THEN ss[i] ELSE g[i - 1] \o ss[i]
  <2>1. \A i \in 1 .. k + 1 : g[i] = IF i = 1 THEN tt[i] ELSE g[i - 1] \o tt[i]
    BY DEF Beginnings
  <2> SUFFICES ASSUME NEW i \in 1 .. k
               PROVE  g[i] = IF i = 1 THEN ss[i] ELSE g[i - 1] \o ss[i]
    OBVIOUS
  <2>2. i \in 1 .. k + 1
    OBVIOUS
  <2>3. ss[i] = tt[i]
    OBVIOUS
  <2> QED
    BY <2>1, <2>2, <2>3
<1> DEFINE T == {j \in Nat : j + 1 \in 1 .. k => f[j + 1] = g[j + 1]}
<1>3. 0 \in T
  <2>1. 1 \in 1 .. k => f[1] = g[1]
    BY <1>1, <1>2
  <2> QED
    BY <2>1
<1>4. ASSUME NEW j \in T PROVE j + 1 \in T
  <2>1. j \in Nat /\ (j + 1 \in 1 .. k => f[j + 1] = g[j + 1])
    BY <1>4
  <2>2. ASSUME NEW i \in 1 .. k, i - 1 \in 1 .. k, f[i - 1] = g[i - 1] PROVE f[i] = g[i]
    <3>1. i # 1
      BY <2>2
    <3>2. f[i] = f[i - 1] \o ss[i] /\ g[i] = g[i - 1] \o ss[i]
      BY <1>1, <1>2, <3>1
    <3> QED
      BY <2>2, <3>2
  <2>3. SUFFICES ASSUME j + 1 + 1 \in 1 .. k PROVE f[j + 1 + 1] = g[j + 1 + 1]
    BY <2>1
  <2> HIDE DEF T
  <2>4. j + 1 \in 1 .. k /\ j + 1 + 1 - 1 = j + 1
    BY <2>1, <2>3
  <2> QED
    BY <2>1, <2>2, <2>3, <2>4
<1>5. T \in SUBSET Nat
  OBVIOUS
<1>6. T = Nat
  <2> HIDE DEF T
  <2> QED
    BY <1>3, <1>4, <1>5, Induction
<1>7. ASSUME NEW i \in 1 .. k PROVE f[i] = g[i]
  <2>1. i - 1 \in Nat /\ i - 1 + 1 = i
    OBVIOUS
  <2>2. i - 1 \in T
    <3> HIDE DEF T
    <3> QED
      BY <1>6, <2>1
  <2> QED
    BY <2>1, <2>2
<1> QED
  BY <1>7

LEMMA FlattenEmpty == FlattenSeq(<<>>) = <<>>
BY DEF FlattenSeq

LEMMA FlattenTyped ==
  ASSUME NEW S, NEW ss \in Seq(Seq(S))
  PROVE  FlattenSeq(ss) \in Seq(S)
<1>1. CASE ss = <<>>
  BY <1>1, FlattenEmpty, EmptySeq
<1>2. CASE ss # <<>>
  <2>1. PICK f : Beginnings(f, ss, Len(ss), S) /\ FlattenSeq(ss) = f[Len(ss)]
    BY <1>2, FlattenIsTheLast
  <2>2. Len(ss) \in 1 .. Len(ss)
    BY <1>2, EmptySeq
  <2> QED
    BY <2>1, <2>2 DEF Beginnings
<1> QED
  BY <1>1, <1>2

LEMMA FlattenSingle ==
  ASSUME NEW S, NEW s \in Seq(S)
  PROVE  FlattenSeq(<<s>>) = s
<1>1. <<s>> \in Seq(Seq(S)) /\ <<s>> # <<>> /\ Len(<<s>>) = 1 /\ <<s>>[1] = s
  OBVIOUS
<1>2. PICK f : Beginnings(f, <<s>>, 1, S) /\ FlattenSeq(<<s>>) = f[1]
  BY <1>1, FlattenIsTheLast
<1>3. f[1] = <<s>>[1]
  BY <1>2 DEF Beginnings
<1> QED
  BY <1>1, <1>2, <1>3

LEMMA FlattenLonger ==
  ASSUME NEW S, NEW ss, NEW tt
  PROVE  /\ ss \in Seq(Seq(S)) /\ tt \in Seq(Seq(S)) /\ Len(ss) \in Nat \ {0}
         /\ Len(tt) = Len(ss) + 1 /\ \A i \in 1 .. Len(ss) : ss[i] = tt[i]
         => FlattenSeq(tt) = FlattenSeq(ss) \o tt[Len(tt)]
<1>1. SUFFICES ASSUME NEW n, /\ ss \in Seq(Seq(S)) /\ tt \in Seq(Seq(S)) /\ n \in Nat \ {0}
                             /\ Len(ss) = n /\ Len(tt) = n + 1 /\ \A i \in 1 .. n : ss[i] = tt[i]
               PROVE  FlattenSeq(tt) = FlattenSeq(ss) \o tt[n + 1]
  OBVIOUS
<1>2. ss # <<>> /\ tt # <<>>
  BY <1>1, EmptySeq
<1>3. PICK f : Beginnings(f, ss, n, S) /\ FlattenSeq(ss) = f[n]
  BY <1>1, <1>2, FlattenIsTheLast
<1>4. PICK g : Beginnings(g, tt, n + 1, S) /\ FlattenSeq(tt) = g[n + 1]
  BY <1>1, <1>2, FlattenIsTheLast
<1>5. Beginnings(f, ss, n, S) /\ Beginnings(g, tt, n + 1, S) /\ \A i \in 1 .. n : ss[i] = tt[i]
  BY <1>1, <1>3, <1>4
<1>6. \A i \in 1 .. n : f[i] = g[i]
  <2>1. n \in Nat
    BY <1>1
  <2> QED
    BY <1>5, <2>1, BeginningsAgree
<1>7. \A i \in 1 .. n + 1 : g[i] = IF i = 1 THEN tt[i] ELSE g[i - 1] \o tt[i]
  BY <1>4 DEF Beginnings
<1>8. g[n + 1] = g[n] \o tt[n + 1]
  <2>1. n \in Nat \ {0}
    BY <1>1
  <2> DEFINE j == n + 1
  <2>2. j \in 1 .. n + 1 /\ j # 1 /\ j - 1 = n
    BY <2>1
  <2> HIDE DEF j
  <2>3. g[j] = g[j - 1] \o tt[j]
    BY <1>7, <2>2
  <2>4. g[j] = g[n] \o tt[j]
    BY <2>2, <2>3
  <2> QED
    BY <2>4, Zenon DEF j
<1>9. g[n] = f[n]
  <2>1. n \in 1 .. n
    BY <1>1
  <2> QED
    BY <1>6, <2>1
<1> QED
  BY <1>3, <1>4, <1>8, <1>9

LEMMA FlattenAppend ==
  ASSUME NEW S, NEW ss \in Seq(Seq(S)), NEW s \in Seq(S)
  PROVE  FlattenSeq(Append(ss, s)) = FlattenSeq(ss) \o s
<1>1. CASE ss = <<>>
  <2>1. Append(ss, s) = <<s>>
    BY <1>1
  <2> QED
    BY <1>1, <2>1, FlattenSingle, FlattenEmpty, ConcatEmptySeq
<1>2. CASE ss # <<>>
  <2> DEFINE tt == Append(ss, s)
  <2>1. /\ tt \in Seq(Seq(S)) /\ Len(ss) \in Nat \ {0} /\ Len(tt) = Len(ss) + 1
        /\ \A i \in 1 .. Len(ss) : ss[i] = tt[i]
        /\ tt[Len(ss) + 1] = s
    BY <1>2, EmptySeq, AppendProperties
  <2> HIDE DEF tt
  <2>2. FlattenSeq(tt) = FlattenSeq(ss) \o tt[Len(tt)]
    BY <2>1, FlattenLonger
  <2> QED
    BY <2>1, <2>2 DEF tt
<1> QED
  BY <1>1, <1>2

\* What holds of the empty sequence and stays true when one is extended holds of all of them.
LEMMA SeqInduction ==
  ASSUME NEW S, NEW T \in SUBSET Seq(S), <<>> \in T, \A s \in T : \A x \in S : Append(s, x) \in T
  PROVE  T = Seq(S)
<1> DEFINE N == {n \in Nat : \A s \in Seq(S) : Len(s) = n => s \in T}
<1>1. 0 \in N
  <2>1. \A s \in Seq(S) : Len(s) = 0 => s = <<>>
    BY EmptySeq
  <2> QED
    BY <2>1
<1>2. ASSUME NEW n \in N PROVE n + 1 \in N
  <2>1. n \in Nat /\ \A s \in Seq(S) : Len(s) = n => s \in T
    BY <1>2
  <2>2. ASSUME NEW s \in Seq(S), Len(s) = n + 1 PROVE s \in T
    <3>1. s # <<>>
      BY <2>1, <2>2, EmptySeq
    <3>2. PICK r \in Seq(S), x \in S : s = Append(r, x)
      BY <3>1, SequenceEmptyOrAppend
    <3>3. Len(s) = Len(r) + 1 /\ Len(r) \in Nat
      BY <3>2, AppendProperties, LenProperties
    <3>4. Len(r) = n
      BY <2>1, <2>2, <3>3
    <3> QED
      BY <2>1, <3>2, <3>4
  <2> QED
    BY <2>1, <2>2
<1>3. N \in SUBSET Nat
  OBVIOUS
<1>4. N = Nat
  <2> HIDE DEF N
  <2> QED
    BY <1>1, <1>2, <1>3, Induction
<1>5. ASSUME NEW s \in Seq(S) PROVE s \in T
  <2>1. Len(s) \in Nat
    BY LenProperties
  <2>2. Len(s) \in N
    <3> HIDE DEF N
    <3> QED
      BY <1>4, <2>1
  <2> QED
    BY <2>2
<1> QED
  BY <1>5

\* Three sequences, one after the other.
SameEitherWay(x, y, z) == (x \o y) \o z = x \o (y \o z)
AtTheEndOf(x, y, e) == x \o Append(y, e) = Append(x \o y, e)

LEMMA ThreeInARow ==
  ASSUME NEW S
  PROVE  \A s, t, u \in Seq(S) : SameEitherWay(s, t, u)
<1>1. \A s, t, u \in Seq(S) : (s \o t) \o u = s \o (t \o u)
  BY ConcatAssociative
<1> QED
  BY <1>1 DEF SameEitherWay

LEMMA ConcatAppend ==
  ASSUME NEW S, NEW a \in Seq(S), NEW b \in Seq(S), NEW x \in S
  PROVE  AtTheEndOf(a, b, x)
<1> DEFINE one == <<x>>
<1>1. Append(b, x) = b \o one /\ one \in Seq(S)
  BY AppendIsConcat
<1>2. a \o b \in Seq(S)
  BY ConcatProperties
<1>3. Append(a \o b, x) = (a \o b) \o one
  <2>1. ASSUME NEW s \in Seq(S) PROVE Append(s, x) = s \o <<x>>
    BY AppendIsConcat
  <2> QED
    BY <1>2, <2>1
<1> HIDE DEF one
<1>5. SameEitherWay(a, b, one)
  BY <1>1, ThreeInARow, Zenon
<1> QED
  BY <1>1, <1>3, <1>5 DEF SameEitherWay, AtTheEndOf

LEMMA FlattenConcat ==
  ASSUME NEW S
  PROVE  \A aa, bb \in Seq(Seq(S)) : FlattenSeq(aa \o bb) = FlattenSeq(aa) \o FlattenSeq(bb)
<1>0. \A x, y, z \in Seq(S) : (x \o y) \o z = x \o (y \o z)
  BY ConcatAssociative
<1> TAKE aa, bb \in Seq(Seq(S))
<1> DEFINE T == {cc \in Seq(Seq(S)) : FlattenSeq(aa \o cc) = FlattenSeq(aa) \o FlattenSeq(cc)}
<1>1. <<>> \in T
  <2>1. <<>> \in Seq(Seq(S)) /\ aa \o <<>> = aa
    BY EmptySeq, ConcatEmptySeq
  <2>2. FlattenSeq(aa) \o <<>> = FlattenSeq(aa)
    BY FlattenTyped, ConcatEmptySeq
  <2> QED
    BY <2>1, <2>2, FlattenEmpty
<1>2. ASSUME NEW cc \in T, NEW s \in Seq(S) PROVE Append(cc, s) \in T
  <2>1. cc \in Seq(Seq(S)) /\ FlattenSeq(aa \o cc) = FlattenSeq(aa) \o FlattenSeq(cc)
    BY <1>2
  <2> HIDE DEF T
  <2>2. aa \o Append(cc, s) = Append(aa \o cc, s)
    <3>1. AtTheEndOf(aa, cc, s)
      BY <2>1, ConcatAppend, Zenon
    <3> QED
      BY <3>1 DEF AtTheEndOf
  <2>3. FlattenSeq(aa \o Append(cc, s)) = FlattenSeq(aa \o cc) \o s
    <3>1. aa \o cc \in Seq(Seq(S))
      BY <2>1, ConcatProperties
    <3> QED
      BY <2>2, <3>1, FlattenAppend
  <2>4. FlattenSeq(Append(cc, s)) = FlattenSeq(cc) \o s
    BY <2>1, FlattenAppend
  <2>5. (FlattenSeq(aa) \o FlattenSeq(cc)) \o s = FlattenSeq(aa) \o (FlattenSeq(cc) \o s)
    <3>1. FlattenSeq(aa) \in Seq(S) /\ FlattenSeq(cc) \in Seq(S)
      BY <2>1, FlattenTyped
    <3> QED
      BY <1>0, <3>1
  <2>6. Append(cc, s) \in Seq(Seq(S))
    BY <2>1, AppendProperties
  <2> QED
    BY <2>1, <2>3, <2>4, <2>5, <2>6 DEF T
<1>3. T \in SUBSET Seq(Seq(S))
  OBVIOUS
<1>4. T = Seq(Seq(S))
  <2> HIDE DEF T
  <2> QED
    BY <1>1, <1>2, <1>3, SeqInduction
<1> QED
  BY <1>4

\* The elements of the whole are those of the parts.
LEMMA FlattenElements ==
  ASSUME NEW S, NEW ss \in Seq(Seq(S)), NEW x
  PROVE  x \in ToSet(FlattenSeq(ss)) <=> \E i \in 1 .. Len(ss) : x \in ToSet(ss[i])
<1> DEFINE T == {tt \in Seq(Seq(S)) :
                   x \in ToSet(FlattenSeq(tt)) <=> \E i \in 1 .. Len(tt) : x \in ToSet(tt[i])}
<1>1. <<>> \in T
  <2>1. <<>> \in Seq(Seq(S)) /\ Len(<<>>) = 0 /\ ToSet(<<>>) = {}
    BY EmptySeq DEF ToSet
  <2> QED
    BY <2>1, FlattenEmpty
<1>2. ASSUME NEW tt \in T, NEW s \in Seq(S) PROVE Append(tt, s) \in T
  <2> DEFINE f == FlattenSeq(tt)
             n == Len(tt)
  <2>1. /\ tt \in Seq(Seq(S))
        /\ x \in ToSet(f) <=> \E i \in 1 .. n : x \in ToSet(tt[i])
    BY <1>2
  <2>2. f \in Seq(S) /\ FlattenSeq(Append(tt, s)) = f \o s
    BY <2>1, FlattenTyped, FlattenAppend
  <2> HIDE DEF T, f
  <2>3. x \in ToSet(f \o s) <=> x \in ToSet(f) \/ x \in ToSet(s)
    <3>1. /\ Len(f) \in Nat /\ Len(s) \in Nat /\ Len(f \o s) = Len(f) + Len(s)
          /\ DOMAIN f = 1 .. Len(f) /\ DOMAIN s = 1 .. Len(s) /\ DOMAIN (f \o s) = 1 .. Len(f) + Len(s)
          /\ \A i \in 1 .. Len(f) + Len(s) :
                (f \o s)[i] = IF i <= Len(f) THEN f[i] ELSE s[i - Len(f)]
      BY <2>2, LenProperties, ConcatProperties
    <3>2. ASSUME x \in ToSet(f \o s) PROVE x \in ToSet(f) \/ x \in ToSet(s)
      <4>1. PICK i \in 1 .. Len(f) + Len(s) : (f \o s)[i] = x
        BY <3>1, <3>2 DEF ToSet
      <4>2. CASE i <= Len(f)
        <5>1. i \in 1 .. Len(f) /\ f[i] = x
          BY <3>1, <4>1, <4>2
        <5> QED
          BY <3>1, <5>1 DEF ToSet
      <4>3. CASE ~(i <= Len(f))
        <5>1. i - Len(f) \in 1 .. Len(s) /\ s[i - Len(f)] = x
          BY <3>1, <4>1, <4>3
        <5> QED
          BY <3>1, <5>1 DEF ToSet
      <4> QED
        BY <3>1, <4>1, <4>2, <4>3
    <3>3. ASSUME x \in ToSet(f) PROVE x \in ToSet(f \o s)
      <4>1. PICK i \in 1 .. Len(f) : f[i] = x
        BY <3>1, <3>3 DEF ToSet
      <4>2. i \in 1 .. Len(f) + Len(s) /\ i <= Len(f)
        BY <3>1
      <4>3. (f \o s)[i] = x
        BY <3>1, <4>1, <4>2
      <4> QED
        BY <3>1, <4>2, <4>3 DEF ToSet
    <3>4. ASSUME x \in ToSet(s) PROVE x \in ToSet(f \o s)
      <4>1. PICK i \in 1 .. Len(s) : s[i] = x
        BY <3>1, <3>4 DEF ToSet
      <4> DEFINE k == Len(f) + i
      <4>2. k \in 1 .. Len(f) + Len(s) /\ ~(k <= Len(f)) /\ k - Len(f) = i
        BY <3>1
      <4> HIDE DEF k
      <4>3. (f \o s)[k] = x
        BY <3>1, <4>1, <4>2
      <4> QED
        BY <3>1, <4>2, <4>3 DEF ToSet
    <3> QED
      BY <3>2, <3>3, <3>4
  <2>4. /\ n \in Nat /\ Append(tt, s) \in Seq(Seq(S)) /\ Len(Append(tt, s)) = n + 1
        /\ \A i \in 1 .. n : Append(tt, s)[i] = tt[i]
        /\ Append(tt, s)[n + 1] = s
    BY <2>1, AppendProperties, LenProperties
  <2> HIDE DEF n
  <2>5. (\E i \in 1 .. n + 1 : x \in ToSet(Append(tt, s)[i]))
          <=> (\E i \in 1 .. n : x \in ToSet(tt[i])) \/ x \in ToSet(s)
    <3>1. \A i \in 1 .. n + 1 : i \in 1 .. n \/ i = n + 1
      BY <2>4
    <3>2. \A i \in 1 .. n : i \in 1 .. n + 1
      BY <2>4
    <3>3. n + 1 \in 1 .. n + 1
      BY <2>4
    <3> QED
      BY <2>4, <3>1, <3>2, <3>3
  <2> QED
    BY <2>1, <2>2, <2>3, <2>4, <2>5 DEF T
<1>3. T \in SUBSET Seq(Seq(S))
  OBVIOUS
<1>4. T = Seq(Seq(S))
  <2> HIDE DEF T
  <2> QED
    BY <1>1, <1>2, <1>3, SeqInduction
<1> QED
  BY <1>4

-----------------------------------------------------------------------------
\* What a function to sequences makes of the elements of a sequence, one after another.

IsMap(R, D, S) == R \in [D -> Seq(S)]
Parts(R, s) == [n \in DOMAIN s |-> R[s[n]]]
Mapped(R, s) == FlattenSeq(Parts(R, s))

LEMMA FunctionIsSeq ==
  ASSUME NEW S, NEW n \in Nat, NEW f \in [1 .. n -> S]
  PROVE  f \in Seq(S) /\ Len(f) = n
<1>1. f \in Seq(S)
  BY SeqDef
<1>2. DOMAIN f = 1 .. n
  OBVIOUS
<1>3. Len(f) \in Nat /\ DOMAIN f = 1 .. Len(f)
  BY <1>1, LenProperties
<1>4. \A m, k \in Nat : 1 .. m = 1 .. k => m = k
  <2> SUFFICES ASSUME NEW m \in Nat, NEW k \in Nat, 1 .. m = 1 .. k PROVE m = k
    OBVIOUS
  <2>1. m \in 1 .. m \/ m = 0
    OBVIOUS
  <2>2. k \in 1 .. k \/ k = 0
    OBVIOUS
  <2> QED
    BY <2>1, <2>2
<1> QED
  BY <1>1, <1>2, <1>3, <1>4

LEMMA PartsTyped ==
  ASSUME NEW D, NEW S, NEW R, IsMap(R, D, S), NEW s \in Seq(D)
  PROVE  Parts(R, s) \in Seq(Seq(S)) /\ Len(Parts(R, s)) = Len(s)
<1>1. Len(s) \in Nat /\ DOMAIN s = 1 .. Len(s) /\ \A n \in 1 .. Len(s) : s[n] \in D
  BY LenProperties, ElementOfSeq
<1>2. Parts(R, s) \in [1 .. Len(s) -> Seq(S)]
  BY <1>1 DEF Parts, IsMap
<1> QED
  BY <1>1, <1>2, FunctionIsSeq

LEMMA PartAt ==
  ASSUME NEW D, NEW R, NEW s \in Seq(D), NEW n \in 1 .. Len(s)
  PROVE  Parts(R, s)[n] = R[s[n]]
BY LenProperties DEF Parts

LEMMA MappedTyped ==
  ASSUME NEW D, NEW S, NEW R, IsMap(R, D, S), NEW s \in Seq(D)
  PROVE  Mapped(R, s) \in Seq(S)
BY PartsTyped, FlattenTyped DEF Mapped

LEMMA MappedEmpty ==
  ASSUME NEW R
  PROVE  Mapped(R, <<>>) = <<>>
<1>1. Parts(R, <<>>) = <<>>
  BY DEF Parts
<1> QED
  BY <1>1, FlattenEmpty DEF Mapped

LEMMA MappedSingle ==
  ASSUME NEW D, NEW S, NEW R, IsMap(R, D, S), NEW x \in D
  PROVE  Mapped(R, <<x>>) = R[x]
<1>1. Parts(R, <<x>>) = <<R[x]>>
  BY DEF Parts
<1>2. R[x] \in Seq(S)
  BY DEF IsMap
<1> QED
  BY <1>1, <1>2, FlattenSingle DEF Mapped

LEMMA MappedConcat ==
  ASSUME NEW D, NEW S, NEW R, IsMap(R, D, S), NEW s \in Seq(D), NEW t \in Seq(D)
  PROVE  Mapped(R, s \o t) = Mapped(R, s) \o Mapped(R, t)
<1> DEFINE ps == Parts(R, s)
           pt == Parts(R, t)
           all == Parts(R, s \o t)
<1>1. /\ Len(s) \in Nat /\ Len(t) \in Nat /\ s \o t \in Seq(D) /\ Len(s \o t) = Len(s) + Len(t)
      /\ \A i \in 1 .. Len(s) + Len(t) : (s \o t)[i] = IF i <= Len(s) THEN s[i] ELSE t[i - Len(s)]
  BY LenProperties, ConcatProperties
<1>0. ASSUME NEW u \in Seq(D)
      PROVE  /\ Parts(R, u) \in Seq(Seq(S)) /\ Len(Parts(R, u)) = Len(u)
             /\ \A n \in 1 .. Len(u) : Parts(R, u)[n] = R[u[n]]
  <2>1. Parts(R, u) \in Seq(Seq(S)) /\ Len(Parts(R, u)) = Len(u)
    BY PartsTyped
  <2>2. \A n \in 1 .. Len(u) : Parts(R, u)[n] = R[u[n]]
    BY PartAt
  <2> QED
    BY <2>1, <2>2
<1>2. /\ ps \in Seq(Seq(S)) /\ Len(ps) = Len(s) /\ \A n \in 1 .. Len(s) : ps[n] = R[s[n]]
      /\ pt \in Seq(Seq(S)) /\ Len(pt) = Len(t) /\ \A n \in 1 .. Len(t) : pt[n] = R[t[n]]
  BY <1>0
<1>3. /\ all \in Seq(Seq(S)) /\ Len(all) = Len(s) + Len(t)
      /\ \A n \in 1 .. Len(s) + Len(t) : all[n] = R[(s \o t)[n]]
  BY <1>0, <1>1
<1>8. ASSUME NEW u \in Seq(Seq(S)), NEW v \in Seq(Seq(S))
      PROVE  /\ u \o v \in Seq(Seq(S)) /\ Len(u \o v) = Len(u) + Len(v)
             /\ \A i \in 1 .. Len(u) + Len(v) :
                   (u \o v)[i] = IF i <= Len(u) THEN u[i] ELSE v[i - Len(u)]
  BY ConcatProperties
<1> HIDE DEF ps, pt, all
<1>4. /\ ps \o pt \in Seq(Seq(S)) /\ Len(ps \o pt) = Len(s) + Len(t)
      /\ \A i \in 1 .. Len(s) + Len(t) : (ps \o pt)[i] = IF i <= Len(s) THEN ps[i] ELSE pt[i - Len(s)]
  <2>1. /\ ps \o pt \in Seq(Seq(S)) /\ Len(ps \o pt) = Len(ps) + Len(pt)
        /\ \A i \in 1 .. Len(ps) + Len(pt) :
              (ps \o pt)[i] = IF i <= Len(ps) THEN ps[i] ELSE pt[i - Len(ps)]
    BY <1>2, <1>8
  <2> QED
    BY <1>2, <2>1
<1>5. \A n \in 1 .. Len(s) + Len(t) : all[n] = (ps \o pt)[n]
  <2> SUFFICES ASSUME NEW n \in 1 .. Len(s) + Len(t) PROVE all[n] = (ps \o pt)[n]
    OBVIOUS
  <2>1. CASE n <= Len(s)
    <3>1. n \in 1 .. Len(s)
      BY <1>1, <2>1
    <3>2. all[n] = R[s[n]]
      BY <1>1, <1>3, <2>1
    <3>3. (ps \o pt)[n] = ps[n]
      BY <1>4, <2>1
    <3> QED
      BY <1>2, <3>1, <3>2, <3>3
  <2>2. CASE ~(n <= Len(s))
    <3> DEFINE k == n - Len(s)
    <3>1. k \in 1 .. Len(t)
      BY <1>1, <2>2
    <3>2. all[n] = R[t[k]]
      BY <1>1, <1>3, <2>2
    <3>3. (ps \o pt)[n] = pt[k]
      BY <1>4, <2>2
    <3> HIDE DEF k
    <3> QED
      BY <1>2, <3>1, <3>2, <3>3
  <2> QED
    BY <2>1, <2>2
<1>6. all = ps \o pt
  <2>1. \A u, v \in Seq(Seq(S)) : Len(u) = Len(v) /\ (\A i \in 1 .. Len(u) : u[i] = v[i]) => u = v
    BY SeqEqual
  <2> QED
    BY <1>3, <1>4, <1>5, <2>1
<1>7. FlattenSeq(ps \o pt) = FlattenSeq(ps) \o FlattenSeq(pt)
  BY <1>2, FlattenConcat
<1> QED
  BY <1>6, <1>7 DEF Mapped, ps, pt, all

LEMMA MappedAppend ==
  ASSUME NEW D, NEW S, NEW R, IsMap(R, D, S), NEW s \in Seq(D), NEW x \in D
  PROVE  Mapped(R, Append(s, x)) = Mapped(R, s) \o R[x]
<1>1. Append(s, x) = s \o <<x>> /\ <<x>> \in Seq(D)
  BY AppendIsConcat
<1>2. Mapped(R, <<x>>) = R[x]
  BY MappedSingle
<1>3. \A t \in Seq(D) : Mapped(R, s \o t) = Mapped(R, s) \o Mapped(R, t)
  BY MappedConcat
<1> QED
  BY <1>1, <1>2, <1>3

LEMMA MappedElements ==
  ASSUME NEW D, NEW S, NEW R, IsMap(R, D, S), NEW s \in Seq(D), NEW y
  PROVE  y \in ToSet(Mapped(R, s)) <=> \E x \in ToSet(s) : y \in ToSet(R[x])
<1> DEFINE ps == Parts(R, s)
<1>1. ps \in Seq(Seq(S)) /\ Len(ps) = Len(s) /\ \A n \in 1 .. Len(s) : ps[n] = R[s[n]]
  <2>1. ps \in Seq(Seq(S)) /\ Len(ps) = Len(s)
    BY PartsTyped
  <2>2. \A n \in 1 .. Len(s) : ps[n] = R[s[n]]
    BY PartAt
  <2> QED
    BY <2>1, <2>2
<1>2. y \in ToSet(FlattenSeq(ps)) <=> \E i \in 1 .. Len(ps) : y \in ToSet(ps[i])
  <2> HIDE DEF ps
  <2> QED
    BY <1>1, FlattenElements
<1> HIDE DEF ps
<1>3. (\E i \in 1 .. Len(ps) : y \in ToSet(ps[i])) <=> \E i \in 1 .. Len(s) : y \in ToSet(R[s[i]])
  BY <1>1
<1>4. (\E i \in 1 .. Len(s) : y \in ToSet(R[s[i]])) <=> \E x \in ToSet(s) : y \in ToSet(R[x])
  <2>1. DOMAIN s = 1 .. Len(s)
    BY LenProperties
  <2> QED
    BY <2>1, Zenon DEF ToSet
<1> QED
  BY <1>2, <1>3, <1>4 DEF Mapped, ps

\* The elements of a sequence, and of two one after the other.
LEMMA ConcatElements ==
  ASSUME NEW S, NEW s \in Seq(S), NEW t \in Seq(S)
  PROVE  ToSet(s \o t) = ToSet(s) \cup ToSet(t)
<1>1. /\ <<s, t>> \in Seq(Seq(S)) /\ Len(<<s, t>>) = 2 /\ <<s, t>>[1] = s /\ <<s, t>>[2] = t
      /\ <<s>> \in Seq(Seq(S)) /\ <<s, t>> = Append(<<s>>, t)
  OBVIOUS
<1>2. FlattenSeq(<<s, t>>) = s \o t
  <2>1. FlattenSeq(<<s>>) = s
    BY FlattenSingle
  <2>2. FlattenSeq(Append(<<s>>, t)) = FlattenSeq(<<s>>) \o t
    BY <1>1, FlattenAppend
  <2> QED
    BY <1>1, <2>1, <2>2
<1> DEFINE both == <<s, t>>
<1>3. both \in Seq(Seq(S)) /\ Len(both) = 2 /\ both[1] = s /\ both[2] = t
  BY <1>1
<1> HIDE DEF both
<1>4. ASSUME NEW x PROVE x \in ToSet(s \o t) <=> x \in ToSet(s) \/ x \in ToSet(t)
  <2>1. x \in ToSet(FlattenSeq(both)) <=> \E i \in 1 .. Len(both) : x \in ToSet(both[i])
    BY <1>3, FlattenElements
  <2>2. (\E i \in 1 .. Len(both) : x \in ToSet(both[i])) <=> x \in ToSet(s) \/ x \in ToSet(t)
    BY <1>3
  <2> QED
    BY <1>2, <2>1, <2>2 DEF both
<1> QED
  BY <1>4

LEMMA ElementsTyped ==
  ASSUME NEW S, NEW s \in Seq(S)
  PROVE  ToSet(s) \subseteq S /\ (s # <<>> => ToSet(s) # {})
<1>1. Len(s) \in Nat /\ DOMAIN s = 1 .. Len(s) /\ \A n \in 1 .. Len(s) : s[n] \in S
  BY LenProperties, ElementOfSeq
<1>2. s # <<>> => 1 \in 1 .. Len(s)
  BY EmptySeq
<1> QED
  BY <1>1, <1>2 DEF ToSet

\* Sequences with each two elements, the earlier first, in a relation.
Rising(s, Pairs) == \A m, n \in DOMAIN s : m < n => <<s[m], s[n]>> \in Pairs

LEMMA RisingConcat ==
  ASSUME NEW S, NEW s \in Seq(S), NEW t \in Seq(S), NEW Pairs
  PROVE  Rising(s \o t, Pairs) <=> /\ Rising(s, Pairs) /\ Rising(t, Pairs)
                                   /\ \A x \in ToSet(s), y \in ToSet(t) : <<x, y>> \in Pairs
<1> DEFINE st == s \o t
           a == Len(s)
           b == Len(t)
<1>1. /\ a \in Nat /\ b \in Nat /\ DOMAIN s = 1 .. a /\ DOMAIN t = 1 .. b
      /\ DOMAIN st = 1 .. a + b
      /\ \A i \in 1 .. a + b : st[i] = IF i <= a THEN s[i] ELSE t[i - a]
  BY LenProperties, ConcatProperties
<1> HIDE DEF a, b, st
<1>2. \A i \in 1 .. a : i \in 1 .. a + b /\ st[i] = s[i]
  BY <1>1
<1>3. \A i \in 1 .. b : i + a \in 1 .. a + b /\ st[i + a] = t[i]
  <2> SUFFICES ASSUME NEW i \in 1 .. b PROVE i + a \in 1 .. a + b /\ st[i + a] = t[i]
    OBVIOUS
  <2> DEFINE k == i + a
  <2>1. k \in 1 .. a + b /\ ~(k <= a) /\ k - a = i
    BY <1>1
  <2> HIDE DEF k
  <2>2. st[k] = t[i]
    BY <1>1, <2>1
  <2> QED
    BY <2>1, <2>2 DEF k
<1>4. ASSUME Rising(st, Pairs) PROVE Rising(s, Pairs)
  <2> SUFFICES ASSUME NEW m \in 1 .. a, NEW n \in 1 .. a, m < n PROVE <<s[m], s[n]>> \in Pairs
    BY <1>1 DEF Rising
  <2>1. <<st[m], st[n]>> \in Pairs
    BY <1>1, <1>2, <1>4 DEF Rising
  <2> QED
    BY <1>2, <2>1
<1>5. ASSUME Rising(st, Pairs) PROVE Rising(t, Pairs)
  <2> SUFFICES ASSUME NEW m \in 1 .. b, NEW n \in 1 .. b, m < n PROVE <<t[m], t[n]>> \in Pairs
    BY <1>1 DEF Rising
  <2> DEFINE i == m + a
             j == n + a
  <2>1. i \in 1 .. a + b /\ j \in 1 .. a + b /\ i < j
    BY <1>1, <1>3
  <2>2. st[i] = t[m] /\ st[j] = t[n]
    BY <1>3
  <2> HIDE DEF i, j
  <2>3. <<st[i], st[j]>> \in Pairs
    BY <1>1, <1>5, <2>1 DEF Rising
  <2> QED
    BY <2>2, <2>3
<1>6. ASSUME Rising(st, Pairs), NEW x \in ToSet(s), NEW y \in ToSet(t) PROVE <<x, y>> \in Pairs
  <2>1. PICK m \in 1 .. a : s[m] = x
    BY <1>1 DEF ToSet
  <2>2. PICK n \in 1 .. b : t[n] = y
    BY <1>1 DEF ToSet
  <2> DEFINE j == n + a
  <2>3. m \in 1 .. a + b /\ j \in 1 .. a + b /\ m < j
    BY <1>1, <1>2, <1>3
  <2>4. st[m] = x /\ st[j] = y
    BY <1>2, <1>3, <2>1, <2>2
  <2> HIDE DEF j
  <2>5. <<st[m], st[j]>> \in Pairs
    BY <1>1, <1>6, <2>3 DEF Rising
  <2> QED
    BY <2>4, <2>5
<1>7. ASSUME Rising(s, Pairs), Rising(t, Pairs),
             \A x \in ToSet(s), y \in ToSet(t) : <<x, y>> \in Pairs
      PROVE  Rising(st, Pairs)
  <2> SUFFICES ASSUME NEW m \in 1 .. a + b, NEW n \in 1 .. a + b, m < n
               PROVE  <<st[m], st[n]>> \in Pairs
    BY <1>1 DEF Rising
  <2>1. CASE n <= a
    <3>1. m \in 1 .. a /\ n \in 1 .. a
      BY <1>1, <2>1
    <3>2. <<s[m], s[n]>> \in Pairs
      BY <1>1, <1>7, <3>1 DEF Rising
    <3> QED
      BY <1>2, <3>1, <3>2
  <2>2. CASE ~(n <= a) /\ m <= a
    <3>1. m \in 1 .. a /\ n - a \in 1 .. b
      BY <1>1, <2>2
    <3>2. st[m] = s[m] /\ st[n] = t[n - a]
      BY <1>1, <2>2
    <3>3. s[m] \in ToSet(s) /\ t[n - a] \in ToSet(t)
      BY <1>1, <3>1 DEF ToSet
    <3> QED
      BY <1>7, <3>2, <3>3
  <2>3. CASE ~(n <= a) /\ ~(m <= a)
    <3> DEFINE i == m - a
               j == n - a
    <3>1. i \in 1 .. b /\ j \in 1 .. b /\ i < j
      BY <1>1, <2>3
    <3>2. st[m] = t[i] /\ st[n] = t[j]
      BY <1>1, <2>3
    <3> HIDE DEF i, j
    <3>3. <<t[i], t[j]>> \in Pairs
      BY <1>1, <1>7, <3>1 DEF Rising
    <3> QED
      BY <3>2, <3>3
  <2> QED
    BY <1>1, <2>1, <2>2, <2>3
<1> QED
  BY <1>4, <1>5, <1>6, <1>7 DEF st

LEMMA RisingEmpty == \A Pairs : Rising(<<>>, Pairs)
BY DEF Rising

LEMMA RisingSingle == \A x, Pairs : Rising(<<x>>, Pairs)
BY DEF Rising

\* What is made of a rising sequence rises if its parts do, one below the other.
LEMMA RisingMapped ==
  ASSUME NEW D, NEW S, NEW R, IsMap(R, D, S), NEW Below, NEW Pairs,
         \A c \in D : Rising(R[c], Pairs),
         \A c, d \in D : <<c, d>> \in Below =>
            \A x \in ToSet(R[c]), y \in ToSet(R[d]) : <<x, y>> \in Pairs,
         NEW s \in Seq(D), Rising(s, Below)
  PROVE  Rising(Mapped(R, s), Pairs)
<1> DEFINE T == {t \in Seq(D) : Rising(t, Below) => Rising(Mapped(R, t), Pairs)}
<1>1. <<>> \in T
  <2>1. <<>> \in Seq(D)
    BY EmptySeq
  <2> QED
    BY <2>1, MappedEmpty, RisingEmpty
<1>2. ASSUME NEW t \in T, NEW c \in D PROVE Append(t, c) \in T
  <2>1. t \in Seq(D) /\ (Rising(t, Below) => Rising(Mapped(R, t), Pairs))
    BY <1>2
  <2> HIDE DEF T
  <2>2. Append(t, c) = t \o <<c>> /\ Append(t, c) \in Seq(D) /\ <<c>> \in Seq(D)
    BY <2>1, AppendIsConcat, AppendProperties
  <2>3. SUFFICES ASSUME Rising(Append(t, c), Below) PROVE Rising(Mapped(R, Append(t, c)), Pairs)
    BY <2>2 DEF T
  <2>4. Rising(t, Below) /\ \A x \in ToSet(t) : <<x, c>> \in Below
    <3>1. ASSUME NEW u \in Seq(D), Rising(t \o u, Below)
          PROVE  Rising(t, Below) /\ \A x \in ToSet(t), y \in ToSet(u) : <<x, y>> \in Below
      BY <2>1, <3>1, RisingConcat
    <3>2. c \in ToSet(<<c>>)
      BY DEF ToSet
    <3> QED
      BY <2>2, <2>3, <3>1, <3>2
  <2>5. Mapped(R, Append(t, c)) = Mapped(R, t) \o R[c]
    BY <2>1, MappedAppend
  <2>6. Mapped(R, t) \in Seq(S) /\ R[c] \in Seq(S)
    <3>1. Mapped(R, t) \in Seq(S)
      BY <2>1, MappedTyped
    <3>2. R[c] \in Seq(S)
      BY DEF IsMap
    <3> QED
      BY <3>1, <3>2
  <2>7. Rising(Mapped(R, t), Pairs) /\ Rising(R[c], Pairs)
    BY <2>1, <2>4
  <2>8. ASSUME NEW x \in ToSet(Mapped(R, t)), NEW y \in ToSet(R[c]) PROVE <<x, y>> \in Pairs
    <3>1. PICK d \in ToSet(t) : x \in ToSet(R[d])
      BY <2>1, MappedElements
    <3>2. d \in D
      BY <2>1, ElementsTyped
    <3> QED
      BY <2>4, <3>1, <3>2
  <2>9. ASSUME NEW u \in Seq(S), NEW v \in Seq(S), Rising(u, Pairs), Rising(v, Pairs),
               \A x \in ToSet(u), y \in ToSet(v) : <<x, y>> \in Pairs
        PROVE  Rising(u \o v, Pairs)
    BY <2>9, RisingConcat
  <2> QED
    BY <2>5, <2>6, <2>7, <2>8, <2>9
<1>3. T \in SUBSET Seq(D)
  OBVIOUS
<1>4. T = Seq(D)
  <2> HIDE DEF T
  <2> QED
    BY <1>1, <1>2, <1>3, SeqInduction
<1> QED
  BY <1>4

\* No element twice.
LEMMA RisingIsInjective ==
  ASSUME NEW S, NEW s \in Seq(S), NEW Pairs, Rising(s, Pairs), \A x \in S : <<x, x>> \notin Pairs
  PROVE  IsInjective(s)
<1>1. Len(s) \in Nat /\ DOMAIN s = 1 .. Len(s) /\ \A n \in 1 .. Len(s) : s[n] \in S
  BY LenProperties, ElementOfSeq
<1> DEFINE n == Len(s)
<1> HIDE DEF n
<1>2. ASSUME NEW a \in 1 .. n, NEW b \in 1 .. n, s[a] = s[b] PROVE a = b
  <2>1. a < b => <<s[a], s[b]>> \in Pairs
    BY <1>1 DEF Rising, n
  <2>2. b < a => <<s[b], s[a]>> \in Pairs
    BY <1>1 DEF Rising, n
  <2>3. <<s[a], s[a]>> \notin Pairs
    BY <1>1 DEF n
  <2>4. ~(a < b) /\ ~(b < a)
    BY <1>2, <2>1, <2>2, <2>3
  <2> QED
    BY <1>1, <2>4 DEF n
<1> QED
  BY <1>1, <1>2 DEF IsInjective, n

\* The elements of a sequence without repetition are as many as it is long.
LEMMA InjectiveSize ==
  ASSUME NEW S, NEW s \in Seq(S), IsInjective(s)
  PROVE  IsFiniteSet(ToSet(s)) /\ Cardinality(ToSet(s)) = Len(s)
<1>1. Len(s) \in Nat /\ DOMAIN s = 1 .. Len(s) /\ s \in [1 .. Len(s) -> S]
  BY LenProperties
<1> DEFINE n == Len(s)
<1>2. IsFiniteSet(1 .. n) /\ Cardinality(1 .. n) = n
  <2>1. 1 \in Int /\ n \in Int
    BY <1>1
  <2>2. IsFiniteSet(1 .. n) /\ Cardinality(1 .. n) = IF 1 > n THEN 0 ELSE n - 1 + 1
    BY <2>1, FS_Interval, Zenon
  <2> QED
    BY <1>1, <2>2
<1>3. s \in Bijection(1 .. n, ToSet(s))
  <2>1. s \in [1 .. n -> ToSet(s)]
    BY <1>1 DEF ToSet
  <2>2. \A x \in ToSet(s) : \E i \in 1 .. n : s[i] = x
    BY <1>1 DEF ToSet
  <2>3. \A i, j \in 1 .. n : s[i] = s[j] => i = j
    BY <1>1 DEF IsInjective
  <2> HIDE DEF n
  <2> QED
    BY <2>1, <2>2, <2>3 DEF Bijection, Injection, Surjection, IsInjective
<1>4. ExistsBijection(1 .. n, ToSet(s))
  BY <1>3 DEF ExistsBijection
<1> QED
  <2> HIDE DEF n
  <2>1. IsFiniteSet(ToSet(s)) /\ Cardinality(ToSet(s)) = n
    BY <1>2, <1>4, FS_Bijection
  <2> QED
    BY <2>1 DEF n

\* A sequence around one of its elements.
LEMMA Around ==
  ASSUME NEW S, NEW s \in Seq(S), NEW i \in 1 .. Len(s)
  PROVE  /\ SubSeq(s, 1, i - 1) \in Seq(S) /\ SubSeq(s, i + 1, Len(s)) \in Seq(S)
         /\ Len(SubSeq(s, 1, i - 1)) = i - 1 /\ Len(SubSeq(s, i + 1, Len(s))) = Len(s) - i
         /\ s[i] \in S
         /\ \A n \in 1 .. i - 1 : SubSeq(s, 1, i - 1)[n] = s[n]
         /\ \A n \in 1 .. Len(s) - i : SubSeq(s, i + 1, Len(s))[n] = s[i + n]
<1> DEFINE k == Len(s)
<1>1. k \in Nat /\ i \in 1 .. k /\ \A n \in 1 .. k : s[n] \in S
  BY LenProperties, ElementOfSeq
<1> HIDE DEF k
<1>2. /\ 1 \in Int /\ i - 1 \in Int /\ i + 1 \in Int /\ k \in Int
      /\ \A n \in 1 .. i - 1 : s[n] \in S
      /\ \A n \in i + 1 .. k : s[n] \in S
  BY <1>1
<1>3. /\ SubSeq(s, 1, i - 1) \in Seq(S)
      /\ Len(SubSeq(s, 1, i - 1)) = IF 1 <= i - 1 THEN (i - 1) - 1 + 1 ELSE 0
      /\ \A n \in 1 .. (i - 1) - 1 + 1 : SubSeq(s, 1, i - 1)[n] = s[1 + n - 1]
  BY <1>2, SubSeqProperties
<1>4. /\ SubSeq(s, i + 1, k) \in Seq(S)
      /\ Len(SubSeq(s, i + 1, k)) = IF i + 1 <= k THEN k - (i + 1) + 1 ELSE 0
      /\ \A n \in 1 .. k - (i + 1) + 1 : SubSeq(s, i + 1, k)[n] = s[i + 1 + n - 1]
  BY <1>2, SubSeqProperties
<1>5. Len(SubSeq(s, 1, i - 1)) = i - 1 /\ \A n \in 1 .. i - 1 : SubSeq(s, 1, i - 1)[n] = s[n]
  BY <1>1, <1>3
<1>6. Len(SubSeq(s, i + 1, k)) = k - i /\ \A n \in 1 .. k - i : SubSeq(s, i + 1, k)[n] = s[i + n]
  BY <1>1, <1>4
<1> QED
  BY <1>1, <1>3, <1>4, <1>5, <1>6 DEF k

LEMMA SplitAt ==
  ASSUME NEW S, NEW s \in Seq(S), NEW i \in 1 .. Len(s), NEW t \in Seq(S), Len(t) = Len(s),
         \A j \in 1 .. Len(s) : j # i => t[j] = s[j]
  PROVE  t = SubSeq(s, 1, i - 1) \o (<<t[i]>> \o SubSeq(s, i + 1, Len(s)))
<1> DEFINE k == Len(s)
           a == SubSeq(s, 1, i - 1)
           b == SubSeq(s, i + 1, k)
           c == <<t[i]>>
<1>1. k \in Nat /\ i \in 1 .. k /\ t[i] \in S
  BY LenProperties, ElementOfSeq
<1>2. /\ a \in Seq(S) /\ b \in Seq(S) /\ Len(a) = i - 1 /\ Len(b) = k - i
      /\ \A n \in 1 .. i - 1 : a[n] = s[n]
      /\ \A n \in 1 .. k - i : b[n] = s[i + n]
  BY Around
<1>3. c \in Seq(S) /\ Len(c) = 1 /\ c[1] = t[i]
  BY <1>1
<1> HIDE DEF k, a, b, c
<1>0. ASSUME NEW u \in Seq(S), NEW v \in Seq(S)
      PROVE  /\ u \o v \in Seq(S) /\ Len(u \o v) = Len(u) + Len(v)
             /\ \A n \in 1 .. Len(u) + Len(v) :
                   (u \o v)[n] = IF n <= Len(u) THEN u[n] ELSE v[n - Len(u)]
  BY ConcatProperties
<1>4. /\ c \o b \in Seq(S) /\ Len(c \o b) = 1 + k - i
      /\ \A n \in 1 .. 1 + k - i : (c \o b)[n] = IF n <= 1 THEN c[n] ELSE b[n - 1]
  <2>1. /\ c \o b \in Seq(S) /\ Len(c \o b) = Len(c) + Len(b)
        /\ \A n \in 1 .. Len(c) + Len(b) : (c \o b)[n] = IF n <= Len(c) THEN c[n] ELSE b[n - Len(c)]
    BY <1>0, <1>2, <1>3
  <2>2. Len(c) + Len(b) = 1 + k - i
    BY <1>1, <1>2, <1>3
  <2> QED
    BY <1>3, <2>1, <2>2
<1> DEFINE d == c \o b
<1>5. d \in Seq(S) /\ Len(d) = 1 + k - i /\ \A n \in 1 .. 1 + k - i : d[n] = IF n <= 1 THEN c[n] ELSE b[n - 1]
  BY <1>4
<1> HIDE DEF d
<1>6. /\ a \o d \in Seq(S) /\ Len(a \o d) = k
      /\ \A n \in 1 .. k : (a \o d)[n] = IF n <= i - 1 THEN a[n] ELSE d[n - (i - 1)]
  <2>1. /\ a \o d \in Seq(S) /\ Len(a \o d) = Len(a) + Len(d)
        /\ \A n \in 1 .. Len(a) + Len(d) : (a \o d)[n] = IF n <= Len(a) THEN a[n] ELSE d[n - Len(a)]
    BY <1>0, <1>2, <1>5
  <2>2. Len(a) + Len(d) = k
    BY <1>1, <1>2, <1>5
  <2> QED
    BY <1>2, <2>1, <2>2
<1>7. ASSUME NEW n \in 1 .. k PROVE t[n] = (a \o d)[n]
  <2>1. CASE n <= i - 1
    <3>1. n \in 1 .. i - 1 /\ n # i
      BY <1>1, <2>1
    <3>2. t[n] = s[n]
      BY <3>1 DEF k
    <3> QED
      BY <1>2, <1>6, <2>1, <3>1, <3>2
  <2>2. CASE n = i
    <3>1. (a \o d)[n] = d[n - (i - 1)]
      BY <1>1, <1>6, <2>2
    <3>2. n - (i - 1) = 1 /\ 1 \in 1 .. 1 + k - i
      BY <1>1, <2>2
    <3>3. d[1] = c[1]
      BY <1>5, <3>2
    <3> QED
      BY <1>3, <2>2, <3>1, <3>2, <3>3
  <2>3. CASE n > i
    <3> DEFINE m == n - i
    <3>1. m \in 1 .. k - i /\ i + m = n /\ n # i
      BY <1>1, <2>3
    <3>2. (a \o d)[n] = d[n - (i - 1)]
      <4>1. ~(n <= i - 1)
        BY <1>1, <2>3
      <4> QED
        BY <1>6, <4>1
    <3> DEFINE j == n - (i - 1)
    <3>3. j \in 1 .. 1 + k - i /\ ~(j <= 1) /\ j - 1 = m
      BY <1>1, <2>3
    <3> HIDE DEF m, j
    <3>4. d[j] = b[m]
      BY <1>5, <3>3
    <3>5. b[m] = s[n]
      BY <1>2, <3>1
    <3>6. t[n] = s[n]
      BY <3>1 DEF k
    <3> QED
      BY <3>2, <3>4, <3>5, <3>6 DEF j
  <2>4. n <= i - 1 \/ n = i \/ n > i
    BY <1>1
  <2> QED
    BY <2>1, <2>2, <2>3, <2>4
<1>8. Len(t) = k
  BY DEF k
<1>9. \A u \in Seq(S) : Len(u) = Len(t) /\ (\A n \in 1 .. Len(t) : t[n] = u[n]) => t = u
  BY SeqEqual
<1>10. t = a \o d
  BY <1>6, <1>7, <1>8, <1>9
<1> QED
  BY <1>10 DEF a, b, c, d, k

LEMMA HeadAndTail ==
  ASSUME NEW S, NEW s \in Seq(S), s # <<>>
  PROVE  s = <<Head(s)>> \o Tail(s) /\ Head(s) = s[1] /\ Head(s) \in S /\ Tail(s) \in Seq(S)
<1>1. Len(s) \in Nat \ {0}
  BY EmptySeq
<1>2. Head(s) \in S /\ Tail(s) \in Seq(S) /\ Head(s) = s[1]
  BY HeadTailProperties
<1>3. 1 \in 1 .. Len(s) /\ Len(s) \in 1 .. Len(s)
  BY <1>1
<1>4. SubSeq(s, 1, Len(s)) = <<s[1]>> \o SubSeq(s, 1 + 1, Len(s))
  BY <1>3, SubSeqRecursiveFirst
<1>5. SubSeq(s, 1, Len(s)) = s
  BY SubSeqFull
<1>6. Tail(SubSeq(s, 1, Len(s))) = SubSeq(s, 1 + 1, Len(s))
  BY <1>3, HeadTailOfSubSeq
<1> QED
  BY <1>2, <1>4, <1>5, <1>6

\* What is followed by something is a prefix.
LEMMA PrefixOfConcat ==
  ASSUME NEW S, NEW s \in Seq(S), NEW t \in Seq(S)
  PROVE  IsPrefix(s, s \o t)
<1> DEFINE a == Len(s)
           b == Len(t)
           st == s \o t
<1>1. /\ a \in Nat /\ b \in Nat /\ st \in Seq(S) /\ Len(st) = a + b
      /\ \A i \in 1 .. a + b : st[i] = IF i <= a THEN s[i] ELSE t[i - a]
      /\ \A i \in 1 .. a : s[i] \in S
  BY LenProperties, ElementOfSeq, ConcatProperties
<1> HIDE DEF a, b, st
<1>2. \A i \in 1 .. a : st[i] = s[i] /\ st[i] \in S
  BY <1>1
<1>3. /\ SubSeq(s, 1, a) \in Seq(S) /\ Len(SubSeq(s, 1, a)) = a
      /\ \A i \in 1 .. a : SubSeq(s, 1, a)[i] = s[i]
  <2>1. /\ SubSeq(s, 1, a) \in Seq(S)
        /\ Len(SubSeq(s, 1, a)) = IF 1 <= a THEN a - 1 + 1 ELSE 0
        /\ \A i \in 1 .. a - 1 + 1 : SubSeq(s, 1, a)[i] = s[1 + i - 1]
    BY <1>1, SubSeqProperties
  <2> QED
    BY <1>1, <2>1
<1>4. /\ SubSeq(st, 1, a) \in Seq(S) /\ Len(SubSeq(st, 1, a)) = a
      /\ \A i \in 1 .. a : SubSeq(st, 1, a)[i] = st[i]
  <2>1. /\ SubSeq(st, 1, a) \in Seq(S)
        /\ Len(SubSeq(st, 1, a)) = IF 1 <= a THEN a - 1 + 1 ELSE 0
        /\ \A i \in 1 .. a - 1 + 1 : SubSeq(st, 1, a)[i] = st[1 + i - 1]
    BY <1>1, <1>2, SubSeqProperties
  <2> QED
    BY <1>1, <2>1
<1>5. \A u, v \in Seq(S) : Len(u) = Len(v) /\ (\A n \in 1 .. Len(u) : u[n] = v[n]) => u = v
  BY SeqEqual
<1>6. SubSeq(s, 1, a) = SubSeq(st, 1, a)
  BY <1>2, <1>3, <1>4, <1>5
<1> QED
  BY <1>1, <1>6 DEF IsPrefix, a, st

=============================================================================
