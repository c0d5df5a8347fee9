---------------------------- MODULE GridsProofs ----------------------------
(***************************************************************************)
(* Theorems about module Grids, for any number of threads and reads, any   *)
(* grid files and any number of clears: a transform that is ready has its  *)
(* grids, only a file that is cut off looks short, and the threads of a    *)
(* read fetch nothing twice.                                               *)
(***************************************************************************)
EXTENDS Grids, SequenceLemmas

-----------------------------------------------------------------------------
\* Ranges in the order of their offsets.

StartsDiffer(R) == \A a, b \in R : a[1] = b[1] => a = b

LEMMA InOrderFacts ==
  ASSUME NEW R \in SUBSET (Nat \X Nat), IsFiniteSet(R), StartsDiffer(R)
  PROVE  /\ InOrder(R) \in Seq(R)
         /\ \A a \in R : \E n \in DOMAIN InOrder(R) : InOrder(R)[n] = a
         /\ \A m, n \in DOMAIN InOrder(R) : InOrder(R)[m] = InOrder(R)[n] => m = n
<1> DEFINE N == Cardinality(R)
           Below(a) == {b \in R : b[1] < a[1]}
           Rank == [a \in R |-> Cardinality(Below(a))]
<1>1. N \in Nat
  BY FS_CardinalityType
<1>2. ASSUME NEW a \in R
      PROVE  IsFiniteSet(Below(a)) /\ Cardinality(Below(a)) \in 0 .. N - 1
  <2>1. Below(a) \subseteq R /\ a \notin Below(a)
    OBVIOUS
  <2>2. IsFiniteSet(Below(a)) /\ Cardinality(Below(a)) <= N /\ Cardinality(Below(a)) # N
    BY <2>1, FS_Subset
  <2>3. Cardinality(Below(a)) \in Nat
    BY <2>2, FS_CardinalityType
  <2> QED
    BY <1>1, <2>2, <2>3
<1>3. ASSUME NEW a \in R, NEW b \in R, a[1] < b[1]
      PROVE  Cardinality(Below(a)) < Cardinality(Below(b))
  <2>1. Below(a) \subseteq Below(b) /\ a \in Below(b) /\ a \notin Below(a)
    <3>1. \A x \in R : x[1] \in Nat
      OBVIOUS
    <3> QED
      BY <1>3, <3>1
  <2> HIDE DEF Below
  <2>2. IsFiniteSet(Below(b)) /\ Cardinality(Below(a)) \in 0 .. N - 1 /\ Cardinality(Below(b)) \in 0 .. N - 1
    BY <1>2
  <2>3. Below(a) # Below(b)
    BY <2>1
  <2>4. Cardinality(Below(a)) <= Cardinality(Below(b)) /\ Cardinality(Below(a)) # Cardinality(Below(b))
    BY <2>1, <2>2, <2>3, FS_Subset
  <2> QED
    BY <2>2, <2>4
<1>4. \A a, b \in R : Rank[a] = Rank[b] => a = b
  <2> SUFFICES ASSUME NEW a \in R, NEW b \in R, a # b PROVE Rank[a] # Rank[b]
    OBVIOUS
  <2>1. a[1] \in Nat /\ b[1] \in Nat /\ a[1] # b[1]
    BY DEF StartsDiffer
  <2>2. a[1] < b[1] \/ b[1] < a[1]
    BY <2>1
  <2> HIDE DEF Below
  <2>3. Cardinality(Below(a)) \in 0 .. N - 1 /\ Cardinality(Below(b)) \in 0 .. N - 1
    BY <1>2
  <2>4. Cardinality(Below(a)) < Cardinality(Below(b)) \/ Cardinality(Below(b)) < Cardinality(Below(a))
    BY <1>3, <2>2
  <2> QED
    BY <2>3, <2>4
<1>5. Rank \in Injection(R, 0 .. N - 1)
  <2>1. Rank \in [R -> 0 .. N - 1]
    BY <1>2
  <2> HIDE DEF Rank
  <2> QED
    BY <1>4, <2>1 DEF Injection, IsInjective
<1>6. IsFiniteSet(0 .. N - 1) /\ Cardinality(0 .. N - 1) = N
  <2> HIDE DEF N
  <2>1. 0 \in Int /\ N - 1 \in Int
    BY <1>1
  <2>2. /\ IsFiniteSet(0 .. N - 1)
        /\ Cardinality(0 .. N - 1) = IF 0 > N - 1 THEN 0 ELSE (N - 1) - 0 + 1
    BY <2>1, FS_Interval
  <2> QED
    BY <1>1, <2>2
<1>7. Rank \in Surjection(R, 0 .. N - 1)
  <2> HIDE DEF Rank
  <2> QED
    BY <1>5, <1>6, FS_Injection
<1>8. \A n \in 1 .. N : \E a \in R : Cardinality(Below(a)) = n - 1
  <2> HIDE DEF N, Below
  <2>1. TAKE n \in 1 .. N
  <2>2. n - 1 \in 0 .. N - 1
    BY <1>1
  <2>3. PICK a \in R : Rank[a] = n - 1
    <3> HIDE DEF Rank
    <3> QED
      BY <1>7, <2>2 DEF Surjection
  <2> QED
    BY <2>3
<1> DEFINE s == InOrder(R)
<1>9. DOMAIN s = 1 .. N /\ \A n \in 1 .. N : s[n] = CHOOSE a \in R : Cardinality(Below(a)) = n - 1
  BY DEF InOrder
<1>10. \A n \in 1 .. N : s[n] \in R /\ Rank[s[n]] = n - 1
  <2> HIDE DEF s, Rank
  <2>1. TAKE n \in 1 .. N
  <2>2. PICK a \in R : Cardinality(Below(a)) = n - 1
    BY <1>8
  <2>3. s[n] \in R /\ Cardinality(Below(s[n])) = n - 1
    BY <1>9, <2>2
  <2> QED
    BY <2>3 DEF Rank
<1>11. s \in Seq(R)
  <2>1. s \in [1 .. N -> R]
    <3>1. \A n \in 1 .. N : (CHOOSE a \in R : Cardinality(Below(a)) = n - 1) \in R
      BY <1>9, <1>10
    <3> QED
      BY <3>1 DEF InOrder
  <2> HIDE DEF s
  <2> QED
    BY <1>1, <2>1, FunctionIsSeq
<1> HIDE DEF s, Rank, Below
<1>12. ASSUME NEW a \in R PROVE \E n \in DOMAIN s : s[n] = a
  <2>1. Rank[a] \in 0 .. N - 1
    BY <1>5 DEF Injection
  <2>2. Rank[a] + 1 \in 1 .. N /\ (Rank[a] + 1) - 1 = Rank[a]
    BY <1>1, <2>1
  <2>3. s[Rank[a] + 1] \in R /\ Rank[s[Rank[a] + 1]] = Rank[a]
    BY <1>10, <2>2
  <2> QED
    BY <1>4, <1>9, <2>2, <2>3
<1>13. \A m, n \in DOMAIN s : s[m] = s[n] => m = n
  <2> SUFFICES ASSUME NEW m \in 1 .. N, NEW n \in 1 .. N, s[m] = s[n] PROVE m = n
    BY <1>9
  <2>1. Rank[s[m]] = m - 1 /\ Rank[s[n]] = n - 1
    BY <1>10
  <2> QED
    BY <1>1, <2>1
<1> QED
  BY <1>11, <1>12, <1>13 DEF s

-----------------------------------------------------------------------------
\* Merging: as many requests as there are runs of adjacent blocks, none only for no block.

Starts(W) == {a \in W : \A b \in W : b[1] + b[2] # a[1]}
\* The ends of the runs at or behind an offset.
EndsFrom(W, o) ==
  {b[1] + b[2] : b \in {b \in W : b[1] >= o /\ \A x \in W : x[1] # b[1] + b[2]}}
RunFrom(W, o) == <<o, Min(EndsFrom(W, o)) - o>>
Runs(W) == {RunFrom(W, a[1]) : a \in Starts(W)}

Bounded(W) == \E n \in Nat : \A b \in W : b[1] + b[2] <= n
\* Blocks without a byte in common.
Disjoint(W) == \A a, b \in W : a # b => Units(a) \cap Units(b) = {}

LEMMA MergedIsRuns == ASSUME NEW W PROVE Merged(W) = InOrder(Runs(W))
BY DEF Merged, Runs, RunFrom, EndsFrom, Starts

LEMMA EndsExist ==
  ASSUME NEW W \in SUBSET RangeType, Bounded(W), NEW a \in W
  PROVE  /\ EndsFrom(W, a[1]) \subseteq Nat /\ EndsFrom(W, a[1]) # {}
         /\ \A e \in EndsFrom(W, a[1]) : e > a[1]
<1>1. \A b \in W : b[1] \in Nat /\ b[2] \in Nat \ {0}
  BY DEF RangeType
<1>2. EndsFrom(W, a[1]) \subseteq Nat /\ \A e \in EndsFrom(W, a[1]) : e > a[1]
  BY <1>1 DEF EndsFrom
<1>3. EndsFrom(W, a[1]) # {}
  <2>1. PICK n \in Nat : \A b \in W : b[1] + b[2] <= n
    BY DEF Bounded
  <2> DEFINE Behind == {n - (b[1] + b[2]) : b \in {b \in W : b[1] >= a[1]}}
  <2>2. Behind \subseteq Nat
    BY <1>1, <2>1
  <2>3. n - (a[1] + a[2]) \in Behind
    BY <1>1
  <2>4. PICK m \in Behind : \A k \in Behind : m <= k
    <3> HIDE DEF Behind
    <3> QED
      BY <2>2, <2>3, Least
  <2>5. PICK b \in W : b[1] >= a[1] /\ m = n - (b[1] + b[2])
    BY <2>4
  <2>6. ASSUME NEW x \in W, x[1] = b[1] + b[2] PROVE FALSE
    <3>1. x[1] >= a[1] /\ x[1] \in Nat /\ x[2] \in Nat \ {0} /\ b[1] \in Nat /\ b[2] \in Nat \ {0}
          /\ a[1] \in Nat
      BY <1>1, <2>5, <2>6
    <3>2. n - (x[1] + x[2]) \in Behind
      BY <3>1
    <3>3. m <= n - (x[1] + x[2])
      BY <2>4, <3>2
    <3> QED
      BY <2>5, <2>6, <3>1, <3>3
  <2> QED
    BY <2>5, <2>6 DEF EndsFrom
<1> QED
  BY <1>2, <1>3

LEMMA RunFacts ==
  ASSUME NEW W \in SUBSET RangeType, Bounded(W), NEW a \in W
  PROVE  /\ RunFrom(W, a[1]) \in RangeType /\ RunFrom(W, a[1])[1] = a[1]
         /\ Disjoint(W) => Units(a) \subseteq Units(RunFrom(W, a[1]))
<1> DEFINE e == Min(EndsFrom(W, a[1]))
<1>1. e \in EndsFrom(W, a[1]) /\ e \in Nat /\ e > a[1]
  BY EndsExist, MinOfNats
<1>2. a[1] \in Nat /\ a[2] \in Nat \ {0} /\ a = <<a[1], a[2]>>
  BY DEF RangeType
<1>3. RunFrom(W, a[1]) \in RangeType /\ RunFrom(W, a[1])[1] = a[1] /\ RunFrom(W, a[1])[2] = e - a[1]
  BY <1>1, <1>2 DEF RunFrom, RangeType
<1>4. ASSUME Disjoint(W) PROVE Units(a) \subseteq Units(RunFrom(W, a[1]))
  <2> HIDE DEF e
  <2>1. PICK b \in W : b[1] >= a[1] /\ e = b[1] + b[2]
    BY <1>1 DEF EndsFrom
  <2>2. b[1] \in Nat /\ b[2] \in Nat \ {0}
    BY DEF RangeType
  <2>3. b = a \/ b[1] >= a[1] + a[2]
    <3>1. SUFFICES ASSUME b # a, b[1] < a[1] + a[2] PROVE FALSE
      BY <1>2, <2>2
    <3>2. b[1] \in Units(b) /\ b[1] \in Units(a)
      BY <1>2, <2>1, <2>2, <3>1 DEF Units
    <3> QED
      BY <1>4, <3>1, <3>2 DEF Disjoint
  <2>4. a[1] + a[2] <= e
    BY <1>2, <2>1, <2>2, <2>3
  <2> QED
    BY <1>1, <1>2, <1>3, <2>4 DEF Units
<1> QED
  BY <1>3, <1>4

LEMMA RunsFacts ==
  ASSUME NEW W \in SUBSET RangeType, Bounded(W), IsFiniteSet(W)
  PROVE  /\ Runs(W) \subseteq RangeType /\ IsFiniteSet(Runs(W)) /\ StartsDiffer(Runs(W))
         /\ Runs(W) = {} => W = {}
<1>1. Starts(W) \subseteq W /\ IsFiniteSet(Starts(W))
  BY FS_Subset DEF Starts
<1>2. Runs(W) \subseteq RangeType /\ \A a \in Starts(W) : RunFrom(W, a[1])[1] = a[1]
  BY <1>1, RunFacts DEF Runs
<1>3. IsFiniteSet(Runs(W))
  <2> DEFINE f == [a \in Starts(W) |-> RunFrom(W, a[1])]
  <2>1. f \in Surjection(Starts(W), Runs(W))
    BY DEF Surjection, Runs
  <2> HIDE DEF f
  <2> QED
    BY <1>1, <2>1, FS_Surjection
<1>4. StartsDiffer(Runs(W))
  <2> SUFFICES ASSUME NEW x \in Runs(W), NEW y \in Runs(W), x[1] = y[1] PROVE x = y
    BY DEF StartsDiffer
  <2>1. PICK a \in Starts(W) : x = RunFrom(W, a[1])
    BY DEF Runs
  <2>2. PICK b \in Starts(W) : y = RunFrom(W, b[1])
    BY DEF Runs
  <2>3. a[1] = b[1]
    BY <1>2, <2>1, <2>2
  <2> QED
    BY <2>1, <2>2, <2>3
<1>5. ASSUME Runs(W) = {} PROVE W = {}
  <2>1. Starts(W) = {}
    BY <1>5 DEF Runs
  <2>2. SUFFICES ASSUME NEW a \in W PROVE FALSE
    OBVIOUS
  <2> DEFINE Offsets == {b[1] : b \in W}
  <2>3. Offsets \subseteq Nat /\ a[1] \in Offsets
    BY DEF RangeType
  <2>4. PICK m \in Offsets : \A k \in Offsets : m <= k
    <3> HIDE DEF Offsets
    <3> QED
      BY <2>3, Least
  <2>5. PICK b \in W : m = b[1]
    BY <2>4
  <2>6. \A x \in W : m <= x[1] /\ x[1] \in Nat /\ x[2] \in Nat \ {0}
    BY <2>4 DEF RangeType
  <2>7. \A x \in W : x[1] + x[2] # b[1]
    BY <2>5, <2>6
  <2> QED
    BY <2>1, <2>5, <2>7 DEF Starts
<1> QED
  BY <1>2, <1>3, <1>4, <1>5

\* A run ends before the next one begins: the last block that begins before it ends there or
\* earlier, and nothing continues it.
LEMMA RunEndsBefore ==
  ASSUME NEW W \in SUBSET RangeType, Bounded(W), Disjoint(W), NEW a \in W, NEW z \in Starts(W),
         a[1] < z[1]
  PROVE  RunFrom(W, a[1])[1] + RunFrom(W, a[1])[2] <= z[1]
<1>1. /\ \A b \in W : b[1] \in Nat /\ b[2] \in Nat \ {0}
      /\ z \in W /\ \A b \in W : b[1] + b[2] # z[1]
  BY DEF RangeType, Starts
<1> DEFINE Gaps == {z[1] - b[1] : b \in {b \in W : a[1] <= b[1] /\ b[1] < z[1]}}
<1>2. PICK m \in Gaps : \A k \in Gaps : m <= k
  <2>1. Gaps \subseteq Nat /\ z[1] - a[1] \in Gaps
    BY <1>1
  <2> HIDE DEF Gaps
  <2> QED
    BY <2>1, Least
<1>3. PICK b \in W : a[1] <= b[1] /\ b[1] < z[1] /\ m = z[1] - b[1]
  BY <1>2
<1>4. b[1] + b[2] <= z[1]
  <2>1. SUFFICES ASSUME b[1] + b[2] > z[1] PROVE FALSE
    BY <1>1
  <2>2. z[1] \in Units(b) /\ z[1] \in Units(z) /\ b # z
    BY <1>1, <1>3, <2>1 DEF Units
  <2> QED
    BY <1>1, <2>2 DEF Disjoint
<1>5. ASSUME NEW x \in W, x[1] = b[1] + b[2] PROVE FALSE
  <2>1. a[1] <= x[1] /\ x[1] < z[1] /\ z[1] - x[1] < m
    BY <1>1, <1>3, <1>4, <1>5
  <2>2. z[1] - x[1] \in Gaps
    BY <2>1
  <2>3. m <= z[1] - x[1]
    BY <1>2, <2>2
  <2> QED
    BY <1>1, <1>3, <2>1, <2>3
<1> DEFINE e == Min(EndsFrom(W, a[1]))
<1>6. b[1] + b[2] \in EndsFrom(W, a[1])
  BY <1>1, <1>3, <1>5 DEF EndsFrom
<1>7. e \in Nat /\ e <= b[1] + b[2]
  BY <1>6, EndsExist, MinOfNats
<1>8. RunFrom(W, a[1])[1] = a[1] /\ RunFrom(W, a[1])[2] = e - a[1]
  BY DEF RunFrom
<1> QED
  BY <1>1, <1>3, <1>4, <1>7, <1>8

LEMMA RunsApart ==
  ASSUME NEW W \in SUBSET RangeType, Bounded(W), Disjoint(W)
  PROVE  Disjoint(Runs(W))
<1> SUFFICES ASSUME NEW x \in Runs(W), NEW y \in Runs(W), x # y
             PROVE  Units(x) \cap Units(y) = {}
  BY DEF Disjoint
<1>1. PICK a, b \in Starts(W) : x = RunFrom(W, a[1]) /\ y = RunFrom(W, b[1])
  BY DEF Runs
<1>2. /\ a \in W /\ b \in W /\ a[1] \in Nat /\ b[1] \in Nat /\ a[1] # b[1]
      /\ x \in RangeType /\ y \in RangeType /\ x[1] = a[1] /\ y[1] = b[1]
  BY <1>1, RunFacts DEF Starts, RangeType
<1>3. x[1] + x[2] <= y[1] \/ y[1] + y[2] <= x[1]
  BY <1>1, <1>2, RunEndsBefore
<1> QED
  BY <1>2, <1>3 DEF Units, RangeType

LEMMA MergedFacts ==
  ASSUME NEW W \in SUBSET RangeType, Bounded(W), IsFiniteSet(W)
  PROVE  /\ Merged(W) \in Seq(RangeType)
         /\ Merged(W) = <<>> => W = {}
         /\ \A m, n \in DOMAIN Merged(W) : Merged(W)[m] = Merged(W)[n] => m = n
         /\ \A n \in DOMAIN Merged(W) : \E a \in W :
                Merged(W)[n][1] = a[1] /\ (Disjoint(W) => Units(a) \subseteq Units(Merged(W)[n]))
         /\ Disjoint(W) => \A m, n \in DOMAIN Merged(W) :
                m # n => Units(Merged(W)[m]) \cap Units(Merged(W)[n]) = {}
<1> DEFINE s == InOrder(Runs(W))
<1>1. /\ Runs(W) \subseteq RangeType /\ IsFiniteSet(Runs(W)) /\ StartsDiffer(Runs(W))
      /\ Runs(W) = {} => W = {}
  BY RunsFacts
<1>2. Runs(W) \subseteq Nat \X Nat
  BY <1>1 DEF RangeType
<1>3. /\ s \in Seq(Runs(W))
      /\ \A a \in Runs(W) : \E n \in DOMAIN s : s[n] = a
      /\ \A m, n \in DOMAIN s : s[m] = s[n] => m = n
  BY <1>1, <1>2, InOrderFacts
<1> HIDE DEF s
<1>4. s \in Seq(RangeType)
  BY <1>1, <1>3
<1>5. s = <<>> => Runs(W) = {}
  BY <1>3
<1>6. ASSUME NEW n \in DOMAIN s
      PROVE  \E a \in W : s[n][1] = a[1] /\ (Disjoint(W) => Units(a) \subseteq Units(s[n]))
  <2>1. s[n] \in Runs(W)
    BY <1>3
  <2>2. PICK a \in Starts(W) : s[n] = RunFrom(W, a[1])
    BY <2>1 DEF Runs
  <2>3. a \in W
    BY DEF Starts
  <2> QED
    BY <2>2, <2>3, RunFacts
<1>7. Disjoint(W) => \A m, n \in DOMAIN s : m # n => Units(s[m]) \cap Units(s[n]) = {}
  BY <1>3, RunsApart DEF Disjoint
<1>8. Merged(W) = s
  BY MergedIsRuns DEF s
<1> QED
  BY <1>1, <1>3, <1>4, <1>5, <1>6, <1>7, <1>8

-----------------------------------------------------------------------------
(***************************************************************************)
(* The inductive invariant.  GridsCover follows from what a thread in the  *)
(* middle of a round knows of the copies it has asked (AskInv), as nothing *)
(* that is loaded is lost.  MissingOnlyIfShort: of a request that was      *)
(* answered the copy has all bytes there are, and no block of it is left   *)
(* to decode (HandledInv), so that it is not made again (ReqsInv).         *)
(***************************************************************************)
Names == DOMAIN world.files
RequestType == [file: Names, range: Nat \X Nat]
CopyType == [loaded: SUBSET Nat, dirs: {"none", "ok", "bad"}, decoded: SUBSET Nat,
             lock: Workers \cup {Nobody}]
SetupType == [state: {"none", "ready", "failed"}, held: Seq(Copies)]
ErrorType == {<<"none">>, <<"no loader">>, <<"fetch">>} \cup ({"missing", "invalid"} \X Names)

Asking == {"ask", "ask_locked"}
Answering == {"insert", "decode"}
Loading == Asking \cup {"fetch"} \cup Answering

Typed ==
  /\ world \in Worlds
  /\ gen \in 0 .. world.clears
  /\ copy \in [Copies -> CopyType]
  /\ setups \in [Reads -> [Keys -> SetupType]]
  /\ writer \in [Reads -> Workers \cup {Nobody}]
  /\ pc \in [Workers -> {"idle", "write", "register", "failed"} \cup Loading]
  /\ key \in [Workers -> Keys \cup {NoKey}]
  /\ held \in [Workers -> Seq(Copies)]
  /\ ops \in [Workers -> Seq(Names)]
  /\ todo \in [Workers -> Seq(Copies)]
  /\ reqs \in [Workers -> Seq(RequestType)]
  /\ seen \in [Workers -> SUBSET RequestType]
  /\ err \in [Workers -> ErrorType]

\* What a thread has, by where it is.
PhaseOf(w) ==
  /\ pc[w] \notin {"idle", "failed"} => key[w] \in Keys
  /\ pc[w] \in {"idle", "write"} => held[w] = <<>>
  /\ pc[w] \notin Loading => todo[w] = <<>> /\ reqs[w] = <<>> /\ seen[w] = {}
  /\ pc[w] = "register" => ops[w] # <<>>
  /\ pc[w] = "ask_locked" => todo[w] # <<>> /\ ~IsTin(Head(todo[w]))
  /\ pc[w] \in {"fetch"} \cup Answering => reqs[w] # <<>>
  /\ pc[w] # "failed" => err[w] = <<"none">>

Covered(k, c) ==
  \/ copy[c].dirs = "bad"
  \/ copy[c].dirs = "ok" /\ world.keys[k].blocks[c[1]] \subseteq copy[c].decoded

AskOf(w) ==
  pc[w] \in Asking =>
    \A c \in ToSet(held[w]) : c \in ToSet(todo[w]) \/ reqs[w] # <<>> \/ Covered(key[w], c)

\* What is known of a file's directories is what its bytes say.
DirsInv ==
  \A c \in Copies : ~IsTin(c) /\ copy[c].dirs = "none" /\ copy[c].loaded # {} =>
                      Missing(c, copy[c].loaded) # {}

Uncut(c) == File(c).size >= File(c).full
AtBlock(c, r) == \E b \in DOMAIN File(c).blocks : File(c).blocks[b][1] = r.range[1]
\* The request being answered.
Current(w, r) == pc[w] \in Answering /\ r = Head(reqs[w])

Handled(c, r) ==
  IF IsTin(c) THEN copy[c].dirs # "none"
  ELSE /\ Data(c, r.range) \subseteq copy[c].loaded
       /\ AtBlock(c, r) => \A b \in DOMAIN File(c).blocks :
                              Units(File(c).blocks[b]) \subseteq Units(r.range) => b \in copy[c].decoded

HandledOf(w) ==
  ~TwoCopies(w) =>
    \A r \in seen[w] : \A c \in ToSet(held[w]) :
      c[1] = r.file /\ Uncut(c) /\ ~Current(w, r) => Handled(c, r)

\* A request for a copy is new, and for a block only if the directories are known.
Fresh(w, n, c) ==
  /\ ~IsTin(c) /\ AtBlock(c, reqs[w][n]) => copy[c].dirs = "ok"
  /\ Uncut(c) => reqs[w][n] \notin seen[w] \/ (n = 1 /\ pc[w] \in Answering)

\* What is asked for is asked for once: the copies still to ask have other names.
ReqsOf(w) ==
  /\ IsInjective(held[w]) /\ IsInjective(todo[w]) /\ ToSet(todo[w]) \subseteq ToSet(held[w])
  /\ \A n \in DOMAIN reqs[w] : \E c \in ToSet(held[w]) : c[1] = reqs[w][n].file
  /\ ~TwoCopies(w) =>
      /\ IsInjective(reqs[w])
      /\ pc[w] \in Asking => \A n \in DOMAIN reqs[w] : \A c \in ToSet(todo[w]) :
                               c[1] # reqs[w][n].file
      /\ \A n \in DOMAIN reqs[w] : \A c \in ToSet(held[w]) :
             c[1] = reqs[w][n].file => Fresh(w, n, c)

\* What an insert has done before it decodes.
DecodeOf(w) ==
  pc[w] = "decode" =>
    LET c == Receiver(w) IN
    /\ ~IsTin(c) /\ copy[c].dirs = "ok"
    /\ Data(c, Head(reqs[w]).range) \subseteq copy[c].loaded

MissingOf(w) ==
  err[w][1] = "missing" /\ ~TwoCopies(w) =>
    world.files[err[w][2]].size < world.files[err[w][2]].full

WorkerInv(w) == PhaseOf(w) /\ AskOf(w) /\ HandledOf(w) /\ ReqsOf(w) /\ DecodeOf(w) /\ MissingOf(w)

GridsInv == Typed /\ DirsInv /\ GridsCover /\ \A w \in Workers : WorkerInv(w)

-----------------------------------------------------------------------------
\* What is known of the files.

LEMMA WorldFacts ==
  ASSUME Typed
  PROVE  /\ world.files \in [Names -> FileType]
         /\ \A f \in Names : (world.files[f].kind = "tin" => world.files[f].blocks = <<>>)
                             /\ Apart(world.files[f])
         /\ world.keys \in [Keys -> KeyType(world.files)]
         /\ world.readOf \in [Workers -> Reads] /\ world.loader \in [Reads -> BOOLEAN]
         /\ world.clears \in Nat
BY GridsAssumption DEF Typed, Names, Keys

LEMMA FileFacts ==
  ASSUME Typed, NEW c \in Copies
  PROVE  /\ c[1] \in Names /\ File(c) \in FileType /\ Apart(File(c))
         /\ IsTin(c) => File(c).blocks = <<>>
         /\ copy[c] \in CopyType
         /\ File(c).blocks \in Seq(RangeType) /\ File(c).needs \in Seq(RangeType)
         /\ File(c).full \in Nat \ {0} /\ File(c).size \in Nat
<1>1. c[1] \in Names
  BY DEF Copies, Names
<1>2. File(c) \in FileType /\ Apart(File(c)) /\ (IsTin(c) => File(c).blocks = <<>>)
  BY <1>1, WorldFacts DEF File, IsTin
<1>3. copy[c] \in CopyType
  BY DEF Typed
<1> QED
  BY <1>1, <1>2, <1>3 DEF FileType

\* The blocks of a file, or some of them.
LEMMA BlocksFacts ==
  ASSUME Typed, NEW c \in Copies, NEW B \in SUBSET DOMAIN File(c).blocks
  PROVE  LET W == {File(c).blocks[b] : b \in B} IN
         /\ W \in SUBSET RangeType /\ Bounded(W) /\ IsFiniteSet(W) /\ Disjoint(W)
<1> DEFINE blocks == File(c).blocks
           W == {blocks[b] : b \in B}
<1>1. blocks \in Seq(RangeType) /\ File(c).full \in Nat /\ Apart(File(c))
  BY FileFacts
<1>2. DOMAIN blocks = 1 .. Len(blocks) /\ Len(blocks) \in Nat
  BY <1>1
<1>3. W \in SUBSET RangeType
  BY <1>1, <1>2
<1>4. Bounded(W)
  BY <1>1 DEF Bounded, Apart
<1>5. IsFiniteSet(W)
  <2>1. IsFiniteSet(1 .. Len(blocks))
    <3>1. 1 \in Int /\ Len(blocks) \in Int
      BY <1>2
    <3> QED
      BY <3>1, FS_Interval
  <2>2. IsFiniteSet(B)
    BY <1>2, <2>1, FS_Subset
  <2> DEFINE f == [b \in B |-> blocks[b]]
  <2>3. f \in Surjection(B, W)
    BY DEF Surjection
  <2> HIDE DEF f, W
  <2> QED
    BY <2>2, <2>3, FS_Surjection
<1>6. Disjoint(W)
  BY <1>1 DEF Disjoint, Apart
<1> QED
  BY <1>3, <1>4, <1>5, <1>6

\* A block still wanted is in one of the requests, each of which begins with one.
LEMMA BlockRequestsFacts ==
  ASSUME Typed, NEW w \in Workers, key[w] \in Keys, NEW c \in Copies
  PROVE  /\ BlockRequests(w, c) \in Seq(RangeType)
         /\ BlockRequests(w, c) = <<>> => Wanted(w, c) \subseteq copy[c].decoded
         /\ \A m, n \in DOMAIN BlockRequests(w, c) :
                BlockRequests(w, c)[m] = BlockRequests(w, c)[n] => m = n
         /\ \A n \in DOMAIN BlockRequests(w, c) : \E b \in DOMAIN File(c).blocks :
                /\ b \notin copy[c].decoded
                /\ BlockRequests(w, c)[n][1] = File(c).blocks[b][1]
                /\ Units(File(c).blocks[b]) \subseteq Units(BlockRequests(w, c)[n])
         /\ \A m, n \in DOMAIN BlockRequests(w, c) : m # n =>
                Units(BlockRequests(w, c)[m]) \cap Units(BlockRequests(w, c)[n]) = {}
<1> DEFINE B == Wanted(w, c) \ copy[c].decoded
           W == {File(c).blocks[b] : b \in B}
<1>1. Wanted(w, c) \subseteq DOMAIN File(c).blocks
  <2>1. c[1] \in Names /\ world.keys[key[w]] \in KeyType(world.files)
    BY FileFacts, WorldFacts
  <2> QED
    BY <2>1 DEF KeyType, Wanted, File, Names
<1>2. W \in SUBSET RangeType /\ Bounded(W) /\ IsFiniteSet(W) /\ Disjoint(W)
  BY <1>1, BlocksFacts
<1>3. BlockRequests(w, c) = Merged(W)
  BY DEF BlockRequests
<1>4. W = {} => Wanted(w, c) \subseteq copy[c].decoded
  OBVIOUS
<1>5. \A a \in W : \E b \in DOMAIN File(c).blocks : b \notin copy[c].decoded /\ a = File(c).blocks[b]
  BY <1>1
<1> HIDE DEF W
<1> QED
  BY <1>2, <1>3, <1>4, <1>5, MergedFacts

\* The directories are asked for where bytes are missing, and no block begins there.
LEMMA DirsRequestFacts ==
  ASSUME Typed, DirsInv, NEW c \in Copies, ~IsTin(c), copy[c].dirs = "none"
  PROVE  /\ DirsRequest(c) \in RangeType
         /\ CutShort(c, DirsRequest(c)) \/ ~(Data(c, DirsRequest(c)) \subseteq copy[c].loaded)
         /\ \A b \in DOMAIN File(c).blocks : File(c).blocks[b][1] # DirsRequest(c)[1]
<1>1. /\ HEADER_CHUNK \in Nat \ {0}
      /\ File(c).full \in Nat \ {0} /\ File(c).size \in Nat /\ Apart(File(c))
      /\ File(c).needs \in Seq(RangeType)
  BY FileFacts, GridsAssumption
<1>2. CASE copy[c].loaded = {}
  <2>1. DirsRequest(c) = <<0, HEADER_CHUNK>>
    BY <1>2 DEF DirsRequest
  <2>2. DirsRequest(c) \in RangeType /\ DirsRequest(c)[1] = 0 /\ DirsRequest(c)[2] = HEADER_CHUNK
    BY <1>1, <2>1 DEF RangeType
  <2>3. CutShort(c, DirsRequest(c)) \/ 0 \in Data(c, DirsRequest(c))
    BY <1>1, <2>2 DEF CutShort, Data, Units, Whole
  <2> QED
    BY <1>1, <1>2, <2>2, <2>3 DEF Apart
<1>3. CASE copy[c].loaded # {}
  <2> DEFINE M == Missing(c, copy[c].loaded)
             n == Min(M)
             need == File(c).needs[n]
             size == Max({need[2], HEADER_CHUNK})
  <2>1. M # {} /\ M \subseteq DOMAIN File(c).needs
    BY <1>3 DEF DirsInv, Missing
  <2>2. n \in M /\ n \in DOMAIN File(c).needs
    <3>1. M \subseteq Nat
      BY <1>1, <2>1
    <3> HIDE DEF M
    <3> QED
      BY <2>1, <3>1, MinOfNats
  <2>3. ~(Units(need) \subseteq copy[c].loaded)
    BY <2>2 DEF Missing
  <2> HIDE DEF n, M
  <2>4. need \in RangeType /\ need[1] \in Nat /\ need[2] \in Nat \ {0}
        /\ need[1] + need[2] <= File(c).full
    BY <1>1, <2>2 DEF RangeType, Apart
  <2>5. DirsRequest(c) = <<need[1], size>>
    BY <1>3 DEF DirsRequest, n, M
  <2> HIDE DEF need
  <2>6. size \in Nat \ {0} /\ need[2] <= size
    BY <1>1, <2>4, MaxOfTwo
  <2> HIDE DEF size
  <2>7. DirsRequest(c) \in RangeType /\ DirsRequest(c)[1] = need[1] /\ DirsRequest(c)[2] = size
    BY <2>4, <2>5, <2>6 DEF RangeType
  <2>8. CutShort(c, DirsRequest(c)) \/ Units(need) \subseteq Data(c, DirsRequest(c))
    <3> SUFFICES ASSUME ~CutShort(c, DirsRequest(c)), NEW x \in Units(need) PROVE x \in Data(c, DirsRequest(c))
      OBVIOUS
    <3>1. x \in Nat /\ need[1] <= x /\ x < need[1] + need[2]
      BY <2>4 DEF Units
    <3>2. x \in 0 .. File(c).size - 1
      BY <1>1, <2>4, <2>6, <2>7, <3>1 DEF CutShort
    <3>3. x \in Units(DirsRequest(c))
      BY <2>4, <2>6, <2>7, <3>1 DEF Units
    <3> QED
      BY <3>1, <3>2, <3>3 DEF Data
  <2>9. \A b \in DOMAIN File(c).blocks : File(c).blocks[b][1] # need[1]
    BY <1>1, <2>2 DEF Apart, need
  <2> QED
    BY <2>3, <2>7, <2>8, <2>9
<1> QED
  BY <1>2, <1>3

LEMMA ElementsOf ==
  ASSUME NEW S, NEW s \in Seq(S)
  PROVE  /\ ToSet(s) \subseteq S
         /\ \A x : x \in ToSet(s) <=> \E n \in 1 .. Len(s) : s[n] = x
         /\ s # <<>> => Head(s) \in ToSet(s)
<1>1. Len(s) \in Nat /\ DOMAIN s = 1 .. Len(s) /\ \A n \in 1 .. Len(s) : s[n] \in S
  OBVIOUS
<1>2. s # <<>> => Head(s) = s[1] /\ 1 \in 1 .. Len(s)
  BY <1>1
<1> QED
  BY <1>1, <1>2 DEF ToSet

\* The bytes go to a copy of the transform that has the request's name, the only one if there
\* are not two.
LEMMA ReceiverFacts ==
  ASSUME Typed, NEW w \in Workers, ReqsOf(w), reqs[w] # <<>>
  PROVE  /\ Receiver(w) \in ToSet(held[w]) /\ Receiver(w) \in Copies
         /\ Receiver(w)[1] = Head(reqs[w]).file
         /\ ~TwoCopies(w) => \A c \in ToSet(held[w]) : c[1] = Head(reqs[w]).file => c = Receiver(w)
<1>1. reqs[w] \in Seq(RequestType) /\ held[w] \in Seq(Copies)
  BY DEF Typed
<1>2. 1 \in DOMAIN reqs[w] /\ reqs[w][1] = Head(reqs[w])
  BY <1>1
<1> DEFINE h == held[w]
           I == {n \in 1 .. Len(h) : h[n][1] = Head(reqs[w]).file}
<1>3. PICK c \in ToSet(h) : c[1] = Head(reqs[w]).file
  BY <1>2 DEF ReqsOf
<1>4. PICK n \in 1 .. Len(h) : h[n] = c
  BY <1>1, <1>3, ElementsOf
<1>5. I # {} /\ I \subseteq Nat
  BY <1>1, <1>3, <1>4
<1>6. SelectInSeq(h, LAMBDA x : x[1] = Head(reqs[w]).file) = Min(I)
  BY <1>5 DEF SelectInSeq
<1>7. Min(I) \in I
  BY <1>5, MinOfNats
<1>8. Receiver(w) = h[Min(I)]
  BY <1>6 DEF Receiver
<1>9. /\ Receiver(w) \in ToSet(h) /\ Receiver(w) \in Copies
      /\ Receiver(w)[1] = Head(reqs[w]).file
  <2> HIDE DEF h
  <2>1. h \in Seq(Copies)
    BY <1>1 DEF h
  <2>2. Min(I) \in 1 .. Len(h) /\ h[Min(I)][1] = Head(reqs[w]).file
    BY <1>7
  <2>3. h[Min(I)] \in ToSet(h)
    BY <2>1, <2>2, ElementsOf
  <2> HIDE DEF I
  <2> QED
    BY <1>8, <2>1, <2>2, <2>3, ElementsOf
<1> QED
  BY <1>9 DEF TwoCopies

-----------------------------------------------------------------------------
\* What a step leaves alone: nothing that is loaded or known of a file is lost, and the other
\* threads keep what they have.

Grows ==
  \A c \in Copies :
    /\ copy[c].loaded \subseteq copy'[c].loaded /\ copy[c].decoded \subseteq copy'[c].decoded
    /\ copy[c].dirs # "none" => copy'[c].dirs = copy[c].dirs

Waits(v) ==
  /\ pc'[v] = pc[v] /\ key'[v] = key[v] /\ held'[v] = held[v] /\ ops'[v] = ops[v]
  /\ todo'[v] = todo[v] /\ reqs'[v] = reqs[v] /\ seen'[v] = seen[v] /\ err'[v] = err[v]

LEMMA SameFiles ==
  ASSUME world' = world
  PROVE  /\ Names' = Names /\ Keys' = Keys /\ Copies' = Copies
         /\ \A c : File(c)' = File(c) /\ IsTin(c)' = IsTin(c) /\ Uncut(c)' = Uncut(c)
         /\ \A c, r : AtBlock(c, r)' = AtBlock(c, r) /\ Data(c, r)' = Data(c, r)
         /\ \A c, l : Missing(c, l)' = Missing(c, l)
BY DEF Names, Keys, Copies, File, IsTin, Uncut, AtBlock, Data, Missing

LEMMA CoveredGrows ==
  ASSUME world' = world, Grows, NEW k, NEW c \in Copies, Covered(k, c)
  PROVE  Covered(k, c)'
BY DEF Covered, Grows

LEMMA HandledGrows ==
  ASSUME world' = world, Grows, NEW c \in Copies, NEW r, Handled(c, r)
  PROVE  Handled(c, r)'
<1>1. /\ IsTin(c)' = IsTin(c) /\ AtBlock(c, r)' = AtBlock(c, r) /\ File(c)' = File(c)
      /\ Data(c, r.range)' = Data(c, r.range)
  BY SameFiles
<1>2. CASE IsTin(c)
  BY <1>1, <1>2 DEF Handled, Grows
<1>3. CASE ~IsTin(c)
  <2>1. copy[c].loaded \subseteq copy'[c].loaded /\ copy[c].decoded \subseteq copy'[c].decoded
    BY DEF Grows
  <2> QED
    BY <1>1, <1>3, <2>1 DEF Handled
<1> QED
  BY <1>2, <1>3

LEMMA CoverGrows ==
  ASSUME Typed, GridsCover, world' = world, Grows, UNCHANGED setups
  PROVE  GridsCover'
<1> SUFFICES ASSUME NEW r \in Reads, NEW k \in Keys, setups[r][k].state = "ready",
                    NEW n \in DOMAIN setups[r][k].held
             PROVE  Covered(k, setups[r][k].held[n])'
  BY SameFiles DEF GridsCover, Covered
<1>1. setups[r][k].held \in Seq(Copies)
  BY DEF Typed, SetupType
<1>2. setups[r][k].held[n] \in Copies
  BY <1>1
<1>3. Covered(k, setups[r][k].held[n])
  BY DEF GridsCover, Covered
<1> QED
  BY <1>2, <1>3, CoveredGrows

LEMMA OtherInv ==
  ASSUME Typed, world' = world, Grows, NEW v \in Workers, Waits(v), WorkerInv(v)
  PROVE  WorkerInv(v)'
<1>1. /\ held[v] \in Seq(Copies) /\ ToSet(held[v]) \subseteq Copies
      /\ reqs[v] \in Seq(RequestType)
  BY ElementsOf DEF Typed
<1>2. PhaseOf(v)'
  BY SameFiles DEF WorkerInv, PhaseOf, Waits
<1>3. AskOf(v)'
  BY <1>1, CoveredGrows DEF WorkerInv, AskOf, Waits
<1>4. TwoCopies(v)' = TwoCopies(v)
  BY DEF TwoCopies, Waits
<1>5. HandledOf(v)'
  <2> SUFFICES ASSUME ~TwoCopies(v), NEW r \in seen[v], NEW c \in ToSet(held[v]),
                      c[1] = r.file, Uncut(c), ~Current(v, r)
               PROVE  Handled(c, r)'
    BY <1>4, SameFiles DEF HandledOf, Waits, Current
  <2>1. Handled(c, r)
    BY DEF WorkerInv, HandledOf
  <2> QED
    BY <1>1, <2>1, HandledGrows
<1>6. ReqsOf(v)'
  <2>1. ASSUME NEW n \in DOMAIN reqs[v], NEW c \in ToSet(held[v]), Fresh(v, n, c) PROVE Fresh(v, n, c)'
    <3>1. c \in Copies
      BY <1>1
    <3>2. copy[c].dirs = "ok" => copy'[c].dirs = "ok"
      BY <3>1 DEF Grows
    <3> QED
      BY <2>1, <3>2, SameFiles DEF Fresh, Waits
  <2> QED
    BY <1>4, <2>1 DEF WorkerInv, ReqsOf, Waits
<1>7. DecodeOf(v)'
  <2> SUFFICES ASSUME pc[v] = "decode"
               PROVE  LET c == Receiver(v) IN
                      /\ ~IsTin(c) /\ copy'[c].dirs = "ok"
                      /\ Data(c, Head(reqs[v]).range) \subseteq copy'[c].loaded
    <3>1. Receiver(v)' = Receiver(v)
      BY DEF Receiver, SelectInSeq, Waits
    <3> QED
      BY <3>1, SameFiles DEF DecodeOf, Waits
  <2> DEFINE c == Receiver(v)
  <2>1. reqs[v] # <<>>
    BY DEF WorkerInv, PhaseOf, Answering
  <2>2. c \in Copies
    BY <2>1, ReceiverFacts DEF WorkerInv
  <2>3. ~IsTin(c) /\ copy[c].dirs = "ok" /\ Data(c, Head(reqs[v]).range) \subseteq copy[c].loaded
    BY DEF WorkerInv, DecodeOf
  <2> HIDE DEF c
  <2>4. copy[c].loaded \subseteq copy'[c].loaded /\ copy'[c].dirs = copy[c].dirs
    BY <2>2, <2>3 DEF Grows
  <2> QED
    BY <2>3, <2>4 DEF c
<1>8. MissingOf(v)'
  BY <1>4 DEF WorkerInv, MissingOf, Waits
<1> QED
  BY <1>2, <1>3, <1>5, <1>6, <1>7, <1>8 DEF WorkerInv

-----------------------------------------------------------------------------
\* The steps.

LEMMA ThreadStep ==
  ASSUME GridsInv, NEW w \in Workers, world' = world, Grows,
         \A v \in Workers : v # w => Waits(v),
         Typed', DirsInv', GridsCover', WorkerInv(w)'
  PROVE  GridsInv'
<1>1. ASSUME NEW v \in Workers PROVE WorkerInv(v)'
  <2>1. CASE v = w
    BY <2>1
  <2>2. CASE v # w
    BY <2>2, OtherInv DEF GridsInv
  <2> QED
    BY <2>1, <2>2
<1> QED
  BY <1>1 DEF GridsInv

LEMMA SameCopies ==
  ASSUME GridsInv, world' = world, copy' = copy
  PROVE  Grows /\ DirsInv'
<1>1. Grows
  BY DEF Grows
<1>2. DirsInv'
  BY SameFiles DEF GridsInv, DirsInv
<1> QED
  BY <1>1, <1>2

\* What a thread has when its setup is over.
LEMMA LeaveFacts ==
  ASSUME Typed, NEW w \in Workers, Leave(w)
  PROVE  /\ key' = [key EXCEPT ![w] = NoKey] /\ ops' = [ops EXCEPT ![w] = <<>>]
         /\ todo' = [todo EXCEPT ![w] = <<>>] /\ reqs' = [reqs EXCEPT ![w] = <<>>]
         /\ seen' = [seen EXCEPT ![w] = {}]
         /\ writer' \in [Reads -> Workers \cup {Nobody}]
         /\ key' \in [Workers -> Keys \cup {NoKey}] /\ ops' \in [Workers -> Seq(Names)]
         /\ todo' \in [Workers -> Seq(Copies)] /\ reqs' \in [Workers -> Seq(RequestType)]
         /\ seen' \in [Workers -> SUBSET RequestType]
         /\ key'[w] = NoKey /\ ops'[w] = <<>> /\ todo'[w] = <<>> /\ reqs'[w] = <<>> /\ seen'[w] = {}
         /\ \A v \in Workers : v # w =>
               /\ key'[v] = key[v] /\ ops'[v] = ops[v] /\ todo'[v] = todo[v]
               /\ reqs'[v] = reqs[v] /\ seen'[v] = seen[v]
<1>1. /\ key' = [key EXCEPT ![w] = NoKey] /\ ops' = [ops EXCEPT ![w] = <<>>]
      /\ todo' = [todo EXCEPT ![w] = <<>>] /\ reqs' = [reqs EXCEPT ![w] = <<>>]
      /\ seen' = [seen EXCEPT ![w] = {}]
      /\ writer' = [writer EXCEPT ![ReadOf(w)] = Nobody]
  BY DEF Leave
<1>2. /\ key \in [Workers -> Keys \cup {NoKey}] /\ ops \in [Workers -> Seq(Names)]
      /\ todo \in [Workers -> Seq(Copies)] /\ reqs \in [Workers -> Seq(RequestType)]
      /\ seen \in [Workers -> SUBSET RequestType]
      /\ writer \in [Reads -> Workers \cup {Nobody}]
  BY DEF Typed
<1>3. <<>> \in Seq(Names) /\ <<>> \in Seq(Copies) /\ <<>> \in Seq(RequestType)
  OBVIOUS
<1>4. writer' \in [Reads -> Workers \cup {Nobody}]
  BY <1>1, <1>2
<1>5. /\ key' \in [Workers -> Keys \cup {NoKey}] /\ ops' \in [Workers -> Seq(Names)]
      /\ todo' \in [Workers -> Seq(Copies)] /\ reqs' \in [Workers -> Seq(RequestType)]
      /\ seen' \in [Workers -> SUBSET RequestType]
  BY <1>1, <1>2, <1>3
<1> QED
  BY <1>1, <1>2, <1>4, <1>5

LEMMA FailInv ==
  ASSUME GridsInv, NEW w \in Workers, NEW why \in ErrorType, Fail(w, why),
         why[1] = "missing" /\ ~TwoCopies(w) =>
             world.files[why[2]].size < world.files[why[2]].full,
         world' = world, gen' = gen, Grows, copy' \in [Copies -> CopyType], DirsInv'
  PROVE  GridsInv'
<1>1. Typed /\ WorkerInv(w)
  BY DEF GridsInv
<1>2. /\ Leave(w) /\ pc' = [pc EXCEPT ![w] = "failed"] /\ err' = [err EXCEPT ![w] = why]
      /\ setups' = setups /\ held' = held
  BY DEF Fail, Goto
<1>3. /\ pc'[w] = "failed" /\ err'[w] = why /\ held'[w] = held[w]
      /\ \A v \in Workers : v # w => pc'[v] = pc[v] /\ err'[v] = err[v] /\ held'[v] = held[v]
  BY <1>1, <1>2 DEF Typed
<1>4. \A v \in Workers : v # w => Waits(v)
  BY <1>1, <1>2, <1>3, LeaveFacts DEF Waits
<1>5. Typed'
  <2>1. pc' \in [Workers -> {"idle", "write", "register", "failed"} \cup Loading]
        /\ err' \in [Workers -> ErrorType]
    BY <1>1, <1>2 DEF Typed
  <2>2. ErrorType' = ErrorType /\ RequestType' = RequestType /\ SetupType' = SetupType
    BY SameFiles DEF ErrorType, RequestType, SetupType
  <2> QED
    BY <1>1, <1>2, <2>1, <2>2, LeaveFacts, SameFiles DEF Typed, CopyType
<1>6. GridsCover'
  BY <1>1, <1>2, CoverGrows DEF GridsInv
<1>7. TwoCopies(w)' = TwoCopies(w)
  BY <1>3 DEF TwoCopies
<1>8. WorkerInv(w)'
  <2>1. PhaseOf(w)' /\ AskOf(w)' /\ HandledOf(w)' /\ DecodeOf(w)'
    BY <1>1, <1>3, LeaveFacts, <1>2 DEF PhaseOf, AskOf, HandledOf, DecodeOf, Loading, Asking, Answering
  <2>2. ReqsOf(w)'
    <3>1. todo'[w] = <<>> /\ reqs'[w] = <<>>
      BY <1>1, <1>2, LeaveFacts
    <3>2. IsInjective(held[w])
      BY <1>1 DEF WorkerInv, ReqsOf
    <3>3. IsInjective(<<>>) /\ ToSet(<<>>) = {} /\ DOMAIN <<>> = {}
      BY DEF IsInjective, ToSet
    <3> QED
      BY <1>3, <3>1, <3>2, <3>3 DEF ReqsOf
  <2>3. MissingOf(w)'
    BY <1>3, <1>7 DEF MissingOf
  <2> QED
    BY <2>1, <2>2, <2>3 DEF WorkerInv
<1> QED
  BY <1>4, <1>5, <1>6, <1>8, ThreadStep

\* A setup recorded as ready covers what it needs.
LEMMA RecordInv ==
  ASSUME GridsInv, NEW w \in Workers, pc[w] \notin {"idle", "failed"},
         NEW setup \in SetupType, Record(w, setup),
         setup.state = "ready" => \A n \in DOMAIN setup.held : Covered(key[w], setup.held[n]),
         UNCHANGED <<world, gen, copy>>
  PROVE  GridsInv'
<1>1. Typed /\ WorkerInv(w)
  BY DEF GridsInv
<1>2. /\ Leave(w) /\ pc' = [pc EXCEPT ![w] = "idle"] /\ err' = err
      /\ setups' = [setups EXCEPT ![ReadOf(w)][key[w]] = setup]
      /\ held' = [held EXCEPT ![w] = <<>>]
  BY DEF Record, Goto
<1>3. /\ pc'[w] = "idle" /\ err'[w] = err[w] /\ held'[w] = <<>>
      /\ \A v \in Workers : v # w => pc'[v] = pc[v] /\ err'[v] = err[v] /\ held'[v] = held[v]
  BY <1>1, <1>2 DEF Typed
<1>4. \A v \in Workers : v # w => Waits(v)
  BY <1>1, <1>2, <1>3, LeaveFacts DEF Waits
<1>5. Grows /\ DirsInv'
  BY SameCopies
<1>6. key[w] \in Keys /\ ReadOf(w) \in Reads
  BY <1>1, WorldFacts DEF WorkerInv, PhaseOf, ReadOf
<1>7. setups' \in [Reads -> [Keys -> SetupType]]
  BY <1>1, <1>2, <1>6 DEF Typed
<1>8. Typed'
  <2>1. pc' \in [Workers -> {"idle", "write", "register", "failed"} \cup Loading]
        /\ held' \in [Workers -> Seq(Copies)]
    BY <1>1, <1>2 DEF Typed
  <2>2. ErrorType' = ErrorType /\ RequestType' = RequestType /\ SetupType' = SetupType
    BY SameFiles DEF ErrorType, RequestType, SetupType
  <2> QED
    BY <1>1, <1>2, <1>7, <2>1, <2>2, LeaveFacts, SameFiles DEF Typed, CopyType
<1>9. GridsCover'
  <2> SUFFICES ASSUME NEW r \in Reads, NEW k \in Keys, setups'[r][k].state = "ready",
                      NEW n \in DOMAIN setups'[r][k].held
               PROVE  Covered(k, setups'[r][k].held[n])
    BY SameFiles DEF GridsCover, Covered
  <2>1. CASE r = ReadOf(w) /\ k = key[w]
    <3>1. setups'[r][k] = setup
      BY <1>1, <1>2, <2>1 DEF Typed
    <3> QED
      BY <2>1, <3>1
  <2>2. CASE ~(r = ReadOf(w) /\ k = key[w])
    <3>1. setups'[r][k] = setups[r][k]
      BY <1>1, <1>2, <2>2 DEF Typed
    <3> QED
      BY <3>1 DEF GridsInv, GridsCover, Covered
  <2> QED
    BY <2>1, <2>2
<1>10. WorkerInv(w)'
  <2>1. /\ key'[w] = NoKey /\ ops'[w] = <<>> /\ todo'[w] = <<>> /\ reqs'[w] = <<>> /\ seen'[w] = {}
    BY <1>1, <1>2, LeaveFacts
  <2>2. PhaseOf(w)' /\ AskOf(w)' /\ HandledOf(w)' /\ DecodeOf(w)' /\ MissingOf(w)'
    BY <1>1, <1>3, <2>1 DEF WorkerInv, PhaseOf, AskOf, HandledOf, DecodeOf, MissingOf,
                            Loading, Asking, Answering
  <2>3. ReqsOf(w)'
    <3>1. IsInjective(<<>>) /\ ToSet(<<>>) = {} /\ DOMAIN <<>> = {}
      BY DEF IsInjective, ToSet
    <3> QED
      BY <1>3, <2>1, <3>1 DEF ReqsOf
  <2> QED
    BY <2>2, <2>3 DEF WorkerInv
<1> QED
  BY <1>4, <1>5, <1>8, <1>9, <1>10, ThreadStep

LEMMA ReadSetupsInv == ASSUME GridsInv, NEW w \in Workers, ReadSetups(w) PROVE GridsInv'
<1>1. Typed /\ WorkerInv(w)
  BY DEF GridsInv
<1>2. /\ pc[w] = "idle" /\ pc' = [pc EXCEPT ![w] = "write"]
      /\ UNCHANGED <<world, gen, copy, setups, writer, held, ops, todo, reqs, seen, err>>
  BY DEF ReadSetups, Goto, sharedVars, readVars
<1>3. PICK k \in Keys : key' = [key EXCEPT ![w] = k]
  BY DEF ReadSetups
<1>4. Grows /\ DirsInv'
  BY <1>2, SameCopies
<1>5. pc'[w] = "write" /\ key'[w] = k /\ \A v \in Workers : v # w => Waits(v)
  BY <1>1, <1>2, <1>3 DEF Typed, Waits
<1>6. Typed'
  <2>1. pc' \in [Workers -> {"idle", "write", "register", "failed"} \cup Loading]
        /\ key' \in [Workers -> Keys \cup {NoKey}]
    BY <1>1, <1>2, <1>3 DEF Typed
  <2>2. ErrorType' = ErrorType /\ RequestType' = RequestType /\ SetupType' = SetupType
    BY <1>2, SameFiles DEF ErrorType, RequestType, SetupType
  <2> QED
    BY <1>1, <1>2, <2>1, <2>2, SameFiles DEF Typed, CopyType
<1>7. GridsCover'
  BY <1>1, <1>2, <1>4, CoverGrows DEF GridsInv
<1>8. WorkerInv(w)'
  <2>1. PhaseOf(w)'
    BY <1>1, <1>2, <1>5, SameFiles DEF WorkerInv, PhaseOf, Loading, Asking, Answering
  <2>2. AskOf(w)' /\ DecodeOf(w)'
    BY <1>5 DEF AskOf, DecodeOf, Asking
  <2>3. HandledOf(w)' /\ ReqsOf(w)' /\ MissingOf(w)'
    <3>1. reqs[w] = <<>> /\ seen[w] = {}
      BY <1>1, <1>2 DEF WorkerInv, PhaseOf, Loading, Asking, Answering
    <3>2. TwoCopies(w)' = TwoCopies(w)
      BY <1>2 DEF TwoCopies
    <3> QED
      BY <1>1, <1>2, <1>5, <3>1, <3>2 DEF WorkerInv, HandledOf, ReqsOf, MissingOf, Asking
  <2> QED
    BY <2>1, <2>2, <2>3 DEF WorkerInv
<1> QED
  BY <1>2, <1>4, <1>5, <1>6, <1>7, <1>8, ThreadStep

LEMMA WriteSetupsInv == ASSUME GridsInv, NEW w \in Workers, WriteSetups(w) PROVE GridsInv'
<1> DEFINE source == world.keys[key[w]]
<1>1. Typed /\ WorkerInv(w)
  BY DEF GridsInv
<1>2. /\ pc[w] = "write" /\ UNCHANGED <<world, gen, copy>>
      /\ \/ Leave(w) /\ Goto(w, "idle") /\ UNCHANGED <<setups, held, err>>
         \/ ~source.ok /\ Record(w, [state |-> "failed", held |-> <<>>])
         \/ /\ writer' = [writer EXCEPT ![ReadOf(w)] = w]
            /\ ops' = [ops EXCEPT ![w] = source.grids]
            /\ Goto(w, IF source.grids = <<>> THEN "ask" ELSE "register")
            /\ UNCHANGED <<setups, key, held, todo, reqs, seen, err>>
  BY DEF WriteSetups, sharedVars
<1>3. /\ held[w] = <<>> /\ reqs[w] = <<>> /\ seen[w] = {} /\ todo[w] = <<>>
      /\ err[w] = <<"none">> /\ key[w] \in Keys
  BY <1>1, <1>2 DEF WorkerInv, PhaseOf, Loading, Asking, Answering
<1>4. Grows /\ DirsInv'
  BY <1>2, SameCopies
<1>5. IsInjective(<<>>) /\ ToSet(<<>>) = {} /\ DOMAIN <<>> = {}
  BY DEF IsInjective, ToSet
<1>6. ErrorType' = ErrorType /\ RequestType' = RequestType /\ SetupType' = SetupType
  BY <1>2, SameFiles DEF ErrorType, RequestType, SetupType
\* A worker without requests and copies keeps what there is of the invariant.
<1>7. ASSUME held'[w] = <<>>, todo'[w] = <<>>, reqs'[w] = <<>>, seen'[w] = {}, err'[w] = <<"none">>,
             \/ pc'[w] = "idle"
             \/ key'[w] = key[w] /\ pc'[w] = "ask"
             \/ key'[w] = key[w] /\ pc'[w] = "register" /\ ops'[w] # <<>>
      PROVE  WorkerInv(w)'
  <2>1. PhaseOf(w)'
    BY <1>2, <1>3, <1>7, SameFiles DEF PhaseOf, Loading, Asking, Answering
  <2>2. AskOf(w)' /\ DecodeOf(w)' /\ HandledOf(w)' /\ ReqsOf(w)' /\ MissingOf(w)'
    BY <1>5, <1>7 DEF AskOf, DecodeOf, HandledOf, ReqsOf, MissingOf
  <2> QED
    BY <2>1, <2>2 DEF WorkerInv
<1>8. CASE Leave(w) /\ Goto(w, "idle") /\ UNCHANGED <<setups, held, err>>
  <2>1. pc' = [pc EXCEPT ![w] = "idle"]
    BY <1>8 DEF Goto
  <2>2. /\ pc'[w] = "idle" /\ \A v \in Workers : v # w => pc'[v] = pc[v]
        /\ pc' \in [Workers -> {"idle", "write", "register", "failed"} \cup Loading]
    BY <1>1, <2>1 DEF Typed
  <2>3. \A v \in Workers : v # w => Waits(v)
    BY <1>1, <1>8, <2>2, LeaveFacts DEF Waits
  <2>4. Typed'
    BY <1>1, <1>2, <1>6, <1>8, <2>2, LeaveFacts, SameFiles DEF Typed, CopyType
  <2>5. GridsCover'
    BY <1>1, <1>2, <1>4, <1>8, CoverGrows DEF GridsInv
  <2>6. WorkerInv(w)'
    BY <1>1, <1>3, <1>7, <1>8, <2>2, LeaveFacts
  <2> QED
    BY <1>2, <1>4, <2>3, <2>4, <2>5, <2>6, ThreadStep
<1>9. CASE Record(w, [state |-> "failed", held |-> <<>>])
  <2> DEFINE setup == [state |-> "failed", held |-> <<>>]
  <2>1. setup \in SetupType /\ setup.state # "ready"
    BY DEF SetupType
  <2> HIDE DEF setup
  <2>2. Record(w, setup)
    BY <1>9 DEF setup
  <2> QED
    BY <1>2, <2>1, <2>2, RecordInv
<1>10. CASE /\ writer' = [writer EXCEPT ![ReadOf(w)] = w]
            /\ ops' = [ops EXCEPT ![w] = source.grids]
            /\ Goto(w, IF source.grids = <<>> THEN "ask" ELSE "register")
            /\ UNCHANGED <<setups, key, held, todo, reqs, seen, err>>
  <2>1. source.grids \in Seq(Names)
    <3>1. source \in KeyType(world.files)
      BY <1>1, <1>3, WorldFacts
    <3> QED
      BY <3>1 DEF KeyType, Names
  <2> HIDE DEF source
  <2>2. pc' = [pc EXCEPT ![w] = IF source.grids = <<>> THEN "ask" ELSE "register"]
    BY <1>10 DEF Goto
  <2>3. /\ pc'[w] = (IF source.grids = <<>> THEN "ask" ELSE "register") /\ ops'[w] = source.grids
        /\ \A v \in Workers : v # w => pc'[v] = pc[v] /\ ops'[v] = ops[v]
        /\ pc' \in [Workers -> {"idle", "write", "register", "failed"} \cup Loading]
        /\ ops' \in [Workers -> Seq(Names)]
        /\ writer' \in [Reads -> Workers \cup {Nobody}]
    BY <1>1, <1>10, <2>1, <2>2 DEF Typed, Loading, Asking
  <2>4. \A v \in Workers : v # w => Waits(v)
    BY <1>10, <2>3 DEF Waits
  <2>5. Typed'
    BY <1>1, <1>2, <1>6, <1>10, <2>3, SameFiles DEF Typed, CopyType
  <2>6. GridsCover'
    BY <1>1, <1>2, <1>4, <1>10, CoverGrows DEF GridsInv
  <2>7. WorkerInv(w)'
    BY <1>3, <1>7, <1>10, <2>3
  <2> QED
    BY <1>2, <1>4, <2>4, <2>5, <2>6, <2>7, ThreadStep
<1> QED
  BY <1>2, <1>8, <1>9, <1>10

LEMMA RegisterInv == ASSUME GridsInv, NEW w \in Workers, Register(w) PROVE GridsInv'
<1> DEFINE c == <<Head(ops[w]), gen>>
           copies == IF Contains(held[w], c) THEN held[w] ELSE Append(held[w], c)
           last == Len(ops[w]) = 1
<1>1. Typed /\ WorkerInv(w)
  BY DEF GridsInv
<1>2. /\ pc[w] = "register"
      /\ held' = [held EXCEPT ![w] = copies] /\ ops' = [ops EXCEPT ![w] = Tail(@)]
      /\ todo' = [todo EXCEPT ![w] = IF last THEN copies ELSE @]
      /\ pc' = [pc EXCEPT ![w] = IF last THEN "ask" ELSE "register"]
      /\ UNCHANGED <<world, gen, copy, setups, writer, key, reqs, seen, err>>
  BY DEF Register, Goto, sharedVars, readVars
<1>3. /\ reqs[w] = <<>> /\ seen[w] = {} /\ todo[w] = <<>> /\ ops[w] # <<>>
      /\ err[w] = <<"none">> /\ key[w] \in Keys
  BY <1>1, <1>2 DEF WorkerInv, PhaseOf, Loading, Asking, Answering
<1>4. Grows /\ DirsInv'
  BY <1>2, SameCopies
<1>5. IsInjective(<<>>) /\ ToSet(<<>>) = {} /\ DOMAIN <<>> = {}
  BY DEF IsInjective, ToSet
<1>6. ErrorType' = ErrorType /\ RequestType' = RequestType /\ SetupType' = SetupType
  BY <1>2, SameFiles DEF ErrorType, RequestType, SetupType
<1>7. c \in Copies /\ Tail(ops[w]) \in Seq(Names) /\ (~last => Tail(ops[w]) # <<>>)
  <2>1. ops[w] \in Seq(Names) /\ gen \in 0 .. world.clears
    BY <1>1 DEF Typed
  <2>2. Head(ops[w]) \in Names
    BY <1>3, <2>1
  <2>3. c \in Copies
    BY <2>1, <2>2 DEF Copies, Names
  <2>4. Tail(ops[w]) \in Seq(Names) /\ (Len(ops[w]) # 1 => Tail(ops[w]) # <<>>)
    <3> DEFINE o == ops[w]
    <3>1. o \in Seq(Names) /\ o # <<>>
      BY <1>3, <2>1
    <3> HIDE DEF o
    <3>2. Len(o) \in Nat \ {0} /\ Tail(o) \in Seq(Names) /\ Len(Tail(o)) = Len(o) - 1
      BY <3>1
    <3>3. Len(<<>>) = 0
      OBVIOUS
    <3>4. Len(o) # 1 => Tail(o) # <<>>
      <4>1. SUFFICES ASSUME Len(o) # 1, Tail(o) = <<>> PROVE FALSE
        OBVIOUS
      <4>2. Len(Tail(o)) # 0
        BY <3>2, <4>1
      <4>3. Len(Tail(o)) = Len(<<>>)
        BY <4>1, Zenon
      <4> QED
        BY <3>3, <4>2, <4>3
    <3> QED
      BY <3>2, <3>4 DEF o
  <2> QED
    BY <2>3, <2>4
<1>8. copies \in Seq(Copies) /\ IsInjective(copies)
  <2> DEFINE h == held[w]
  <2>1. h \in Seq(Copies) /\ IsInjective(h)
    BY <1>1 DEF Typed, WorkerInv, ReqsOf
  <2> HIDE DEF h, c
  <2>2. CASE Contains(h, c)
    BY <2>1, <2>2 DEF h
  <2>3. CASE ~Contains(h, c)
    <3>1. Append(h, c) \in Seq(Copies) /\ Len(Append(h, c)) = Len(h) + 1 /\ Len(h) \in Nat
          /\ DOMAIN Append(h, c) = 1 .. Len(h) + 1 /\ DOMAIN h = 1 .. Len(h)
          /\ \A n \in 1 .. Len(h) : Append(h, c)[n] = h[n] /\ h[n] # c
          /\ Append(h, c)[Len(h) + 1] = c
      BY <1>7, <2>1, <2>3 DEF Contains
    <3>2. IsInjective(Append(h, c))
      BY <2>1, <3>1 DEF IsInjective
    <3> QED
      BY <2>3, <3>1, <3>2 DEF h
  <2> QED
    BY <2>2, <2>3
<1> HIDE DEF copies, c
<1>9. /\ held'[w] = copies /\ ops'[w] = Tail(ops[w]) /\ todo'[w] = IF last THEN copies ELSE <<>>
      /\ pc'[w] = IF last THEN "ask" ELSE "register"
      /\ held' \in [Workers -> Seq(Copies)] /\ todo' \in [Workers -> Seq(Copies)]
      /\ ops' \in [Workers -> Seq(Names)]
      /\ pc' \in [Workers -> {"idle", "write", "register", "failed"} \cup Loading]
  BY <1>1, <1>2, <1>3, <1>7, <1>8 DEF Typed, Loading, Asking
<1>10. \A v \in Workers : v # w => Waits(v)
  BY <1>1, <1>2 DEF Typed, Waits
<1>11. Typed'
  BY <1>1, <1>2, <1>6, <1>9, SameFiles DEF Typed, CopyType
<1>12. GridsCover'
  BY <1>1, <1>2, <1>4, CoverGrows DEF GridsInv
<1>13. WorkerInv(w)'
  <2>1. PhaseOf(w)'
    BY <1>2, <1>3, <1>7, <1>9, SameFiles DEF PhaseOf, Loading, Asking, Answering
  <2>2. AskOf(w)' /\ DecodeOf(w)' /\ HandledOf(w)' /\ MissingOf(w)'
    BY <1>2, <1>3, <1>9 DEF AskOf, DecodeOf, HandledOf, MissingOf, Asking
  <2>3. ReqsOf(w)'
    BY <1>2, <1>3, <1>5, <1>8, <1>9 DEF ReqsOf
  <2> QED
    BY <2>1, <2>2, <2>3 DEF WorkerInv
<1> QED
  BY <1>2, <1>4, <1>10, <1>11, <1>12, <1>13, ThreadStep

-----------------------------------------------------------------------------
\* The requests of a round.

\* The elements of a sequence that is two in a row.
IsJoin(u, s, t) ==
  /\ u = <<>> => s = <<>> /\ t = <<>>
  /\ \A n \in DOMAIN u :
        \/ n \in 1 .. Len(s) /\ u[n] = s[n]
        \/ \E m \in 1 .. Len(t) : n = Len(s) + m /\ u[n] = t[m]

LEMMA Joined ==
  ASSUME NEW S, NEW s \in Seq(S), NEW t \in Seq(S)
  PROVE  s \o t \in Seq(S) /\ IsJoin(s \o t, s, t)
<1> DEFINE u == s \o t
<1>1. Len(s) \in Nat /\ Len(t) \in Nat
  OBVIOUS
<1>2. u \in Seq(S) /\ Len(u) = Len(s) + Len(t) /\ DOMAIN u = 1 .. Len(s) + Len(t)
  OBVIOUS
<1>3. ASSUME NEW n \in 1 .. Len(s) PROVE u[n] = s[n]
  OBVIOUS
<1>4. ASSUME NEW m \in 1 .. Len(t) PROVE u[Len(s) + m] = t[m]
  OBVIOUS
<1> HIDE DEF u
<1>5. ASSUME u = <<>> PROVE s = <<>> /\ t = <<>>
  <2>1. Len(s) = 0 /\ Len(t) = 0
    BY <1>1, <1>2, <1>5
  <2> QED
    BY <2>1
<1>6. ASSUME NEW n \in 1 .. Len(s) + Len(t), n \notin 1 .. Len(s)
      PROVE  n - Len(s) \in 1 .. Len(t) /\ n = Len(s) + (n - Len(s))
  BY <1>1, <1>6
<1> QED
  BY <1>2, <1>3, <1>4, <1>5, <1>6 DEF u, IsJoin

LEMMA AnswerInv ==
  ASSUME GridsInv, NEW w \in Workers, pc[w] \in Asking, todo[w] # <<>>,
         NEW c, c = Head(todo[w]), NEW ranges \in Seq(Nat \X Nat), Answer(w, c, ranges),
         ranges = <<>> => Covered(key[w], c),
         \A m, n \in DOMAIN ranges : ranges[m] = ranges[n] => m = n,
         \A n \in DOMAIN ranges : LET r == [file |-> c[1], range |-> ranges[n]] IN
             /\ ~IsTin(c) /\ AtBlock(c, r) => copy[c].dirs = "ok"
             /\ ~TwoCopies(w) /\ Uncut(c) => r \notin seen[w],
         UNCHANGED <<world, gen, copy, setups, writer, key, held, ops, seen, err>>
  PROVE  GridsInv'
<1> DEFINE more == [n \in DOMAIN ranges |-> [file |-> c[1], range |-> ranges[n]]]
           old == reqs[w]
           all == old \o more
           left == Tail(todo[w])
<1>1. Typed /\ WorkerInv(w)
  BY DEF GridsInv
<1>2. /\ reqs' = [reqs EXCEPT ![w] = all] /\ todo' = [todo EXCEPT ![w] = left]
      /\ pc' = [pc EXCEPT ![w] = "ask"]
  BY DEF Answer, Goto
<1>3. old \in Seq(RequestType) /\ todo[w] \in Seq(Copies) /\ held[w] \in Seq(Copies)
  BY <1>1 DEF Typed
<1>4. /\ c \in Copies /\ c \in ToSet(todo[w]) /\ c \in ToSet(held[w])
      /\ left \in Seq(Copies) /\ IsInjective(left)
      /\ ToSet(left) \subseteq ToSet(todo[w]) /\ c \notin ToSet(left)
      /\ \A x \in ToSet(todo[w]) : x = c \/ x \in ToSet(left)
  <2> DEFINE t == todo[w]
  <2>1. t \in Seq(Copies) /\ t # <<>> /\ IsInjective(t) /\ ToSet(t) \subseteq ToSet(held[w])
    BY <1>1, <1>3 DEF WorkerInv, ReqsOf
  <2> HIDE DEF t
  <2>2. /\ Len(t) \in Nat \ {0} /\ DOMAIN t = 1 .. Len(t) /\ Head(t) = t[1]
        /\ Tail(t) \in Seq(Copies) /\ Len(Tail(t)) = Len(t) - 1
        /\ DOMAIN Tail(t) = 1 .. Len(t) - 1
        /\ \A n \in 1 .. Len(t) - 1 : Tail(t)[n] = t[n + 1]
    BY <2>1
  <2>3. \A m, n \in 1 .. Len(t) : t[m] = t[n] => m = n
    BY <2>1, <2>2 DEF IsInjective
  <2>4. IsInjective(Tail(t))
    BY <2>2, <2>3 DEF IsInjective
  <2>5. /\ \A x : x \in ToSet(t) <=> \E n \in 1 .. Len(t) : t[n] = x
        /\ \A x : x \in ToSet(Tail(t)) <=> \E n \in 1 .. Len(t) - 1 : Tail(t)[n] = x
    BY <2>2 DEF ToSet
  <2>6. t[1] \in ToSet(t) /\ t[1] \in Copies
    BY <2>1, <2>2, <2>5
  <2>7. ToSet(Tail(t)) \subseteq ToSet(t)
    BY <2>2, <2>5
  <2>8. t[1] \notin ToSet(Tail(t))
    BY <2>2, <2>3, <2>5
  <2>9. ASSUME NEW x \in ToSet(t), x # t[1] PROVE x \in ToSet(Tail(t))
    <3>1. PICK n \in 1 .. Len(t) : t[n] = x
      BY <2>5
    <3>2. n - 1 \in 1 .. Len(t) - 1 /\ Tail(t)[n - 1] = x
      BY <2>2, <2>9, <3>1
    <3> QED
      BY <2>5, <3>2
  <2>10. c = t[1]
    BY <2>2 DEF t
  <2> QED
    BY <2>1, <2>2, <2>4, <2>6, <2>7, <2>8, <2>9, <2>10 DEF t
<1>5. more \in Seq(RequestType) /\ Len(more) = Len(ranges) /\ Len(ranges) \in Nat
      /\ DOMAIN ranges = 1 .. Len(ranges) /\ (ranges # <<>> => Len(more) # 0)
  <2>1. c[1] \in Names
    BY <1>1, <1>4, FileFacts
  <2>2. DOMAIN ranges = 1 .. Len(ranges) /\ Len(ranges) \in Nat
    OBVIOUS
  <2>3. more \in [1 .. Len(ranges) -> RequestType]
    BY <2>1, <2>2 DEF RequestType
  <2>4. more \in Seq(RequestType) /\ Len(more) = Len(ranges)
    <3> HIDE DEF more
    <3> QED
      BY <2>2, <2>3, FunctionIsSeq
  <2> QED
    BY <2>2, <2>4
<1>6. \A n \in 1 .. Len(ranges) : more[n].file = c[1] /\ more[n].range = ranges[n]
                                  /\ more[n] = [file |-> c[1], range |-> ranges[n]]
  BY <1>5
<1>7. \A m, n \in 1 .. Len(ranges) : more[m] = more[n] => m = n
  BY <1>5, <1>6
<1> HIDE DEF more
<1>8. /\ Len(old) \in Nat /\ DOMAIN old = 1 .. Len(old)
      /\ all \in Seq(RequestType)
      /\ all = <<>> => ranges = <<>> /\ old = <<>>
      /\ \A n \in DOMAIN all :
            \/ n \in DOMAIN old /\ all[n] = old[n]
            \/ \E m \in DOMAIN ranges : n = Len(old) + m /\ all[n] = more[m]
  <2>1. all \in Seq(RequestType) /\ IsJoin(all, old, more)
    BY <1>3, <1>5, Joined
  <2> HIDE DEF old, all
  <2>2. Len(old) \in Nat /\ DOMAIN old = 1 .. Len(old)
    BY <1>3
  <2>3. more = <<>> => ranges = <<>>
    BY <1>5
  <2> QED
    BY <1>5, <2>1, <2>2, <2>3 DEF IsJoin
<1> HIDE DEF all, left
<1>9. reqs'[w] = all /\ todo'[w] = left /\ pc'[w] = "ask" /\ \A v \in Workers : v # w => Waits(v)
  BY <1>1, <1>2 DEF Typed, Waits
<1>10. Grows /\ DirsInv'
  BY SameCopies
<1>11. Typed'
  <2>1. /\ reqs' \in [Workers -> Seq(RequestType)] /\ todo' \in [Workers -> Seq(Copies)]
        /\ pc' \in [Workers -> {"idle", "write", "register", "failed"} \cup Loading]
    BY <1>1, <1>2, <1>4, <1>8 DEF Typed, Loading, Asking
  <2>2. ErrorType' = ErrorType /\ RequestType' = RequestType /\ SetupType' = SetupType
    BY SameFiles DEF ErrorType, RequestType, SetupType
  <2> QED
    BY <1>1, <2>1, <2>2, SameFiles DEF Typed, CopyType
<1>12. GridsCover'
  BY <1>1, <1>10, CoverGrows DEF GridsInv
<1>13. PhaseOf(w)'
  BY <1>1, <1>9, SameFiles DEF WorkerInv, PhaseOf, Asking, Answering, Loading
<1>14. AskOf(w)'
  <2> SUFFICES ASSUME NEW x \in ToSet(held[w]), x \notin ToSet(left), all = <<>>
               PROVE  Covered(key[w], x)
    BY <1>9 DEF AskOf, Covered
  <2>1. old = <<>> /\ ranges = <<>>
    BY <1>8
  <2>2. CASE x = c
    BY <2>1, <2>2
  <2>3. CASE x # c
    BY <1>1, <1>4, <2>1, <2>3 DEF WorkerInv, AskOf
  <2> QED
    BY <2>2, <2>3
<1>15. TwoCopies(w)' = TwoCopies(w)
  BY DEF TwoCopies
<1>16. HandledOf(w)'
  <2>1. \A x \in Copies : \A r : Handled(x, r) => Handled(x, r)'
    BY <1>10, HandledGrows
  <2>2. ToSet(held[w]) \subseteq Copies
    BY <1>3, ElementsOf
  <2>3. \A r : ~Current(w, r)
    BY DEF Current, Asking, Answering
  <2> QED
    BY <1>1, <1>15, <2>1, <2>2, <2>3, SameFiles DEF WorkerInv, HandledOf
<1>17. ReqsOf(w)'
  <2> DEFINE Old(n) == n \in DOMAIN old /\ all[n] = reqs[w][n]
             New(n, m) == /\ m \in DOMAIN ranges /\ n = Len(old) + m /\ all[n] = more[m]
                          /\ all[n].file = c[1] /\ all[n] = [file |-> c[1], range |-> ranges[m]]
  <2>0. ASSUME NEW n \in DOMAIN all PROVE Old(n) \/ \E m : New(n, m)
    <3>1. CASE n \in DOMAIN old /\ all[n] = old[n]
      BY <3>1
    <3>2. CASE \E m \in DOMAIN ranges : n = Len(old) + m /\ all[n] = more[m]
      <4>1. PICK m \in DOMAIN ranges : n = Len(old) + m /\ all[n] = more[m]
        BY <3>2
      <4>2. more[m] = [file |-> c[1], range |-> ranges[m]]
        BY <1>5, <1>6
      <4> QED
        BY <4>1, <4>2
    <3> QED
      BY <1>8, <3>1, <3>2
  <2>1. ASSUME NEW n \in DOMAIN all PROVE \E x \in ToSet(held[w]) : x[1] = all[n].file
    <3>1. CASE Old(n)
      BY <1>1, <3>1 DEF WorkerInv, ReqsOf
    <3>2. CASE \E m : New(n, m)
      BY <1>4, <3>2
    <3> QED
      BY <2>0, <3>1, <3>2
  <2>2. ASSUME ~TwoCopies(w) PROVE IsInjective(all)
    <3>1. \A n \in DOMAIN old : old[n].file # c[1]
      BY <1>1, <1>4, <2>2 DEF WorkerInv, ReqsOf
    <3>2. \A m, n \in DOMAIN old : old[m] = old[n] => m = n
      BY <1>1, <2>2 DEF WorkerInv, ReqsOf, IsInjective
    <3>3. ASSUME NEW m \in DOMAIN all, NEW n \in DOMAIN all, all[m] = all[n] PROVE m = n
      <4>1. CASE Old(m) /\ Old(n)
        BY <3>2, <3>3, <4>1
      <4>2. CASE (\E i : New(m, i)) /\ (\E j : New(n, j))
        <5>1. PICK i, j : New(m, i) /\ New(n, j)
          BY <4>2
        <5>2. i = j
          BY <1>5, <1>7, <3>3, <5>1
        <5> QED
          BY <5>1, <5>2
      <4>3. CASE Old(m) /\ (\E j : New(n, j))
        BY <3>1, <3>3, <4>3
      <4>4. CASE (\E i : New(m, i)) /\ Old(n)
        BY <3>1, <3>3, <4>4
      <4> QED
        BY <2>0, <4>1, <4>2, <4>3, <4>4
    <3> QED
      BY <3>3 DEF IsInjective
  <2>3. ASSUME ~TwoCopies(w), NEW n \in DOMAIN all, NEW x \in ToSet(left) PROVE x[1] # all[n].file
    <3>1. CASE Old(n)
      BY <1>1, <1>4, <2>3, <3>1 DEF WorkerInv, ReqsOf
    <3>2. CASE \E m : New(n, m)
      <4>1. all[n].file = c[1]
        BY <3>2
      <4>2. x # c /\ x \in ToSet(held[w])
        BY <1>1, <1>4 DEF WorkerInv, ReqsOf
      <4> QED
        BY <1>4, <2>3, <4>1, <4>2 DEF TwoCopies
    <3> QED
      BY <2>0, <3>1, <3>2
  <2>4. ASSUME ~TwoCopies(w), NEW n \in DOMAIN all, NEW x \in ToSet(held[w]), x[1] = all[n].file
        PROVE  /\ ~IsTin(x) /\ AtBlock(x, all[n]) => copy[x].dirs = "ok"
               /\ Uncut(x) => all[n] \notin seen[w]
    <3>1. CASE Old(n)
      <4>1. Fresh(w, n, x)
        BY <1>1, <2>4, <3>1 DEF WorkerInv, ReqsOf
      <4> QED
        BY <3>1, <4>1 DEF Fresh, Asking, Answering
    <3>2. CASE \E m : New(n, m)
      <4>1. PICK m : New(n, m)
        BY <3>2
      <4>2. x = c
        BY <1>4, <2>4, <4>1 DEF TwoCopies
      <4>3. /\ ~IsTin(c) /\ AtBlock(c, all[n]) => copy[c].dirs = "ok"
            /\ Uncut(c) => all[n] \notin seen[w]
        BY <2>4, <4>1
      <4> QED
        BY <4>2, <4>3
    <3> QED
      BY <2>0, <3>1, <3>2
  <2>5. ASSUME ~TwoCopies(w), NEW n \in DOMAIN all, NEW x \in ToSet(held[w]), x[1] = all[n].file
        PROVE  Fresh(w, n, x)'
    BY <1>9, <2>4, <2>5, SameFiles DEF Fresh
  <2>6. ToSet(left) \subseteq ToSet(held[w]) /\ IsInjective(held[w])
    BY <1>1, <1>4 DEF WorkerInv, ReqsOf
  <2> QED
    BY <1>4, <1>9, <1>15, <2>1, <2>2, <2>3, <2>5, <2>6 DEF ReqsOf
<1>18. DecodeOf(w)' /\ MissingOf(w)'
  BY <1>1, <1>9, <1>15 DEF WorkerInv, DecodeOf, MissingOf
<1>19. WorkerInv(w)'
  BY <1>13, <1>14, <1>16, <1>17, <1>18 DEF WorkerInv
<1> QED
  BY <1>9, <1>10, <1>11, <1>12, <1>19, ThreadStep

\* What may be asked of a copy next, and is new.
Askable(w, c, ranges) ==
  /\ ranges \in Seq(Nat \X Nat)
  /\ ranges = <<>> => Covered(key[w], c)
  /\ \A m, n \in DOMAIN ranges : ranges[m] = ranges[n] => m = n
  /\ \A n \in DOMAIN ranges : LET r == [file |-> c[1], range |-> ranges[n]] IN
       /\ ~IsTin(c) /\ AtBlock(c, r) => copy[c].dirs = "ok"
       /\ ~TwoCopies(w) /\ Uncut(c) => r \notin seen[w]

LEMMA AskingFacts ==
  ASSUME GridsInv, NEW w \in Workers, pc[w] \in Asking, todo[w] # <<>>, NEW c, c = Head(todo[w])
  PROVE  /\ Typed /\ DirsInv /\ key[w] \in Keys /\ c \in Copies
         /\ \A r \in seen[w] : ~TwoCopies(w) /\ Uncut(c) /\ c[1] = r.file => Handled(c, r)
<1>1. Typed /\ DirsInv /\ WorkerInv(w)
  BY DEF GridsInv
<1>2. key[w] \in Keys
  BY <1>1 DEF WorkerInv, PhaseOf, Asking
<1>3. todo[w] \in Seq(Copies)
  BY <1>1 DEF Typed
<1>4. c \in ToSet(todo[w]) /\ c \in Copies
  BY <1>3, ElementsOf
<1>5. c \in ToSet(held[w])
  BY <1>1, <1>4 DEF WorkerInv, ReqsOf
<1>6. \A r : ~Current(w, r)
  BY DEF Current, Asking, Answering
<1> QED
  BY <1>1, <1>2, <1>4, <1>5, <1>6 DEF WorkerInv, HandledOf

LEMMA BlocksAskable ==
  ASSUME GridsInv, NEW w \in Workers, pc[w] \in Asking, todo[w] # <<>>, NEW c, c = Head(todo[w]),
         ~IsTin(c), copy[c].dirs = "ok"
  PROVE  Askable(w, c, BlockRequests(w, c))
<1> DEFINE ranges == BlockRequests(w, c)
<1>1. /\ Typed /\ DirsInv /\ key[w] \in Keys /\ c \in Copies
      /\ \A r \in seen[w] : ~TwoCopies(w) /\ Uncut(c) /\ c[1] = r.file => Handled(c, r)
  BY AskingFacts
<1>2. /\ ranges \in Seq(RangeType)
      /\ ranges = <<>> => Wanted(w, c) \subseteq copy[c].decoded
      /\ \A m, n \in DOMAIN ranges : ranges[m] = ranges[n] => m = n
      /\ \A n \in DOMAIN ranges : \E b \in DOMAIN File(c).blocks :
             /\ b \notin copy[c].decoded
             /\ ranges[n][1] = File(c).blocks[b][1]
             /\ Units(File(c).blocks[b]) \subseteq Units(ranges[n])
  BY <1>1, BlockRequestsFacts
<1> HIDE DEF ranges
<1>3. ranges \in Seq(Nat \X Nat)
  BY <1>2 DEF RangeType
<1>4. ranges = <<>> => Covered(key[w], c)
  BY <1>2 DEF Covered, Wanted
<1>5. ASSUME NEW n \in DOMAIN ranges, ~TwoCopies(w), Uncut(c),
             [file |-> c[1], range |-> ranges[n]] \in seen[w]
      PROVE  FALSE
  <2> DEFINE r == [file |-> c[1], range |-> ranges[n]]
  <2>1. r \in seen[w] /\ r.file = c[1] /\ r.range = ranges[n]
    BY <1>5
  <2> HIDE DEF r
  <2>2. Handled(c, r)
    BY <1>1, <1>5, <2>1
  <2>3. PICK b \in DOMAIN File(c).blocks :
             /\ b \notin copy[c].decoded
             /\ ranges[n][1] = File(c).blocks[b][1]
             /\ Units(File(c).blocks[b]) \subseteq Units(ranges[n])
    BY <1>2
  <2> QED
    BY <2>1, <2>2, <2>3 DEF Handled, AtBlock
<1> QED
  BY <1>2, <1>3, <1>4, <1>5 DEF Askable, ranges

LEMMA DirsAskable ==
  ASSUME GridsInv, NEW w \in Workers, pc[w] \in Asking, todo[w] # <<>>, NEW c, c = Head(todo[w]),
         ~IsTin(c), copy[c].dirs = "none"
  PROVE  Askable(w, c, <<DirsRequest(c)>>)
<1> DEFINE range == DirsRequest(c)
           ranges == <<range>>
           r == [file |-> c[1], range |-> range]
<1>1. /\ Typed /\ DirsInv /\ key[w] \in Keys /\ c \in Copies
      /\ \A q \in seen[w] : ~TwoCopies(w) /\ Uncut(c) /\ c[1] = q.file => Handled(c, q)
  BY AskingFacts
<1>2. /\ range \in RangeType
      /\ Uncut(c) => ~(Data(c, range) \subseteq copy[c].loaded)
      /\ \A b \in DOMAIN File(c).blocks : File(c).blocks[b][1] # range[1]
  <2>1. Uncut(c) => ~CutShort(c, range)
    BY <1>1, FileFacts DEF Uncut, CutShort
  <2> QED
    BY <1>1, <2>1, DirsRequestFacts
<1> HIDE DEF range
<1>3. ranges \in Seq(Nat \X Nat) /\ ranges # <<>> /\ DOMAIN ranges = {1} /\ ranges[1] = range
  BY <1>2 DEF RangeType
<1>4. r.file = c[1] /\ r.range = range
  OBVIOUS
<1> HIDE DEF r, ranges
<1>5. ~AtBlock(c, r)
  BY <1>2, <1>4 DEF AtBlock
<1>6. ~TwoCopies(w) /\ Uncut(c) => r \notin seen[w]
  BY <1>1, <1>2, <1>4 DEF Handled
<1>7. Askable(w, c, ranges)
  BY <1>3, <1>5, <1>6 DEF Askable, r
<1> QED
  BY <1>7 DEF ranges, range

LEMMA TinAskable ==
  ASSUME GridsInv, NEW w \in Workers, pc[w] \in Asking, todo[w] # <<>>, NEW c, c = Head(todo[w]),
         IsTin(c), copy[c].dirs = "none"
  PROVE  Askable(w, c, << <<0, Whole>> >>)
<1> DEFINE range == <<0, Whole>>
           ranges == <<range>>
           r == [file |-> c[1], range |-> range]
<1>1. \A q \in seen[w] : ~TwoCopies(w) /\ Uncut(c) /\ c[1] = q.file => Handled(c, q)
  BY AskingFacts
<1>2. range \in Nat \X Nat
  BY DEF Whole
<1> HIDE DEF range
<1>3. ranges \in Seq(Nat \X Nat) /\ ranges # <<>> /\ DOMAIN ranges = {1} /\ ranges[1] = range
  BY <1>2
<1>4. r.file = c[1]
  OBVIOUS
<1> HIDE DEF r, ranges
<1>5. ~TwoCopies(w) /\ Uncut(c) => r \notin seen[w]
  BY <1>1, <1>4 DEF Handled
<1>6. Askable(w, c, ranges)
  BY <1>3, <1>5 DEF Askable, r
<1> QED
  BY <1>6 DEF ranges, range

\* Of a triangulation nothing is left once it was read, of a file that is no grid nothing ever.
LEMMA NothingAskable ==
  ASSUME GridsInv, NEW w \in Workers, pc[w] \in Asking, todo[w] # <<>>, NEW c, c = Head(todo[w]),
         copy[c].dirs = "bad" \/ (IsTin(c) /\ copy[c].dirs # "none")
  PROVE  Askable(w, c, <<>>)
<1>1. Typed /\ key[w] \in Keys /\ c \in Copies
  BY AskingFacts
<1>2. copy[c].dirs \in {"none", "ok", "bad"} /\ c[1] \in Names /\ (IsTin(c) => File(c).blocks = <<>>)
  BY <1>1, FileFacts DEF CopyType
<1>3. Wanted(w, c) \subseteq DOMAIN File(c).blocks
  BY <1>1, <1>2, WorldFacts DEF KeyType, Wanted, File, Names
<1>4. Covered(key[w], c)
  <2>1. CASE copy[c].dirs = "bad"
    BY <2>1 DEF Covered
  <2>2. CASE IsTin(c) /\ copy[c].dirs = "ok"
    <3>1. Wanted(w, c) = {}
      BY <1>2, <1>3, <2>2
    <3> QED
      BY <2>2, <3>1 DEF Covered, Wanted
  <2> QED
    BY <1>2, <2>1, <2>2
<1>5. <<>> \in Seq(Nat \X Nat) /\ DOMAIN <<>> = {}
  OBVIOUS
<1> QED
  BY <1>4, <1>5 DEF Askable

LEMMA AskInv == ASSUME GridsInv, NEW w \in Workers, Ask(w) PROVE GridsInv'
<1> DEFINE c == Head(todo[w])
<1>1. /\ pc[w] = "ask" /\ todo[w] # <<>> /\ pc[w] \in Asking
      /\ UNCHANGED <<world, gen, copy, setups, writer, key, held, ops, seen, err>>
      /\ \/ IsTin(c) /\ Answer(w, c, IF copy[c].dirs = "none" THEN << <<0, Whole>> >> ELSE <<>>)
         \/ ~IsTin(c) /\ copy[c].dirs = "ok" /\ Answer(w, c, BlockRequests(w, c))
         \/ ~IsTin(c) /\ copy[c].dirs = "bad" /\ Answer(w, c, <<>>)
         \/ ~IsTin(c) /\ pc' = [pc EXCEPT ![w] = "ask_locked"] /\ UNCHANGED <<reqs, todo>>
  BY DEF Ask, Goto, sharedVars, readVars, Asking
<1>2. ASSUME NEW ranges, Answer(w, c, ranges), Askable(w, c, ranges) PROVE GridsInv'
  <2> HIDE DEF c
  <2>1. c = Head(todo[w])
    BY DEF c
  <2> QED
    BY <1>1, <1>2, <2>1, AnswerInv DEF Askable
<1>3. CASE IsTin(c) /\ Answer(w, c, IF copy[c].dirs = "none" THEN << <<0, Whole>> >> ELSE <<>>)
  <2>1. CASE copy[c].dirs = "none"
    BY <1>1, <1>2, <1>3, <2>1, TinAskable
  <2>2. CASE copy[c].dirs # "none"
    BY <1>1, <1>2, <1>3, <2>2, NothingAskable
  <2> QED
    BY <2>1, <2>2
<1>4. CASE ~IsTin(c) /\ copy[c].dirs = "ok" /\ Answer(w, c, BlockRequests(w, c))
  BY <1>1, <1>2, <1>4, BlocksAskable
<1>5. CASE ~IsTin(c) /\ copy[c].dirs = "bad" /\ Answer(w, c, <<>>)
  BY <1>1, <1>2, <1>5, NothingAskable
<1>6. CASE ~IsTin(c) /\ pc' = [pc EXCEPT ![w] = "ask_locked"] /\ UNCHANGED <<reqs, todo>>
  <2>1. Typed /\ WorkerInv(w)
    BY DEF GridsInv
  <2>2. /\ pc'[w] = "ask_locked" /\ \A v \in Workers : v # w => pc'[v] = pc[v]
        /\ pc' \in [Workers -> {"idle", "write", "register", "failed"} \cup Loading]
    BY <1>6, <2>1 DEF Typed, Loading, Asking
  <2>3. \A v \in Workers : v # w => Waits(v)
    BY <1>1, <1>6, <2>2 DEF Waits
  <2>4. Grows /\ DirsInv'
    BY <1>1, SameCopies
  <2>5. Typed'
    <3>1. ErrorType' = ErrorType /\ RequestType' = RequestType /\ SetupType' = SetupType
      BY <1>1, SameFiles DEF ErrorType, RequestType, SetupType
    <3> QED
      BY <1>1, <1>6, <2>1, <2>2, <3>1, SameFiles DEF Typed, CopyType
  <2>6. GridsCover'
    BY <1>1, <2>1, <2>4, CoverGrows DEF GridsInv
  <2>7. WorkerInv(w)'
    <3>1. PhaseOf(w)'
      BY <1>1, <1>6, <2>1, <2>2, SameFiles DEF WorkerInv, PhaseOf, Loading, Asking, Answering
    <3>2. TwoCopies(w)' = TwoCopies(w)
      BY <1>1 DEF TwoCopies
    <3>3. AskOf(w)' /\ DecodeOf(w)' /\ MissingOf(w)'
      BY <1>1, <1>6, <2>1, <2>2, <3>2
         DEF WorkerInv, AskOf, DecodeOf, MissingOf, Covered, Asking
    <3>4. HandledOf(w)'
      <4>1. \A x \in Copies : \A r : Handled(x, r) => Handled(x, r)'
        BY <1>1, <2>4, HandledGrows
      <4>2. \A r : ~Current(w, r)
        BY <1>1 DEF Current, Answering
      <4>3. ToSet(held[w]) \subseteq Copies
        BY <2>1, ElementsOf DEF Typed
      <4> QED
        BY <1>1, <2>1, <3>2, <4>1, <4>2, <4>3, SameFiles DEF WorkerInv, HandledOf
    <3>5. ReqsOf(w)'
      <4>1. \A n, x : Fresh(w, n, x)' = Fresh(w, n, x)
        BY <1>1, <1>6, <2>2, SameFiles DEF Fresh, Answering
      <4> QED
        BY <1>1, <1>6, <2>1, <2>2, <3>2, <4>1 DEF WorkerInv, ReqsOf, Asking
    <3> QED
      BY <3>1, <3>3, <3>4, <3>5 DEF WorkerInv
  <2> QED
    BY <1>1, <2>3, <2>4, <2>5, <2>6, <2>7, ThreadStep
<1> QED
  BY <1>1, <1>3, <1>4, <1>5, <1>6

LEMMA AskLockedInv == ASSUME GridsInv, NEW w \in Workers, AskLocked(w) PROVE GridsInv'
<1> DEFINE c == Head(todo[w])
<1>1. /\ pc[w] = "ask_locked" /\ pc[w] \in Asking
      /\ UNCHANGED <<world, gen, copy, setups, writer, key, held, ops, seen, err>>
      /\ Answer(w, c, RangesLocked(w, c))
  BY DEF AskLocked, sharedVars, readVars, Asking
<1>2. todo[w] # <<>> /\ ~IsTin(c)
  BY <1>1 DEF GridsInv, WorkerInv, PhaseOf
<1>3. Askable(w, c, RangesLocked(w, c))
  <2>1. copy[c].dirs \in {"none", "ok", "bad"}
    BY <1>1, <1>2, AskingFacts, FileFacts DEF CopyType
  <2>2. CASE copy[c].dirs = "none"
    BY <1>1, <1>2, <2>2, DirsAskable DEF RangesLocked
  <2>3. CASE copy[c].dirs = "ok"
    BY <1>1, <1>2, <2>3, BlocksAskable DEF RangesLocked
  <2>4. CASE copy[c].dirs = "bad"
    BY <1>1, <1>2, <2>4, NothingAskable DEF RangesLocked
  <2> QED
    BY <2>1, <2>2, <2>3, <2>4
<1> DEFINE ranges == RangesLocked(w, c)
<1> HIDE DEF c, ranges
<1>4. c = Head(todo[w]) /\ Answer(w, c, ranges) /\ Askable(w, c, ranges)
  BY <1>1, <1>3 DEF c, ranges
<1> QED
  BY <1>1, <1>2, <1>4, AnswerInv DEF Askable

\* A thread goes on by itself, and the files stay as they are.
LEMMA MoveInv ==
  ASSUME GridsInv, NEW w \in Workers, NEW p \in {"fetch", "insert"},
         pc' = [pc EXCEPT ![w] = p],
         seen' \in [Workers -> SUBSET RequestType], \A v \in Workers : v # w => seen'[v] = seen[v],
         UNCHANGED <<world, gen, copy, setups, writer, key, held, ops, todo, reqs, err>>,
         WorkerInv(w)'
  PROVE  GridsInv'
<1>1. Typed
  BY DEF GridsInv
<1>2. /\ \A v \in Workers : v # w => pc'[v] = pc[v]
      /\ pc' \in [Workers -> {"idle", "write", "register", "failed"} \cup Loading]
  BY <1>1 DEF Typed, Loading, Answering
<1>3. \A v \in Workers : v # w => Waits(v)
  BY <1>2 DEF Waits
<1>4. Grows /\ DirsInv'
  BY SameCopies
<1>5. ErrorType' = ErrorType /\ RequestType' = RequestType /\ SetupType' = SetupType
  BY SameFiles DEF ErrorType, RequestType, SetupType
<1>6. Typed'
  BY <1>1, <1>2, <1>5, SameFiles DEF Typed, CopyType
<1>7. GridsCover'
  BY <1>1, <1>4, CoverGrows DEF GridsInv
<1> QED
  BY <1>3, <1>4, <1>6, <1>7, ThreadStep

LEMMA AskedInv == ASSUME GridsInv, NEW w \in Workers, Asked(w) PROVE GridsInv'
<1>1. /\ pc[w] = "ask" /\ todo[w] = <<>> /\ UNCHANGED <<world, gen, copy>>
      /\ \/ reqs[w] = <<>> /\ Record(w, [state |-> "ready", held |-> held[w]])
         \/ Fail(w, <<"no loader">>)
         \/ /\ reqs[w] # <<>> /\ pc' = [pc EXCEPT ![w] = "fetch"]
            /\ UNCHANGED <<setups, writer, key, held, ops, todo, reqs, seen, err>>
  BY DEF Asked, Goto, sharedVars, readVars, localVars
<1>2. Typed /\ WorkerInv(w) /\ DirsInv
  BY DEF GridsInv
<1>3. Grows /\ DirsInv'
  BY <1>1, SameCopies
<1>4. CASE reqs[w] = <<>> /\ Record(w, [state |-> "ready", held |-> held[w]])
  <2> DEFINE setup == [state |-> "ready", held |-> held[w]]
  <2>1. setup \in SetupType /\ setup.held = held[w] /\ held[w] \in Seq(Copies)
    BY <1>2 DEF SetupType, Typed
  <2>2. \A n \in DOMAIN held[w] : Covered(key[w], held[w][n])
    <3>1. TAKE n \in DOMAIN held[w]
    <3>2. held[w][n] \in ToSet(held[w])
      BY DEF ToSet
    <3>3. ToSet(<<>>) = {}
      BY DEF ToSet
    <3> QED
      BY <1>1, <1>2, <1>4, <3>2, <3>3 DEF WorkerInv, AskOf, Asking
  <2> HIDE DEF setup
  <2>3. Record(w, setup)
    BY <1>4 DEF setup
  <2> QED
    BY <1>1, <2>1, <2>2, <2>3, RecordInv
<1>5. CASE Fail(w, <<"no loader">>)
  <2>1. <<"no loader">> \in ErrorType /\ <<"no loader">>[1] # "missing"
    BY DEF ErrorType
  <2>2. copy' \in [Copies -> CopyType]
    BY <1>1, <1>2 DEF Typed
  <2> QED
    BY <1>1, <1>3, <1>5, <2>1, <2>2, FailInv
<1>6. CASE /\ reqs[w] # <<>> /\ pc' = [pc EXCEPT ![w] = "fetch"]
           /\ UNCHANGED <<setups, writer, key, held, ops, todo, reqs, seen, err>>
  <2>1. pc'[w] = "fetch"
    BY <1>2, <1>6 DEF Typed
  <2>2. TwoCopies(w)' = TwoCopies(w)
    BY <1>6 DEF TwoCopies
  <2>3. PhaseOf(w)'
    BY <1>1, <1>2, <1>6, <2>1, SameFiles DEF WorkerInv, PhaseOf, Loading, Asking, Answering
  <2>4. AskOf(w)' /\ DecodeOf(w)' /\ MissingOf(w)'
    BY <1>1, <1>2, <1>6, <2>1, <2>2 DEF WorkerInv, AskOf, DecodeOf, MissingOf, Asking
  <2>5. HandledOf(w)'
    <3>1. \A x \in Copies : \A r : Handled(x, r) => Handled(x, r)'
      BY <1>1, <1>3, HandledGrows
    <3>2. \A r : ~Current(w, r)
      BY <1>1 DEF Current, Answering
    <3>3. ToSet(held[w]) \subseteq Copies
      BY <1>2, ElementsOf DEF Typed
    <3> QED
      BY <1>1, <1>2, <1>6, <2>2, <3>1, <3>2, <3>3, SameFiles DEF WorkerInv, HandledOf
  <2>6. ReqsOf(w)'
    <3>1. ASSUME NEW n, NEW x, Fresh(w, n, x) PROVE Fresh(w, n, x)'
      BY <1>1, <1>6, <2>1, <3>1, SameFiles DEF Fresh, Answering
    <3> QED
      BY <1>1, <1>2, <1>6, <2>1, <2>2, <3>1 DEF WorkerInv, ReqsOf, Asking
  <2>7. WorkerInv(w)'
    BY <2>3, <2>4, <2>5, <2>6 DEF WorkerInv
  <2>8. seen' \in [Workers -> SUBSET RequestType] /\ \A v \in Workers : v # w => seen'[v] = seen[v]
    BY <1>2, <1>6 DEF Typed
  <2> QED
    BY <1>1, <1>6, <2>7, <2>8, MoveInv
<1> QED
  BY <1>1, <1>4, <1>5, <1>6

-----------------------------------------------------------------------------
\* A request that was made before is of a file that is cut off.

LEMMA FetchInv == ASSUME GridsInv, NEW w \in Workers, Fetch(w) PROVE GridsInv'
<1> DEFINE r == Head(reqs[w])
<1>1. /\ pc[w] = "fetch" /\ UNCHANGED <<world, gen, copy>>
      /\ \/ r \in seen[w] /\ Fail(w, <<"missing", r.file>>)
         \/ /\ seen' = [seen EXCEPT ![w] = @ \cup {r}] /\ pc' = [pc EXCEPT ![w] = "insert"]
            /\ UNCHANGED <<setups, writer, key, held, ops, todo, reqs, err>>
         \/ Fail(w, <<"fetch">>)
  BY DEF Fetch, SeenBefore, Goto, sharedVars, readVars
<1>2. Typed /\ WorkerInv(w) /\ DirsInv
  BY DEF GridsInv
<1>3. Grows /\ DirsInv' /\ copy' \in [Copies -> CopyType]
  BY <1>1, <1>2, SameCopies DEF Typed
<1>4. reqs[w] # <<>> /\ reqs[w] \in Seq(RequestType)
  BY <1>1, <1>2 DEF WorkerInv, PhaseOf, Typed
<1>5. r = reqs[w][1] /\ 1 \in DOMAIN reqs[w] /\ r \in RequestType
  BY <1>4
<1> HIDE DEF r
<1>6. r.file \in Names
  BY <1>5 DEF RequestType
<1>7. CASE r \in seen[w] /\ Fail(w, <<"missing", r.file>>)
  <2> DEFINE why == <<"missing", r.file>>
  <2>1. why \in ErrorType /\ why[2] = r.file
    BY <1>6 DEF ErrorType
  <2>2. ASSUME ~TwoCopies(w) PROVE world.files[r.file].size < world.files[r.file].full
    <3>1. PICK c \in ToSet(held[w]) : c[1] = r.file
      BY <1>2, <1>5 DEF WorkerInv, ReqsOf
    <3>2. Fresh(w, 1, c)
      BY <1>2, <1>5, <2>2, <3>1 DEF WorkerInv, ReqsOf
    <3>3. ~Uncut(c)
      BY <1>1, <1>5, <1>7, <3>2 DEF Fresh, Answering
    <3>4. c \in Copies
      BY <1>2, ElementsOf DEF Typed
    <3>5. File(c).size \in Nat /\ File(c).full \in Nat /\ File(c) = world.files[r.file]
      BY <1>2, <3>1, <3>4, FileFacts DEF File
    <3> QED
      BY <3>3, <3>5 DEF Uncut
  <2> HIDE DEF why
  <2>3. Fail(w, why)
    BY <1>7 DEF why
  <2> QED
    BY <1>1, <1>3, <2>1, <2>2, <2>3, FailInv
<1>8. CASE /\ seen' = [seen EXCEPT ![w] = @ \cup {r}] /\ pc' = [pc EXCEPT ![w] = "insert"]
           /\ UNCHANGED <<setups, writer, key, held, ops, todo, reqs, err>>
  <2>1. /\ pc'[w] = "insert" /\ seen'[w] = seen[w] \cup {r}
        /\ seen' \in [Workers -> SUBSET RequestType] /\ \A v \in Workers : v # w => seen'[v] = seen[v]
    BY <1>2, <1>5, <1>8 DEF Typed
  <2>2. TwoCopies(w)' = TwoCopies(w)
    BY <1>8 DEF TwoCopies
  <2>3. PhaseOf(w)'
    BY <1>1, <1>2, <1>4, <1>8, <2>1, SameFiles DEF WorkerInv, PhaseOf, Loading, Asking, Answering
  <2>4. AskOf(w)' /\ DecodeOf(w)' /\ MissingOf(w)'
    BY <1>1, <1>2, <1>8, <2>1, <2>2 DEF WorkerInv, AskOf, DecodeOf, MissingOf, Asking
  <2>5. HandledOf(w)'
    <3>1. \A x \in Copies : \A q : Handled(x, q) => Handled(x, q)'
      BY <1>1, <1>3, HandledGrows
    <3>2. \A q : ~Current(w, q)
      BY <1>1 DEF Current, Answering
    <3>3. ToSet(held[w]) \subseteq Copies
      BY <1>2, ElementsOf DEF Typed
    <3> SUFFICES ASSUME ~TwoCopies(w), NEW q \in seen'[w], NEW x \in ToSet(held[w]),
                        x[1] = q.file, Uncut(x), ~Current(w, q)'
                 PROVE  Handled(x, q)'
      BY <1>1, <1>8, <2>2, SameFiles DEF HandledOf
    <3>4. q # r
      BY <1>8, <2>1 DEF Current, Answering, r
    <3>5. Handled(x, q)
      BY <1>2, <2>1, <3>2, <3>4 DEF WorkerInv, HandledOf
    <3> QED
      BY <3>1, <3>3, <3>5
  <2>6. ReqsOf(w)'
    <3>1. ASSUME ~TwoCopies(w), NEW n \in DOMAIN reqs[w], NEW x, Fresh(w, n, x) PROVE Fresh(w, n, x)'
      <4>1. n # 1 => reqs[w][n] # r
        BY <1>2, <1>5, <3>1 DEF WorkerInv, ReqsOf, IsInjective
      <4> QED
        BY <1>1, <1>8, <2>1, <3>1, <4>1, SameFiles DEF Fresh, Answering
    <3> QED
      BY <1>1, <1>2, <1>8, <2>1, <2>2, <3>1 DEF WorkerInv, ReqsOf, Asking
  <2>7. WorkerInv(w)'
    BY <2>3, <2>4, <2>5, <2>6 DEF WorkerInv
  <2> QED
    BY <1>1, <1>8, <2>1, <2>7, MoveInv
<1>9. CASE Fail(w, <<"fetch">>)
  <2>1. <<"fetch">> \in ErrorType /\ <<"fetch">>[1] # "missing"
    BY DEF ErrorType
  <2> QED
    BY <1>1, <1>3, <1>9, <2>1, FailInv
<1> QED
  BY <1>1, <1>7, <1>8, <1>9

-----------------------------------------------------------------------------
\* The answer to a request.

\* Of a request that is answered nothing is left to ask.
LEMMA NextRequestInv ==
  ASSUME GridsInv, NEW w \in Workers, pc[w] \in Answering, NextRequest(w),
         world' = world, gen' = gen, Grows, copy' \in [Copies -> CopyType], DirsInv',
         NEW c, c = Receiver(w), NEW r, r = Head(reqs[w]),
         ~TwoCopies(w) /\ Uncut(c) => Handled(c, r)'
  PROVE  GridsInv'
<1> DEFINE q == reqs[w]
           t == Tail(q)
<1>1. Typed /\ WorkerInv(w)
  BY DEF GridsInv
<1>2. /\ UNCHANGED <<setups, writer, key, held, ops, seen, err>>
      /\ reqs' = [reqs EXCEPT ![w] = t]
      /\ \/ Len(q) > 1 /\ pc' = [pc EXCEPT ![w] = "fetch"] /\ todo' = todo
         \/ Len(q) <= 1 /\ pc' = [pc EXCEPT ![w] = "ask"] /\ todo' = [todo EXCEPT ![w] = held[w]]
  <2>1. q \in Seq(RequestType)
    BY <1>1 DEF Typed
  <2>2. Len(q) \in Nat
    BY <2>1
  <2> QED
    BY <2>2 DEF NextRequest, Goto, readVars
<1>3. /\ Len(q) \in Nat \ {0} /\ t \in Seq(RequestType) /\ Len(t) = Len(q) - 1
      /\ DOMAIN q = 1 .. Len(q) /\ DOMAIN t = 1 .. Len(q) - 1
      /\ \A n \in 1 .. Len(q) - 1 : t[n] = q[n + 1]
  <2>1. q \in Seq(RequestType) /\ q # <<>>
    BY <1>1 DEF WorkerInv, PhaseOf, Typed
  <2> HIDE DEF q
  <2> QED
    BY <2>1
<1>4. held[w] \in Seq(Copies) /\ ToSet(held[w]) \subseteq Copies /\ key[w] \in Keys
  BY <1>1, ElementsOf DEF Typed, WorkerInv, PhaseOf, Answering
<1> HIDE DEF t
<1>5. /\ reqs'[w] = t
      /\ \/ Len(q) > 1 /\ pc'[w] = "fetch" /\ todo'[w] = todo[w]
         \/ Len(q) = 1 /\ pc'[w] = "ask" /\ todo'[w] = held[w]
      /\ reqs' \in [Workers -> Seq(RequestType)] /\ todo' \in [Workers -> Seq(Copies)]
      /\ pc' \in [Workers -> {"idle", "write", "register", "failed"} \cup Loading]
      /\ \A v \in Workers : v # w => Waits(v)
  <2>1. /\ reqs'[w] = t /\ reqs' \in [Workers -> Seq(RequestType)]
        /\ \A v \in Workers : v # w => reqs'[v] = reqs[v]
    BY <1>1, <1>2, <1>3 DEF Typed
  <2>2. CASE Len(q) > 1 /\ pc' = [pc EXCEPT ![w] = "fetch"] /\ todo' = todo
    BY <1>1, <1>2, <2>1, <2>2 DEF Typed, Loading, Waits
  <2>3. CASE Len(q) <= 1 /\ pc' = [pc EXCEPT ![w] = "ask"] /\ todo' = [todo EXCEPT ![w] = held[w]]
    <3>1. Len(q) = 1
      <4> HIDE DEF q
      <4>1. Len(q) <= 1 /\ Len(q) \in Nat \ {0}
        BY <1>3, <2>3
      <4> QED
        BY <4>1
    <3> QED
      BY <1>1, <1>2, <1>4, <2>1, <2>3, <3>1 DEF Typed, Loading, Asking, Waits
  <2> QED
    BY <1>2, <2>2, <2>3
<1>6. Typed'
  <2>1. ErrorType' = ErrorType /\ RequestType' = RequestType /\ SetupType' = SetupType
    BY SameFiles DEF ErrorType, RequestType, SetupType
  <2> QED
    BY <1>1, <1>2, <1>5, <2>1, SameFiles DEF Typed, CopyType
<1>7. GridsCover'
  BY <1>1, <1>2, CoverGrows DEF GridsInv
<1>8. TwoCopies(w)' = TwoCopies(w)
  BY <1>2 DEF TwoCopies
<1>9. PhaseOf(w)'
  <2>1. Len(q) > 1 => t # <<>>
    <3>1. Len(<<>>) = 0
      OBVIOUS
    <3>2. SUFFICES ASSUME Len(q) > 1, t = <<>> PROVE FALSE
      OBVIOUS
    <3>3. Len(t) # 0
      BY <1>3, <3>2
    <3> QED
      BY <3>1, <3>2, <3>3
  <2> QED
    BY <1>1, <1>2, <1>4, <1>5, <2>1, SameFiles DEF WorkerInv, PhaseOf, Loading, Asking, Answering
<1>10. AskOf(w)' /\ DecodeOf(w)' /\ MissingOf(w)'
  BY <1>1, <1>2, <1>5, <1>8 DEF WorkerInv, AskOf, DecodeOf, MissingOf, Asking
<1>11. HandledOf(w)'
  <2> SUFFICES ASSUME ~TwoCopies(w), NEW p \in seen[w], NEW x \in ToSet(held[w]),
                      x[1] = p.file, Uncut(x)
               PROVE  Handled(x, p)'
    BY <1>2, <1>8, SameFiles DEF HandledOf
  <2>1. CASE p = r
    <3>1. reqs[w] # <<>>
      BY <1>1 DEF WorkerInv, PhaseOf
    <3>2. x = c
      BY <1>1, <2>1, <3>1, ReceiverFacts DEF WorkerInv
    <3> QED
      BY <2>1, <3>2
  <2>2. CASE p # r
    <3>1. Handled(x, p)
      BY <1>1, <2>2 DEF WorkerInv, HandledOf, Current
    <3> QED
      BY <1>4, <3>1, HandledGrows
  <2> QED
    BY <2>1, <2>2
<1>12. ReqsOf(w)'
  <2>1. /\ IsInjective(held[w]) /\ IsInjective(todo'[w]) /\ ToSet(todo'[w]) \subseteq ToSet(held[w])
    BY <1>1, <1>5 DEF WorkerInv, ReqsOf
  <2>2. ASSUME NEW n \in DOMAIN t PROVE \E x \in ToSet(held[w]) : x[1] = t[n].file
    <3>1. n + 1 \in DOMAIN q /\ t[n] = q[n + 1]
      BY <1>3
    <3> QED
      BY <1>1, <3>1 DEF WorkerInv, ReqsOf
  <2>3. ASSUME ~TwoCopies(w) PROVE IsInjective(t)
    <3>1. \A m, n \in DOMAIN q : q[m] = q[n] => m = n
      BY <1>1, <2>3 DEF WorkerInv, ReqsOf, IsInjective
    <3>2. \A m, n \in 1 .. Len(q) - 1 : t[m] = t[n] => m = n
      <4>1. SUFFICES ASSUME NEW m \in 1 .. Len(q) - 1, NEW n \in 1 .. Len(q) - 1, t[m] = t[n]
                     PROVE  m = n
        OBVIOUS
      <4>2. m + 1 \in DOMAIN q /\ n + 1 \in DOMAIN q /\ q[m + 1] = q[n + 1]
        BY <1>3, <4>1
      <4>3. m + 1 = n + 1
        BY <3>1, <4>2
      <4> QED
        BY <4>3
    <3> QED
      BY <1>3, <3>2 DEF IsInjective
  <2>4. pc'[w] \in Asking => DOMAIN t = {}
    <3>1. pc'[w] \in Asking => Len(q) = 1
      BY <1>5 DEF Asking
    <3> HIDE DEF q
    <3>2. Len(q) = 1 => DOMAIN t = 1 .. 0
      BY <1>3
    <3> QED
      BY <3>1, <3>2
  <2>5. ASSUME ~TwoCopies(w), NEW n \in DOMAIN t, NEW x \in ToSet(held[w]), x[1] = t[n].file
        PROVE  Fresh(w, n, x)'
    <3>1. n + 1 \in DOMAIN q /\ t[n] = q[n + 1] /\ n + 1 # 1
      BY <1>3
    <3>2. Fresh(w, n + 1, x)
      BY <1>1, <2>5, <3>1 DEF WorkerInv, ReqsOf
    <3>3. copy[x].dirs = "ok" => copy'[x].dirs = "ok"
      BY <1>4 DEF Grows
    <3> QED
      BY <1>2, <1>5, <3>1, <3>2, <3>3, SameFiles DEF Fresh
  <2> QED
    BY <1>2, <1>5, <1>8, <2>1, <2>2, <2>3, <2>4, <2>5 DEF ReqsOf
<1>13. WorkerInv(w)'
  BY <1>9, <1>10, <1>11, <1>12 DEF WorkerInv
<1> QED
  BY <1>5, <1>6, <1>7, <1>13, ThreadStep

\* The request being answered, and the copy its bytes go to.
LEMMA AnswerFacts ==
  ASSUME GridsInv, NEW w \in Workers, pc[w] \in Answering, NEW c, c = Receiver(w),
         NEW r, r = Head(reqs[w])
  PROVE  /\ Typed /\ DirsInv /\ WorkerInv(w)
         /\ c \in Copies /\ c[1] \in Names /\ copy[c] \in CopyType
         /\ <<"invalid", c[1]>> \in ErrorType
         /\ Data(c, r.range) \subseteq Nat
         /\ ~TwoCopies(w) /\ ~IsTin(c) /\ AtBlock(c, r) => copy[c].dirs = "ok"
<1>1. Typed /\ DirsInv /\ WorkerInv(w)
  BY DEF GridsInv
<1>2. reqs[w] # <<>> /\ reqs[w] \in Seq(RequestType)
  BY <1>1 DEF WorkerInv, PhaseOf, Typed
<1>3. /\ c \in Copies /\ c \in ToSet(held[w]) /\ c[1] = r.file
  BY <1>1, <1>2, ReceiverFacts DEF WorkerInv
<1>4. c[1] \in Names /\ copy[c] \in CopyType /\ File(c).size \in Nat
  BY <1>1, <1>3, FileFacts
<1>5. <<"invalid", c[1]>> \in ErrorType
  BY <1>4 DEF ErrorType
<1>6. Data(c, r.range) \subseteq Nat
  BY <1>4 DEF Data
<1>7. r = reqs[w][1] /\ 1 \in DOMAIN reqs[w]
  BY <1>2
<1>8. ~TwoCopies(w) => Fresh(w, 1, c)
  BY <1>1, <1>3, <1>7 DEF WorkerInv, ReqsOf
<1> QED
  BY <1>1, <1>3, <1>4, <1>5, <1>6, <1>7, <1>8 DEF Fresh

LEMMA InsertTinInv == ASSUME GridsInv, NEW w \in Workers, InsertTin(w) PROVE GridsInv'
<1>1. PICK c, r : c = Receiver(w) /\ r = Head(reqs[w])
  OBVIOUS
<1> DEFINE parsed == IF File(c).size = File(c).full /\ ~File(c).badDirs THEN "ok" ELSE "bad"
           dirs == IF copy[c].dirs = "none" THEN parsed ELSE copy[c].dirs
<1>2. /\ pc[w] \in Answering /\ IsTin(c) /\ world' = world /\ gen' = gen
      /\ copy' = [copy EXCEPT ![c].dirs = dirs]
      /\ \/ dirs = "ok" /\ NextRequest(w)
         \/ dirs = "bad" /\ Fail(w, <<"invalid", c[1]>>)
  BY <1>1 DEF InsertTin, Answering
<1>3. /\ Typed /\ DirsInv /\ WorkerInv(w) /\ c \in Copies /\ c[1] \in Names /\ copy[c] \in CopyType
      /\ <<"invalid", c[1]>> \in ErrorType
  BY <1>1, <1>2, AnswerFacts
<1>4. dirs \in {"ok", "bad"} /\ (copy[c].dirs # "none" => dirs = copy[c].dirs)
  BY <1>3 DEF CopyType
<1> HIDE DEF dirs
<1>5. /\ copy'[c] = [copy[c] EXCEPT !.dirs = dirs] /\ \A x \in Copies : x # c => copy'[x] = copy[x]
      /\ copy' \in [Copies -> CopyType]
  BY <1>2, <1>3, <1>4 DEF Typed, CopyType
<1>6. copy'[c].dirs = dirs /\ copy'[c].loaded = copy[c].loaded /\ copy'[c].decoded = copy[c].decoded
  BY <1>3, <1>5 DEF CopyType
<1>7. Grows
  BY <1>4, <1>5, <1>6 DEF Grows
<1>8. DirsInv'
  BY <1>2, <1>3, <1>5, SameFiles DEF DirsInv
<1>9. Handled(c, r)'
  BY <1>2, <1>4, <1>6, SameFiles DEF Handled
<1>10. CASE NextRequest(w)
  BY <1>1, <1>2, <1>5, <1>7, <1>8, <1>9, <1>10, NextRequestInv
<1>11. CASE Fail(w, <<"invalid", c[1]>>)
  <2>1. <<"invalid", c[1]>>[1] # "missing"
    OBVIOUS
  <2> QED
    BY <1>2, <1>3, <1>5, <1>7, <1>8, <1>11, <2>1, FailInv
<1> QED
  BY <1>2, <1>10, <1>11

\* An insert goes on to decode, under the lock.
LEMMA DecodeNextInv ==
  ASSUME GridsInv, NEW w \in Workers, pc[w] = "insert", pc' = [pc EXCEPT ![w] = "decode"],
         UNCHANGED <<world, gen, setups, writer, key, held, ops, todo, reqs, seen, err>>,
         Grows, copy' \in [Copies -> CopyType], DirsInv',
         NEW c, c = Receiver(w), NEW r, r = Head(reqs[w]),
         ~IsTin(c), copy'[c].dirs = "ok", Data(c, r.range) \subseteq copy'[c].loaded
  PROVE  GridsInv'
<1>1. Typed /\ WorkerInv(w)
  BY DEF GridsInv
<1>2. /\ pc'[w] = "decode" /\ \A v \in Workers : v # w => pc'[v] = pc[v]
      /\ pc' \in [Workers -> {"idle", "write", "register", "failed"} \cup Loading]
  BY <1>1 DEF Typed, Loading, Answering
<1>3. \A v \in Workers : v # w => Waits(v)
  BY <1>2 DEF Waits
<1>4. Typed'
  <2>1. ErrorType' = ErrorType /\ RequestType' = RequestType /\ SetupType' = SetupType
    BY SameFiles DEF ErrorType, RequestType, SetupType
  <2> QED
    BY <1>1, <1>2, <2>1, SameFiles DEF Typed, CopyType
<1>5. GridsCover'
  BY <1>1, CoverGrows DEF GridsInv
<1>6. TwoCopies(w)' = TwoCopies(w)
  BY DEF TwoCopies
<1>7. ToSet(held[w]) \subseteq Copies
  BY <1>1, ElementsOf DEF Typed
<1>8. PhaseOf(w)'
  BY <1>1, <1>2, SameFiles DEF WorkerInv, PhaseOf, Loading, Asking, Answering
<1>9. AskOf(w)' /\ MissingOf(w)'
  BY <1>1, <1>2, <1>6 DEF WorkerInv, AskOf, MissingOf, Asking
<1>10. HandledOf(w)'
  <2> SUFFICES ASSUME ~TwoCopies(w), NEW p \in seen[w], NEW x \in ToSet(held[w]),
                      x[1] = p.file, Uncut(x), ~Current(w, p)
               PROVE  Handled(x, p)'
    BY <1>2, <1>6, SameFiles DEF HandledOf, Current, Answering
  <2>1. Handled(x, p)
    BY <1>1 DEF WorkerInv, HandledOf
  <2> QED
    BY <1>7, <2>1, HandledGrows
<1>11. ReqsOf(w)'
  <2>1. ASSUME NEW n \in DOMAIN reqs[w], NEW x \in ToSet(held[w]), Fresh(w, n, x) PROVE Fresh(w, n, x)'
    <3>1. copy[x].dirs = "ok" => copy'[x].dirs = "ok"
      BY <1>7 DEF Grows
    <3> QED
      BY <1>2, <2>1, <3>1, SameFiles DEF Fresh, Answering
  <2> QED
    BY <1>1, <1>2, <1>6, <2>1 DEF WorkerInv, ReqsOf, Asking
<1>12. DecodeOf(w)'
  <2>1. Receiver(w)' = c /\ Head(reqs[w])' = r
    BY DEF Receiver, SelectInSeq
  <2> QED
    BY <2>1, SameFiles DEF DecodeOf
<1>13. WorkerInv(w)'
  BY <1>8, <1>9, <1>10, <1>11, <1>12 DEF WorkerInv
<1> QED
  BY <1>3, <1>4, <1>5, <1>13, ThreadStep

LEMMA InsertInv == ASSUME GridsInv, NEW w \in Workers, Insert(w) PROVE GridsInv'
<1>1. PICK c, r : c = Receiver(w) /\ r = Head(reqs[w])
  OBVIOUS
<1> DEFINE loaded == copy[c].loaded \cup Data(c, r.range)
           dirs == IF copy[c].dirs = "none" THEN ParsedDirs(c, loaded) ELSE copy[c].dirs
           lock == IF dirs = "ok" THEN w ELSE Nobody
           newlyBad == dirs = "bad" /\ copy[c].dirs = "none"
<1>2. /\ pc[w] = "insert" /\ pc[w] \in Answering /\ ~IsTin(c) /\ world' = world /\ gen' = gen
      /\ copy' = [copy EXCEPT ![c].loaded = loaded, ![c].dirs = dirs, ![c].lock = lock]
      /\ \/ dirs = "ok" /\ Goto(w, "decode") /\ UNCHANGED <<readVars, localVars>>
         \/ newlyBad /\ Fail(w, <<"invalid", c[1]>>)
         \/ dirs # "ok" /\ NextRequest(w)
  BY <1>1 DEF Insert, Answering
<1>3. /\ Typed /\ DirsInv /\ WorkerInv(w) /\ c \in Copies /\ c[1] \in Names /\ copy[c] \in CopyType
      /\ <<"invalid", c[1]>> \in ErrorType /\ Data(c, r.range) \subseteq Nat
      /\ ~TwoCopies(w) /\ ~IsTin(c) /\ AtBlock(c, r) => copy[c].dirs = "ok"
  BY <1>1, <1>2, AnswerFacts
<1>4. /\ loaded \in SUBSET Nat /\ copy[c].loaded \subseteq loaded /\ Data(c, r.range) \subseteq loaded
  BY <1>3 DEF CopyType
<1>5. /\ dirs \in {"none", "ok", "bad"} /\ (copy[c].dirs # "none" => dirs = copy[c].dirs)
      /\ dirs = "none" => Missing(c, loaded) # {}
  <2>1. ParsedDirs(c, loaded) \in {"none", "ok", "bad"}
        /\ (ParsedDirs(c, loaded) = "none" => Missing(c, loaded) # {})
    BY DEF ParsedDirs
  <2> HIDE DEF loaded
  <2> QED
    BY <1>3, <2>1 DEF CopyType
<1>6. lock \in Workers \cup {Nobody}
  OBVIOUS
<1> HIDE DEF loaded, dirs, lock
<1>7. /\ copy'[c] = [copy[c] EXCEPT !.loaded = loaded, !.dirs = dirs, !.lock = lock]
      /\ \A x \in Copies : x # c => copy'[x] = copy[x]
      /\ copy' \in [Copies -> CopyType]
  BY <1>2, <1>3, <1>4, <1>5, <1>6 DEF Typed, CopyType
<1>8. copy'[c].dirs = dirs /\ copy'[c].loaded = loaded /\ copy'[c].decoded = copy[c].decoded
  BY <1>3, <1>7 DEF CopyType
<1>9. Grows
  BY <1>4, <1>5, <1>7, <1>8 DEF Grows
<1>10. DirsInv'
  <2> SUFFICES ASSUME NEW x \in Copies, ~IsTin(x), copy'[x].dirs = "none", copy'[x].loaded # {}
               PROVE  Missing(x, copy'[x].loaded) # {}
    BY <1>2, SameFiles DEF DirsInv
  <2>1. CASE x = c
    BY <1>5, <1>8, <2>1
  <2>2. CASE x # c
    BY <1>3, <1>7, <2>2 DEF DirsInv
  <2> QED
    BY <2>1, <2>2
<1>11. CASE dirs = "ok" /\ Goto(w, "decode") /\ UNCHANGED <<readVars, localVars>>
  <2>1. /\ pc' = [pc EXCEPT ![w] = "decode"]
        /\ UNCHANGED <<setups, writer, key, held, ops, todo, reqs, seen, err>>
    BY <1>11 DEF Goto, readVars, localVars
  <2> QED
    BY <1>1, <1>2, <1>4, <1>7, <1>8, <1>9, <1>10, <1>11, <2>1, DecodeNextInv
<1>12. CASE Fail(w, <<"invalid", c[1]>>)
  <2>1. <<"invalid", c[1]>>[1] # "missing"
    OBVIOUS
  <2> QED
    BY <1>2, <1>3, <1>7, <1>9, <1>10, <1>12, <2>1, FailInv
<1>13. CASE dirs # "ok" /\ NextRequest(w)
  <2>1. copy[c].dirs # "ok"
    BY <1>5, <1>13
  <2>2. ~TwoCopies(w) => Handled(c, r)'
    BY <1>2, <1>3, <1>4, <1>8, <2>1, SameFiles DEF Handled
  <2> QED
    BY <1>1, <1>2, <1>7, <1>9, <1>10, <1>13, <2>2, NextRequestInv
<1> QED
  BY <1>2, <1>11, <1>12, <1>13

\* Of a whole file the blocks a request asked for have all their bytes, and are decoded.
LEMMA DecodeInv == ASSUME GridsInv, NEW w \in Workers, Decode(w) PROVE GridsInv'
<1>1. PICK c, r : c = Receiver(w) /\ r = Head(reqs[w])
  OBVIOUS
<1> DEFINE broken == Decodable(c) \cap File(c).badBlocks
           good == {b \in Decodable(c) : \A x \in broken : b < x}
           decoded == copy[c].decoded \cup good
<1>2. /\ pc[w] = "decode" /\ pc[w] \in Answering /\ world' = world /\ gen' = gen
      /\ copy' = [copy EXCEPT ![c].decoded = decoded, ![c].lock = Nobody]
      /\ \/ broken = {} /\ NextRequest(w)
         \/ broken # {} /\ Fail(w, <<"invalid", c[1]>>)
  BY <1>1 DEF Decode, Answering
<1>3. /\ Typed /\ DirsInv /\ WorkerInv(w) /\ c \in Copies /\ c[1] \in Names /\ copy[c] \in CopyType
      /\ <<"invalid", c[1]>> \in ErrorType
  BY <1>1, <1>2, AnswerFacts
<1>4. ~IsTin(c) /\ copy[c].dirs = "ok" /\ Data(c, r.range) \subseteq copy[c].loaded
  BY <1>1, <1>2, <1>3 DEF WorkerInv, DecodeOf
<1>5. /\ File(c).blocks \in Seq(RangeType) /\ Apart(File(c))
      /\ File(c).full \in Nat \ {0} /\ File(c).size \in Nat
  BY <1>3, FileFacts
<1>6. decoded \in SUBSET Nat /\ copy[c].decoded \subseteq decoded
      /\ (broken = {} => Decodable(c) \subseteq decoded)
  <2>1. Decodable(c) \subseteq Nat
    BY <1>5 DEF Decodable
  <2> QED
    BY <1>3, <2>1 DEF CopyType
<1> HIDE DEF decoded, broken
<1>7. /\ copy'[c] = [copy[c] EXCEPT !.decoded = decoded, !.lock = Nobody]
      /\ \A x \in Copies : x # c => copy'[x] = copy[x]
      /\ copy' \in [Copies -> CopyType]
  BY <1>2, <1>3, <1>6 DEF Typed, CopyType
<1>8. copy'[c].dirs = copy[c].dirs /\ copy'[c].loaded = copy[c].loaded /\ copy'[c].decoded = decoded
  BY <1>3, <1>7 DEF CopyType
<1>9. Grows
  BY <1>6, <1>7, <1>8 DEF Grows
<1>10. DirsInv'
  <2> SUFFICES ASSUME NEW x \in Copies, ~IsTin(x), copy'[x].dirs = "none", copy'[x].loaded # {}
               PROVE  Missing(x, copy'[x].loaded) # {}
    BY <1>2, SameFiles DEF DirsInv
  <2>1. CASE x = c
    BY <1>4, <1>8, <2>1
  <2>2. CASE x # c
    BY <1>3, <1>7, <2>2 DEF DirsInv
  <2> QED
    BY <2>1, <2>2
<1>11. CASE broken = {} /\ NextRequest(w)
  <2>1. ASSUME Uncut(c), NEW b \in DOMAIN File(c).blocks,
               Units(File(c).blocks[b]) \subseteq Units(r.range)
        PROVE  b \in decoded
    <3> DEFINE block == File(c).blocks[b]
    <3>1. block[1] \in Nat /\ block[2] \in Nat \ {0} /\ block[1] + block[2] <= File(c).full
      BY <1>5 DEF RangeType, Apart
    <3>2. ASSUME NEW x \in Units(block) PROVE x \in Data(c, r.range)
      <4>1. x \in 0 .. File(c).size - 1
        <5> HIDE DEF block
        <5>1. x \in Nat /\ x < block[1] + block[2]
          BY <3>1, <3>2 DEF Units
        <5> QED
          BY <1>5, <2>1, <3>1, <5>1 DEF Uncut
      <4>2. x \in Units(r.range)
        BY <2>1, <3>2
      <4> QED
        BY <4>1, <4>2 DEF Data
    <3>3. Units(block) \subseteq copy[c].loaded
      BY <1>4, <3>2
    <3> QED
      BY <1>6, <1>11, <3>3 DEF Decodable
  <2>2. ASSUME Uncut(c) PROVE Handled(c, r)'
    <3>1. \A b \in DOMAIN File(c).blocks :
             Units(File(c).blocks[b]) \subseteq Units(r.range) => b \in copy'[c].decoded
      BY <1>8, <2>1, <2>2
    <3>2. Data(c, r.range) \subseteq copy'[c].loaded
      BY <1>4, <1>8
    <3>3. File(c)' = File(c) /\ ~IsTin(c)' /\ Data(c, r.range)' = Data(c, r.range)
      BY <1>2, <1>4, SameFiles
    <3> QED
      BY <3>1, <3>2, <3>3 DEF Handled, Units
  <2> QED
    BY <1>1, <1>2, <1>7, <1>9, <1>10, <1>11, <2>2, NextRequestInv
<1>12. CASE Fail(w, <<"invalid", c[1]>>)
  <2>1. <<"invalid", c[1]>>[1] # "missing"
    OBVIOUS
  <2> QED
    BY <1>2, <1>3, <1>7, <1>9, <1>10, <1>12, <2>1, FailInv
<1> QED
  BY <1>2, <1>11, <1>12

-----------------------------------------------------------------------------
\* Every step, and the beginning.

\* Nothing that is copied is touched, and no thread moves.
LEMMA ClearInv ==
  ASSUME GridsInv, ClearGrids \/ UNCHANGED vars
  PROVE  GridsInv'
<1>1. Typed
  BY DEF GridsInv
<1>2. UNCHANGED <<world, copy, setups, writer, pc, key, held, ops, todo, reqs, seen, err>>
  BY DEF ClearGrids, vars, sharedVars, readVars, localVars
<1>3. gen' \in 0 .. world.clears
  <2>1. gen \in 0 .. world.clears /\ world.clears \in Nat
    BY <1>1, WorldFacts DEF Typed
  <2>2. CASE ClearGrids
    BY <2>1, <2>2 DEF ClearGrids
  <2>3. CASE UNCHANGED vars
    BY <2>1, <2>3 DEF vars, sharedVars
  <2> QED
    BY <2>2, <2>3
<1>4. Grows /\ DirsInv'
  BY <1>2, SameCopies
<1>5. Typed'
  <2>1. ErrorType' = ErrorType /\ RequestType' = RequestType /\ SetupType' = SetupType
    BY <1>2, SameFiles DEF ErrorType, RequestType, SetupType
  <2> QED
    BY <1>1, <1>2, <1>3, <2>1, SameFiles DEF Typed, CopyType
<1>6. GridsCover'
  BY <1>1, <1>2, <1>4, CoverGrows DEF GridsInv
<1>7. ASSUME NEW v \in Workers PROVE WorkerInv(v)'
  BY <1>1, <1>2, <1>4, OtherInv DEF GridsInv, Waits
<1> QED
  BY <1>4, <1>5, <1>6, <1>7 DEF GridsInv

LEMMA InitInv == Init => GridsInv
<1> SUFFICES ASSUME Init PROVE GridsInv
  OBVIOUS
<1>1. /\ world \in Worlds /\ world.clears \in Nat
  BY GridsAssumption DEF Init
<1>2. Typed
  BY <1>1 DEF Init, Typed, CopyType, SetupType, ErrorType, NoSetup
<1>3. DirsInv
  BY DEF Init, DirsInv
<1>4. GridsCover
  BY DEF Init, GridsCover, NoSetup
<1>5. ASSUME NEW w \in Workers PROVE WorkerInv(w)
  <2>1. /\ pc[w] = "idle" /\ held[w] = <<>> /\ todo[w] = <<>> /\ reqs[w] = <<>> /\ seen[w] = {}
        /\ err[w] = <<"none">>
    BY DEF Init
  <2>2. IsInjective(<<>>) /\ ToSet(<<>>) = {} /\ DOMAIN <<>> = {}
    BY DEF IsInjective, ToSet
  <2>3. PhaseOf(w)
    BY <2>1 DEF PhaseOf, Loading, Asking, Answering
  <2>4. AskOf(w) /\ HandledOf(w) /\ DecodeOf(w) /\ MissingOf(w)
    BY <2>1 DEF AskOf, HandledOf, DecodeOf, MissingOf, Asking
  <2>5. ReqsOf(w)
    BY <2>1, <2>2 DEF ReqsOf
  <2> QED
    BY <2>3, <2>4, <2>5 DEF WorkerInv
<1> QED
  BY <1>2, <1>3, <1>4, <1>5 DEF GridsInv

LEMMA NextInv == GridsInv /\ [Next]_vars => GridsInv'
<1> SUFFICES ASSUME GridsInv, [Next]_vars PROVE GridsInv'
  OBVIOUS
<1>1. ASSUME NEW w \in Workers, ReadSetups(w) \/ Setup(w) PROVE GridsInv'
  <2>1. CASE ReadSetups(w)
    BY <2>1, ReadSetupsInv
  <2>2. CASE WriteSetups(w)
    BY <2>2, WriteSetupsInv
  <2>3. CASE Register(w)
    BY <2>3, RegisterInv
  <2>4. CASE Ask(w)
    BY <2>4, AskInv
  <2>5. CASE AskLocked(w)
    BY <2>5, AskLockedInv
  <2>6. CASE Asked(w)
    BY <2>6, AskedInv
  <2>7. CASE Fetch(w)
    BY <2>7, FetchInv
  <2>8. CASE InsertTin(w)
    BY <2>8, InsertTinInv
  <2>9. CASE Insert(w)
    BY <2>9, InsertInv
  <2>10. CASE Decode(w)
    BY <2>10, DecodeInv
  <2> QED
    BY <1>1, <2>1, <2>2, <2>3, <2>4, <2>5, <2>6, <2>7, <2>8, <2>9, <2>10 DEF Setup
<1>2. CASE ClearGrids \/ UNCHANGED vars
  BY <1>2, ClearInv
<1> QED
  BY <1>1, <1>2 DEF Next

\* Every state satisfies the inductive invariant: what threads in the middle of Conversions::setup
\* have, know and still ask for fits the copies of the files they share.
THEOREM GridsInvariant == Spec => []GridsInv
BY InitInv, NextInv, PTL DEF Spec

\* A transform that Conversions::setup recorded as ready has the grids its area needs, whatever
\* other threads and reads loaded meanwhile and whenever clear_grids was called.
THEOREM GridsCoverHolds == Spec => []GridsCover
<1>1. GridsInv => GridsCover
  BY DEF GridsInv
<1> QED
  BY <1>1, GridsInvariant, PTL

\* load_grids ends with "bytes are missing" only for a file that is shorter than its directories
\* say: no interleaving with the loads of others makes a whole file look cut off.
THEOREM MissingOnlyIfShortHolds == Spec => []MissingOnlyIfShort
<1>1. GridsInv => MissingOnlyIfShort
  BY DEF GridsInv, WorkerInv, MissingOf, MissingOnlyIfShort
<1> QED
  BY <1>1, GridsInvariant, PTL

-----------------------------------------------------------------------------
(***************************************************************************)
(* FetchedOnce.  Who sets up a transform has the write lock of its read    *)
(* (WriterInv), so that in a read by itself nobody else touches the copies *)
(* from one request for them to the next; all blocks that are loaded are   *)
(* decoded by then (DecodedInv, for which the file's lock is never left    *)
(* behind: LockInv), and what a round asks for is still to come and apart  *)
(* (NewOf).                                                                *)
(***************************************************************************)
\* One read, of which no load failed.
Going == \A v, w \in Workers : ReadOf(v) = ReadOf(w) /\ pc[w] # "failed"

\* Who sets up a transform has the write lock of its read.
SettingUp == Loading \cup {"register"}
WriterInv == \A w \in Workers : pc[w] \in SettingUp => writer[ReadOf(w)] = w

\* Who has the lock of a file is to decode what it inserted.
LockInv ==
  \A v \in Workers, c \in Copies : copy[c].lock = v => pc[v] = "decode" /\ c = Receiver(v)

\* Where nobody is to decode and nothing failed, all blocks that are loaded are decoded.
DecodedInv ==
  Going => \A c \in Copies :
    copy[c].lock = Nobody /\ copy[c].dirs = "ok" => Decodable(c) \subseteq copy[c].decoded

\* A request brings bytes its copy does not have.
Brings(c, r) ==
  IF IsTin(c) THEN copy[c].dirs = "none"
  ELSE CutShort(c, r.range) \/ ~(Data(c, r.range) \subseteq copy[c].loaded)

\* The requests of a round each bring bytes, and no two the same.
NewOf(w) ==
  Going /\ ~TwoCopies(w) =>
    \A n \in DOMAIN reqs[w] : \A c \in ToSet(held[w]) : c[1] = reqs[w][n].file =>
      /\ Brings(c, reqs[w][n]) \/ (n = 1 /\ pc[w] = "decode")
      /\ \A m \in DOMAIN reqs[w] : m # n /\ reqs[w][m].file = c[1] =>
           /\ ~IsTin(c)
           /\ Data(c, reqs[w][m].range) \cap Data(c, reqs[w][n].range) = {}

OnceInv == GridsInv /\ WriterInv /\ LockInv /\ DecodedInv /\ \A w \in Workers : NewOf(w)

\* What the step of a thread does to the write lock of its read, and leaves to the others.
LEMMA WriterMoves ==
  ASSUME GridsInv, NEW w \in Workers, ReadSetups(w) \/ Setup(w)
  PROVE  /\ world' = world /\ pc[w] # "failed"
         /\ \A v \in Workers : v # w => pc'[v] = pc[v] /\ held'[v] = held[v] /\ reqs'[v] = reqs[v]
         /\ pc[w] \in SettingUp \/ WriteFree(w)
         /\ \/ writer' = writer /\ (pc[w] \in SettingUp \/ pc'[w] = "write")
            \/ writer' = [writer EXCEPT ![ReadOf(w)] = Nobody] /\ pc'[w] \in {"idle", "failed"}
            \/ writer' = [writer EXCEPT ![ReadOf(w)] = w] /\ WriteFree(w)
<1>1. Typed
  BY DEF GridsInv
<1>2. \A p : Goto(w, p) => pc' = [pc EXCEPT ![w] = p]
  BY DEF Goto
<1>3. ASSUME Leave(w)
      PROVE  /\ writer' = [writer EXCEPT ![ReadOf(w)] = Nobody]
             /\ \A v \in Workers : v # w => reqs'[v] = reqs[v]
  BY <1>1, <1>3, LeaveFacts DEF Leave
<1>4. ASSUME NEW why, Fail(w, why)
      PROVE  /\ Leave(w) /\ pc' = [pc EXCEPT ![w] = "failed"] /\ held' = held
  BY <1>4 DEF Fail, Goto
<1>5. ASSUME NEW setup, Record(w, setup)
      PROVE  Leave(w) /\ pc' = [pc EXCEPT ![w] = "idle"] /\ held' = [held EXCEPT ![w] = <<>>]
  BY <1>5 DEF Record, Goto
<1>6. ASSUME Leave(w), \/ pc' = [pc EXCEPT ![w] = "failed"] /\ held' = held
                       \/ pc' = [pc EXCEPT ![w] = "idle"] /\ held' = [held EXCEPT ![w] = <<>>]
                       \/ pc' = [pc EXCEPT ![w] = "idle"] /\ held' = held
      PROVE  /\ \A v \in Workers : v # w => pc'[v] = pc[v] /\ held'[v] = held[v] /\ reqs'[v] = reqs[v]
             /\ writer' = [writer EXCEPT ![ReadOf(w)] = Nobody] /\ pc'[w] \in {"idle", "failed"}
  BY <1>1, <1>3, <1>6 DEF Typed
<1>7. ASSUME NextRequest(w)
      PROVE  /\ writer' = writer
             /\ \A v \in Workers : v # w => pc'[v] = pc[v] /\ held'[v] = held[v] /\ reqs'[v] = reqs[v]
  BY <1>1, <1>7 DEF NextRequest, Goto, Typed, readVars
<1>8. ASSUME NEW c, NEW ranges, Answer(w, c, ranges)
      PROVE  \A v \in Workers : v # w => pc'[v] = pc[v] /\ reqs'[v] = reqs[v]
  BY <1>1, <1>8 DEF Answer, Goto, Typed
<1>9. CASE ReadSetups(w)
  BY <1>1, <1>9 DEF ReadSetups, Goto, WriteFree, readVars, Typed
<1>10. CASE WriteSetups(w)
  <2>1. pc[w] = "write" /\ WriteFree(w) /\ world' = world
    BY <1>10 DEF WriteSetups
  <2>2. CASE Leave(w) /\ Goto(w, "idle") /\ held' = held
    BY <1>2, <1>6, <2>1, <2>2
  <2>3. CASE \E setup : Record(w, setup)
    BY <1>5, <1>6, <2>1, <2>3
  <2>4. CASE /\ writer' = [writer EXCEPT ![ReadOf(w)] = w] /\ UNCHANGED <<held, reqs>>
             /\ \E p : Goto(w, p)
    BY <1>1, <1>2, <2>1, <2>4 DEF Typed
  <2> QED
    BY <1>10, <2>2, <2>3, <2>4 DEF WriteSetups
<1>11. CASE Register(w)
  BY <1>1, <1>11 DEF Register, Goto, Typed, SettingUp, readVars
<1>12. CASE Ask(w)
  <2>1. pc[w] = "ask" /\ UNCHANGED <<world, writer, held>>
    BY <1>12 DEF Ask, readVars
  <2>2. \/ \E c, ranges : Answer(w, c, ranges)
        \/ Goto(w, "ask_locked") /\ UNCHANGED <<reqs, todo>>
    BY <1>12 DEF Ask
  <2> QED
    BY <1>1, <1>2, <1>8, <2>1, <2>2 DEF Typed, SettingUp, Loading, Asking
<1>13. CASE AskLocked(w)
  <2>1. pc[w] = "ask_locked" /\ UNCHANGED <<world, writer, held>> /\ \E c, ranges : Answer(w, c, ranges)
    BY <1>13 DEF AskLocked, readVars
  <2> QED
    BY <1>8, <2>1 DEF SettingUp, Loading, Asking
<1>14. CASE Asked(w)
  <2>1. pc[w] = "ask" /\ world' = world
    BY <1>14 DEF Asked
  <2>2. \/ \E setup : Record(w, setup)
        \/ \E why : Fail(w, why)
        \/ Goto(w, "fetch") /\ UNCHANGED <<writer, held, reqs>>
    BY <1>14 DEF Asked, readVars, localVars
  <2> QED
    BY <1>1, <1>2, <1>4, <1>5, <1>6, <2>1, <2>2 DEF Typed, SettingUp, Loading, Asking
<1>15. CASE Fetch(w)
  <2>1. pc[w] = "fetch" /\ world' = world
    BY <1>15 DEF Fetch
  <2>2. \/ \E why : Fail(w, why)
        \/ Goto(w, "insert") /\ UNCHANGED <<writer, held, reqs>>
    BY <1>15 DEF Fetch, readVars
  <2> QED
    BY <1>1, <1>2, <1>4, <1>6, <2>1, <2>2 DEF Typed, SettingUp, Loading
<1>16. CASE InsertTin(w) \/ Insert(w) \/ Decode(w)
  <2>1. pc[w] \in {"insert", "decode"} /\ world' = world
    BY <1>16 DEF InsertTin, Insert, Decode
  <2>2. \/ \E why : Fail(w, why)
        \/ Goto(w, "decode") /\ UNCHANGED <<writer, held, reqs>>
        \/ NextRequest(w)
    BY <1>16 DEF InsertTin, Insert, Decode, readVars, localVars
  <2> QED
    BY <1>1, <1>2, <1>4, <1>6, <1>7, <2>1, <2>2 DEF Typed, SettingUp, Loading, Answering
<1> QED
  BY <1>9, <1>10, <1>11, <1>12, <1>13, <1>14, <1>15, <1>16 DEF Setup

\* The write lock of a read is one thread's.
LEMMA WriterInvStep ==
  ASSUME GridsInv, WriterInv, NEW w \in Workers, ReadSetups(w) \/ Setup(w)
  PROVE  WriterInv'
<1>1. /\ writer \in [Reads -> Workers \cup {Nobody}] /\ Nobody \notin Workers
      /\ \A v \in Workers : ReadOf(v) \in Reads /\ ReadOf(v)' = ReadOf(v)
  BY WriterMoves, WorldFacts, GridsAssumption DEF GridsInv, Typed, ReadOf
<1> SUFFICES ASSUME NEW v \in Workers, pc'[v] \in SettingUp PROVE writer'[ReadOf(v)] = v
  BY <1>1 DEF WriterInv, SettingUp
<1>2. "idle" \notin SettingUp /\ "failed" \notin SettingUp /\ "write" \notin SettingUp
  BY DEF SettingUp, Loading, Asking, Answering
<1>3. \A x \in Workers : pc[x] \in SettingUp => writer[ReadOf(x)] = x
  BY DEF WriterInv, SettingUp
<1>4. CASE v = w
  BY <1>1, <1>2, <1>3, <1>4, WriterMoves
<1>5. CASE v # w
  <2>1. pc[v] \in SettingUp /\ writer[ReadOf(v)] = v
    BY <1>3, <1>5, WriterMoves
  <2>2. ReadOf(v) # ReadOf(w) \/ pc[w] \notin SettingUp
    BY <1>3, <1>5, <2>1
  <2>3. ReadOf(v) = ReadOf(w) => ~WriteFree(w)
    BY <1>1, <2>1 DEF WriteFree
  <2> QED
    BY <1>1, <2>1, <2>2, <2>3, WriterMoves
<1> QED
  BY <1>4, <1>5

\* In a read by itself nobody else moves while a thread has requests.
LEMMA NobodyElse ==
  ASSUME GridsInv, WriterInv, Going, NEW w \in Workers, ReadSetups(w) \/ Setup(w),
         NEW v \in Workers, pc[v] \in SettingUp
  PROVE  v = w
<1>1. writer[ReadOf(v)] = v /\ ReadOf(v) = ReadOf(w)
  BY DEF WriterInv, Going
<1>2. pc[w] \in SettingUp => writer[ReadOf(w)] = w
  BY DEF WriterInv, SettingUp
<1>3. pc[w] \in SettingUp \/ WriteFree(w)
  BY WriterMoves
<1> QED
  BY <1>1, <1>2, <1>3, GridsAssumption DEF WriteFree

LEMMA WasGoing ==
  ASSUME GridsInv, NEW w \in Workers, ReadSetups(w) \/ Setup(w), Going'
  PROVE  Going
BY WriterMoves DEF Going, ReadOf

\* Only an answer changes the copies, and who is to decode does that.
LEMMA Untouched ==
  ASSUME NEW w \in Workers, ReadSetups(w) \/ Setup(w), ~InsertTin(w), ~Insert(w), ~Decode(w)
  PROVE  copy' = copy /\ pc[w] # "decode"
BY DEF ReadSetups, Setup, WriteSetups, Register, Ask, AskLocked, Asked, Fetch, sharedVars

\* What the answers do to the copy that gets the bytes.
LEMMA TinCopy ==
  ASSUME GridsInv, NEW w \in Workers, InsertTin(w), NEW c, c = Receiver(w)
  PROVE  /\ c \in Copies /\ IsTin(c) /\ pc[w] = "insert"
         /\ \A x \in Copies : x # c => copy'[x] = copy[x]
         /\ copy'[c].lock = copy[c].lock /\ copy'[c].dirs # "none"
         /\ NextRequest(w) \/ pc'[w] = "failed"
<1> DEFINE parsed == IF File(c).size = File(c).full /\ ~File(c).badDirs THEN "ok" ELSE "bad"
           dirs == IF copy[c].dirs = "none" THEN parsed ELSE copy[c].dirs
<1>1. /\ pc[w] = "insert" /\ pc[w] \in Answering /\ IsTin(c) /\ copy' = [copy EXCEPT ![c].dirs = dirs]
      /\ NextRequest(w) \/ \E why : Fail(w, why)
  BY DEF InsertTin, Answering
<1>2. Typed /\ c \in Copies /\ copy[c] \in CopyType
  BY <1>1, AnswerFacts
<1>3. dirs # "none"
  OBVIOUS
<1> HIDE DEF dirs
<1>4. copy'[c] = [copy[c] EXCEPT !.dirs = dirs] /\ \A x \in Copies : x # c => copy'[x] = copy[x]
  BY <1>1, <1>2 DEF Typed
<1>5. NextRequest(w) \/ pc'[w] = "failed"
  BY <1>1, <1>2 DEF Fail, Goto, Typed
<1> QED
  BY <1>1, <1>2, <1>3, <1>4, <1>5 DEF CopyType

LEMMA InsertCopy ==
  ASSUME GridsInv, NEW w \in Workers, Insert(w), NEW c, c = Receiver(w), NEW r, r = Head(reqs[w])
  PROVE  /\ c \in Copies /\ ~IsTin(c) /\ pc[w] = "insert" /\ copy[c].lock = Nobody
         /\ \A x \in Copies : x # c => copy'[x] = copy[x]
         /\ copy'[c].loaded = copy[c].loaded \cup Data(c, r.range)
         /\ \/ /\ copy'[c].lock = w /\ pc' = [pc EXCEPT ![w] = "decode"]
               /\ UNCHANGED <<held, reqs>>
            \/ /\ copy'[c].lock = Nobody /\ copy'[c].dirs # "ok"
               /\ NextRequest(w) \/ pc'[w] = "failed"
<1> DEFINE loaded == copy[c].loaded \cup Data(c, r.range)
           dirs == IF copy[c].dirs = "none" THEN ParsedDirs(c, loaded) ELSE copy[c].dirs
           lock == IF dirs = "ok" THEN w ELSE Nobody
<1>1. /\ pc[w] = "insert" /\ pc[w] \in Answering /\ ~IsTin(c) /\ copy[c].lock = Nobody
      /\ copy' = [copy EXCEPT ![c].loaded = loaded, ![c].dirs = dirs, ![c].lock = lock]
      /\ \/ dirs = "ok" /\ Goto(w, "decode") /\ UNCHANGED <<held, reqs>>
         \/ dirs # "ok" /\ NextRequest(w)
         \/ dirs # "ok" /\ \E why : Fail(w, why)
  BY DEF Insert, Answering, localVars
<1>2. Typed /\ c \in Copies /\ copy[c] \in CopyType
  BY <1>1, AnswerFacts
<1>3. lock = (IF dirs = "ok" THEN w ELSE Nobody)
  OBVIOUS
<1> HIDE DEF dirs, lock, loaded
<1>4. /\ copy'[c] = [copy[c] EXCEPT !.loaded = loaded, !.dirs = dirs, !.lock = lock]
      /\ \A x \in Copies : x # c => copy'[x] = copy[x]
  BY <1>1, <1>2 DEF Typed
<1>5. copy'[c].loaded = loaded /\ copy'[c].dirs = dirs /\ copy'[c].lock = lock
  BY <1>2, <1>4 DEF CopyType
<1>6. \A why : Fail(w, why) => pc'[w] = "failed"
  BY <1>2 DEF Fail, Goto, Typed
<1> QED
  BY <1>1, <1>2, <1>3, <1>4, <1>5, <1>6 DEF Goto, loaded

LEMMA DecodeCopy ==
  ASSUME GridsInv, NEW w \in Workers, Decode(w), NEW c, c = Receiver(w)
  PROVE  /\ c \in Copies /\ ~IsTin(c) /\ pc[w] = "decode"
         /\ \A x \in Copies : x # c => copy'[x] = copy[x]
         /\ copy'[c].loaded = copy[c].loaded /\ copy'[c].dirs = copy[c].dirs /\ copy'[c].lock = Nobody
         /\ \/ NextRequest(w) /\ Decodable(c) \subseteq copy'[c].decoded
            \/ pc'[w] = "failed"
<1> DEFINE broken == Decodable(c) \cap File(c).badBlocks
           good == {b \in Decodable(c) : \A x \in broken : b < x}
           decoded == copy[c].decoded \cup good
<1>1. /\ pc[w] = "decode" /\ pc[w] \in Answering
      /\ copy' = [copy EXCEPT ![c].decoded = decoded, ![c].lock = Nobody]
      /\ \/ broken = {} /\ NextRequest(w)
         \/ \E why : Fail(w, why)
  BY DEF Decode, Answering
<1>2. Typed /\ c \in Copies /\ copy[c] \in CopyType /\ ~IsTin(c)
  BY <1>1, AnswerFacts DEF WorkerInv, DecodeOf
<1>3. broken = {} => Decodable(c) \subseteq decoded
  OBVIOUS
<1> HIDE DEF broken, decoded
<1>4. /\ copy'[c] = [copy[c] EXCEPT !.decoded = decoded, !.lock = Nobody]
      /\ \A x \in Copies : x # c => copy'[x] = copy[x]
  BY <1>1, <1>2 DEF Typed
<1>5. /\ copy'[c].loaded = copy[c].loaded /\ copy'[c].dirs = copy[c].dirs /\ copy'[c].lock = Nobody
      /\ copy'[c].decoded = decoded
  BY <1>2, <1>4 DEF CopyType
<1>6. \A why : Fail(w, why) => pc'[w] = "failed"
  BY <1>2 DEF Fail, Goto, Typed
<1> QED
  BY <1>1, <1>2, <1>3, <1>4, <1>5, <1>6

\* The lock of a file is with the thread that is to decode, and nobody else takes it.
LEMMA LockInvStep ==
  ASSUME GridsInv, LockInv, NEW w \in Workers, ReadSetups(w) \/ Setup(w)
  PROVE  LockInv'
<1>1. Copies' = Copies /\ w # Nobody
  BY WriterMoves, SameFiles, GridsAssumption
<1> SUFFICES ASSUME NEW v \in Workers, NEW x \in Copies, copy'[x].lock = v
             PROVE  pc'[v] = "decode" /\ x = Receiver(v)'
  BY <1>1 DEF LockInv
\* The lock of another thread stays its own.
<1>2. ASSUME v # w, copy[x].lock = v PROVE pc'[v] = "decode" /\ x = Receiver(v)'
  <2>1. pc[v] = "decode" /\ x = Receiver(v)
    BY <1>2 DEF LockInv
  <2>2. pc'[v] = pc[v] /\ held'[v] = held[v] /\ reqs'[v] = reqs[v]
    BY <1>2, WriterMoves
  <2>3. Receiver(v)' = Receiver(v)
    BY <2>2 DEF Receiver, SelectInSeq
  <2> QED
    BY <2>1, <2>2, <2>3
<1>3. copy[x].lock = w => pc[w] = "decode" /\ x = Receiver(w)
  BY DEF LockInv
<1>4. v # Nobody
  BY GridsAssumption
<1>5. CASE InsertTin(w)
  BY <1>2, <1>3, <1>5, TinCopy
<1>6. CASE Insert(w)
  <2>1. CASE x = Receiver(w)
    <3>1. v = w /\ pc' = [pc EXCEPT ![w] = "decode"] /\ UNCHANGED <<held, reqs>>
      BY <1>4, <1>6, <2>1, InsertCopy
    <3>2. Receiver(w)' = Receiver(w)
      BY <3>1 DEF Receiver, SelectInSeq
    <3>3. pc'[w] = "decode"
      BY <3>1 DEF GridsInv, Typed
    <3> QED
      BY <2>1, <3>1, <3>2, <3>3
  <2>2. CASE x # Receiver(w)
    BY <1>2, <1>3, <1>6, <2>2, InsertCopy
  <2> QED
    BY <2>1, <2>2
<1>7. CASE Decode(w)
  BY <1>2, <1>3, <1>4, <1>7, DecodeCopy
<1>8. CASE ~InsertTin(w) /\ ~Insert(w) /\ ~Decode(w)
  BY <1>2, <1>3, <1>8, Untouched
<1> QED
  BY <1>5, <1>6, <1>7, <1>8

\* An insert that leaves a block to decode keeps the lock until it is decoded, or fails.
LEMMA DecodedInvStep ==
  ASSUME GridsInv, DecodedInv, NEW w \in Workers, ReadSetups(w) \/ Setup(w)
  PROVE  DecodedInv'
<1>1. \A x : Decodable(x)' = {b \in DOMAIN File(x).blocks : Units(File(x).blocks[b]) \subseteq copy'[x].loaded}
  BY WriterMoves, SameFiles DEF Decodable, Units
<1> SUFFICES ASSUME Going', NEW x \in Copies, copy'[x].lock = Nobody, copy'[x].dirs = "ok"
             PROVE  Decodable(x)' \subseteq copy'[x].decoded
  BY WriterMoves, SameFiles DEF DecodedInv
<1>2. Going /\ pc'[w] # "failed"
  BY WasGoing DEF Going
<1>3. ASSUME copy'[x] = copy[x] PROVE Decodable(x)' \subseteq copy'[x].decoded
  BY <1>1, <1>2, <1>3 DEF DecodedInv, Decodable
<1>4. CASE InsertTin(w)
  <2>1. CASE x = Receiver(w)
    <3>1. File(x).blocks = <<>>
      BY <1>4, <2>1, TinCopy, FileFacts DEF GridsInv
    <3>2. DOMAIN File(x).blocks = {}
      BY <3>1
    <3> QED
      BY <1>1, <3>2
  <2>2. CASE x # Receiver(w)
    BY <1>3, <1>4, <2>2, TinCopy
  <2> QED
    BY <2>1, <2>2
<1>5. CASE Insert(w)
  <2>1. x # Receiver(w)
    BY <1>5, InsertCopy, GridsAssumption
  <2> QED
    BY <1>3, <1>5, <2>1, InsertCopy
<1>6. CASE Decode(w)
  <2>1. CASE x = Receiver(w)
    BY <1>1, <1>2, <1>6, <2>1, DecodeCopy DEF Decodable
  <2>2. CASE x # Receiver(w)
    BY <1>3, <1>6, <2>2, DecodeCopy
  <2> QED
    BY <2>1, <2>2
<1>7. CASE ~InsertTin(w) /\ ~Insert(w) /\ ~Decode(w)
  BY <1>3, <1>7, Untouched
<1> QED
  BY <1>4, <1>5, <1>6, <1>7

\* What may be asked of a copy brings bytes it has not, and none twice.
Bringing(c, ranges) ==
  \A n \in DOMAIN ranges :
    /\ Brings(c, [file |-> c[1], range |-> ranges[n]])
    /\ \A m \in DOMAIN ranges : m # n =>
         ~IsTin(c) /\ Data(c, ranges[m]) \cap Data(c, ranges[n]) = {}

\* A block that is wanted and not decoded has a byte that is not loaded, as the file's lock is
\* free: its holder would be this thread.
LEMMA BlocksBring ==
  ASSUME GridsInv, WriterInv, LockInv, DecodedInv, Going, NEW w \in Workers, pc[w] \in Asking,
         todo[w] # <<>>, NEW c, c = Head(todo[w]), ~IsTin(c), copy[c].dirs = "ok"
  PROVE  Bringing(c, BlockRequests(w, c))
<1> DEFINE ranges == BlockRequests(w, c)
<1>1. Typed /\ key[w] \in Keys /\ c \in Copies
  BY AskingFacts
<1>2. /\ ranges \in Seq(RangeType)
      /\ \A n \in DOMAIN ranges : \E b \in DOMAIN File(c).blocks :
             /\ b \notin copy[c].decoded
             /\ Units(File(c).blocks[b]) \subseteq Units(ranges[n])
      /\ \A m, n \in DOMAIN ranges : m # n => Units(ranges[m]) \cap Units(ranges[n]) = {}
  BY <1>1, BlockRequestsFacts
<1> HIDE DEF ranges
<1>3. /\ File(c).blocks \in Seq(RangeType) /\ Apart(File(c)) /\ copy[c] \in CopyType
      /\ File(c).full \in Nat \ {0} /\ File(c).size \in Nat
  BY <1>1, FileFacts
<1>4. copy[c].lock = Nobody
  <2> SUFFICES ASSUME NEW v \in Workers, copy[c].lock = v PROVE FALSE
    BY <1>3 DEF CopyType
  <2>1. pc[v] = "decode" /\ v # w
    BY <1>1 DEF LockInv, Asking
  <2> QED
    BY <2>1 DEF WriterInv, SettingUp, Going, Loading, Answering
<1>5. Decodable(c) \subseteq copy[c].decoded
  BY <1>1, <1>4 DEF DecodedInv
<1>6. ASSUME NEW n \in DOMAIN ranges
      PROVE  CutShort(c, ranges[n]) \/ ~(Data(c, ranges[n]) \subseteq copy[c].loaded)
  <2>1. PICK b \in DOMAIN File(c).blocks :
           b \notin copy[c].decoded /\ Units(File(c).blocks[b]) \subseteq Units(ranges[n])
    BY <1>2
  <2> DEFINE block == File(c).blocks[b]
             range == ranges[n]
  <2>2. PICK x \in Units(block) : x \notin copy[c].loaded
    BY <1>5, <2>1 DEF Decodable
  <2>3. /\ block[1] \in Nat /\ block[2] \in Nat \ {0} /\ block[1] + block[2] <= File(c).full
        /\ range[1] \in Nat /\ range[2] \in Nat \ {0} /\ x \in Units(range)
    <3>1. block \in RangeType /\ range \in RangeType /\ block[1] + block[2] <= File(c).full
      BY <1>2, <1>3 DEF Apart
    <3>2. x \in Units(range)
      BY <2>1, <2>2
    <3> QED
      BY <3>1, <3>2 DEF RangeType
  <2>4. \A u : u[1] \in Nat /\ u[2] \in Nat \ {0} /\ x \in Units(u) => x \in Nat /\ x < u[1] + u[2]
    BY DEF Units
  <2> HIDE DEF block, range
  <2>5. x \in Nat /\ x < block[1] + block[2] /\ x < range[1] + range[2]
    BY <2>2, <2>3, <2>4
  <2>6. CutShort(c, range) \/ x \in Data(c, range)
    <3>1. SUFFICES ASSUME ~CutShort(c, range) PROVE x \in 0 .. File(c).size - 1
      BY <2>3 DEF Data, Whole
    <3>2. x < File(c).size
      BY <1>3, <2>3, <2>5, <3>1 DEF CutShort
    <3> QED
      BY <1>3, <2>5, <3>2
  <2> QED
    BY <2>2, <2>6 DEF range
<1>7. ASSUME NEW n \in DOMAIN ranges, NEW m \in DOMAIN ranges, m # n
      PROVE  Data(c, ranges[m]) \cap Data(c, ranges[n]) = {}
  <2>1. ranges[m][2] # Whole /\ ranges[n][2] # Whole
    BY <1>2 DEF RangeType, Whole
  <2> QED
    BY <1>2, <1>7, <2>1 DEF Data
<1>8. \A n \in DOMAIN ranges : Brings(c, [file |-> c[1], range |-> ranges[n]])
  BY <1>6 DEF Brings
<1> QED
  BY <1>7, <1>8 DEF Bringing, ranges

LEMMA DirsBring ==
  ASSUME GridsInv, NEW c \in Copies, ~IsTin(c), copy[c].dirs = "none"
  PROVE  Bringing(c, <<DirsRequest(c)>>)
<1>1. CutShort(c, DirsRequest(c)) \/ ~(Data(c, DirsRequest(c)) \subseteq copy[c].loaded)
  BY DirsRequestFacts DEF GridsInv
<1> QED
  BY <1>1 DEF Bringing, Brings

LEMMA TinBrings ==
  ASSUME NEW c, IsTin(c), copy[c].dirs = "none"
  PROVE  Bringing(c, << <<0, Whole>> >>)
BY DEF Bringing, Brings

LEMMA NothingBrings == ASSUME NEW c PROVE Bringing(c, <<>>)
BY DEF Bringing

\* The answer's requests are behind those of the round so far.
LEMMA AnsweredRequests ==
  ASSUME Typed, NEW w \in Workers, NEW c \in Copies, NEW ranges \in Seq(Nat \X Nat),
         Answer(w, c, ranges)
  PROVE  \A n \in DOMAIN reqs'[w] :
            \/ n \in DOMAIN reqs[w] /\ reqs'[w][n] = reqs[w][n]
            \/ \E m \in DOMAIN ranges : /\ n = Len(reqs[w]) + m
                                        /\ reqs'[w][n] = [file |-> c[1], range |-> ranges[m]]
<1> DEFINE more == [n \in DOMAIN ranges |-> [file |-> c[1], range |-> ranges[n]]]
           old == reqs[w]
           all == old \o more
<1>1. old \in Seq(RequestType) /\ reqs'[w] = all
  BY DEF Typed, Answer
<1>2. DOMAIN ranges = 1 .. Len(ranges) /\ Len(ranges) \in Nat /\ c[1] \in Names
  BY FileFacts
<1>3. more \in [1 .. Len(ranges) -> RequestType]
  BY <1>2 DEF RequestType
<1>4. more \in Seq(RequestType) /\ Len(more) = Len(ranges)
  <2> HIDE DEF more
  <2> QED
    BY <1>2, <1>3, FunctionIsSeq
<1>5. \A m \in 1 .. Len(ranges) : more[m] = [file |-> c[1], range |-> ranges[m]]
  BY <1>2
<1> HIDE DEF more
<1>6. IsJoin(all, old, more)
  BY <1>1, <1>4, Joined
<1>7. DOMAIN old = 1 .. Len(old)
  BY <1>1
<1> HIDE DEF all, old
<1>8. \A n \in DOMAIN all :
         \/ n \in DOMAIN old /\ all[n] = old[n]
         \/ \E m \in DOMAIN ranges : n = Len(old) + m /\ all[n] = [file |-> c[1], range |-> ranges[m]]
  <2>1. SUFFICES ASSUME NEW n \in DOMAIN all, NEW m \in 1 .. Len(more),
                        n = Len(old) + m, all[n] = more[m]
                 PROVE  /\ m \in DOMAIN ranges
                        /\ all[n] = [file |-> c[1], range |-> ranges[m]]
    BY <1>6, <1>7 DEF IsJoin
  <2> QED
    BY <1>2, <1>4, <1>5, <2>1
<1> QED
  BY <1>1, <1>8 DEF old

LEMMA AnswerNew ==
  ASSUME GridsInv, NEW w \in Workers, NewOf(w), Going, pc[w] \in Asking, todo[w] # <<>>,
         NEW c, c = Head(todo[w]), NEW ranges \in Seq(Nat \X Nat), Answer(w, c, ranges),
         Bringing(c, ranges), UNCHANGED <<world, copy, held>>
  PROVE  NewOf(w)'
<1>1. Typed /\ WorkerInv(w) /\ c \in Copies
  BY AskingFacts DEF GridsInv
<1>2. \A n \in DOMAIN reqs'[w] :
            \/ n \in DOMAIN reqs[w] /\ reqs'[w][n] = reqs[w][n]
            \/ \E m \in DOMAIN ranges : /\ n = Len(reqs[w]) + m
                                        /\ reqs'[w][n] = [file |-> c[1], range |-> ranges[m]]
  BY <1>1, AnsweredRequests
<1>3. TwoCopies(w)' = TwoCopies(w) /\ pc[w] # "decode"
  BY DEF TwoCopies, Asking
<1>4. /\ \A x, r : Brings(x, r)' = Brings(x, r)
      /\ \A x, r : Data(x, r)' = Data(x, r) /\ IsTin(x)' = IsTin(x)
  BY SameFiles DEF Brings, CutShort, File
<1> SUFFICES ASSUME ~TwoCopies(w), NEW n \in DOMAIN reqs'[w], NEW x \in ToSet(held[w]),
                    x[1] = reqs'[w][n].file
             PROVE  /\ Brings(x, reqs'[w][n])
                    /\ \A m \in DOMAIN reqs'[w] : m # n /\ reqs'[w][m].file = x[1] =>
                         /\ ~IsTin(x)
                         /\ Data(x, reqs'[w][m].range) \cap Data(x, reqs'[w][n].range) = {}
  BY <1>3, <1>4 DEF NewOf
<1>5. c \in ToSet(held[w]) /\ \A i \in DOMAIN reqs[w] : reqs[w][i].file # c[1]
  <2>1. c \in ToSet(todo[w])
    BY <1>1, ElementsOf DEF Typed
  <2> QED
    BY <1>1, <2>1 DEF WorkerInv, ReqsOf
<1>6. CASE n \in DOMAIN reqs[w] /\ reqs'[w][n] = reqs[w][n]
  <2>1. ASSUME NEW m \in DOMAIN reqs'[w], reqs'[w][m].file = x[1]
        PROVE  m \in DOMAIN reqs[w] /\ reqs'[w][m] = reqs[w][m]
    <3>1. x[1] # c[1]
      BY <1>5, <1>6
    <3>2. ASSUME NEW j \in DOMAIN ranges, reqs'[w][m] = [file |-> c[1], range |-> ranges[j]]
          PROVE  FALSE
      BY <2>1, <3>1, <3>2
    <3> QED
      BY <1>2, <3>2
  <2> QED
    BY <1>3, <1>6, <2>1 DEF NewOf
<1>7. CASE \E i \in DOMAIN ranges : /\ n = Len(reqs[w]) + i
                                    /\ reqs'[w][n] = [file |-> c[1], range |-> ranges[i]]
  <2>1. PICK i \in DOMAIN ranges : n = Len(reqs[w]) + i
                                   /\ reqs'[w][n] = [file |-> c[1], range |-> ranges[i]]
    BY <1>7
  <2>2. x = c
    BY <1>5, <2>1 DEF TwoCopies
  <2>3. ASSUME NEW m \in DOMAIN reqs'[w], m # n, reqs'[w][m].file = c[1]
        PROVE  ~IsTin(c) /\ Data(c, reqs'[w][m].range) \cap Data(c, reqs'[w][n].range) = {}
    <3>1. PICK j \in DOMAIN ranges : m = Len(reqs[w]) + j
                                     /\ reqs'[w][m] = [file |-> c[1], range |-> ranges[j]]
      BY <1>2, <1>5, <2>3
    <3>2. i # j
      BY <2>1, <2>3, <3>1
    <3> QED
      BY <2>1, <3>1, <3>2 DEF Bringing
  <2> QED
    BY <2>1, <2>2, <2>3 DEF Bringing
<1> QED
  BY <1>2, <1>6, <1>7

\* Brings, of the copies after a step.
Left(x, r) ==
  IF IsTin(x) THEN copy'[x].dirs = "none"
  ELSE CutShort(x, r.range) \/ ~(Data(x, r.range) \subseteq copy'[x].loaded)

\* An answer leaves to the round's other requests what they are to bring.
LEMMA StillBrings ==
  ASSUME GridsInv, NEW w \in Workers, Going, NewOf(w), ~TwoCopies(w),
         InsertTin(w) \/ Insert(w) \/ Decode(w),
         NEW n \in DOMAIN reqs[w], n # 1, NEW x \in ToSet(held[w]), x[1] = reqs[w][n].file
  PROVE  Left(x, reqs[w][n])
<1> DEFINE c == Receiver(w)
           r == reqs[w][n]
<1>1. Typed /\ WorkerInv(w) /\ world' = world /\ pc[w] \in Answering
  BY DEF GridsInv, InsertTin, Insert, Decode, Answering
<1>2. reqs[w] # <<>> /\ reqs[w] \in Seq(RequestType)
  BY <1>1 DEF WorkerInv, PhaseOf, Typed
<1>3. 1 \in DOMAIN reqs[w] /\ reqs[w][1] = Head(reqs[w])
  BY <1>2
<1>4. /\ c[1] = Head(reqs[w]).file /\ c \in ToSet(held[w])
      /\ x[1] = c[1] => x = c
  BY <1>1, <1>2, ReceiverFacts DEF WorkerInv
<1>5. /\ Brings(x, r)
      /\ x = c => ~IsTin(c) /\ Data(c, reqs[w][1].range) \cap Data(c, r.range) = {}
  BY <1>3, <1>4 DEF NewOf
<1>6. x \in Copies
  BY <1>1, ElementsOf DEF Typed
<1>7. copy'[x] = copy[x] => Left(x, r)
  BY <1>5 DEF Brings, Left
<1>8. CASE InsertTin(w)
  BY <1>5, <1>6, <1>7, <1>8, TinCopy DEF Left
<1>9. CASE Insert(w)
  <2>1. CASE x = c
    <3>1. copy'[c].loaded = copy[c].loaded \cup Data(c, reqs[w][1].range)
      BY <1>3, <1>9, InsertCopy
    <3> QED
      BY <1>5, <2>1, <3>1 DEF Brings, Left
  <2> QED
    BY <1>6, <1>7, <1>9, <2>1, InsertCopy
<1>10. CASE Decode(w)
  <2>1. CASE x = c
    <3>1. copy'[c].loaded = copy[c].loaded
      BY <1>10, DecodeCopy
    <3> QED
      BY <1>5, <2>1, <3>1 DEF Brings, Left
  <2> QED
    BY <1>6, <1>7, <1>10, <2>1, DecodeCopy
<1> QED
  BY <1>8, <1>9, <1>10

LEMMA NextNew ==
  ASSUME GridsInv, NEW w \in Workers, Going, NewOf(w), NextRequest(w),
         InsertTin(w) \/ Insert(w) \/ Decode(w)
  PROVE  NewOf(w)'
<1> DEFINE q == reqs[w]
<1>1. Typed /\ WorkerInv(w) /\ world' = world /\ pc[w] \in Answering
  BY DEF GridsInv, InsertTin, Insert, Decode, Answering
<1>2. reqs'[w] = Tail(q) /\ held' = held /\ q # <<>> /\ q \in Seq(RequestType)
  BY <1>1 DEF WorkerInv, PhaseOf, Typed, NextRequest
<1>3. DOMAIN reqs'[w] = 1 .. Len(q) - 1 /\ DOMAIN q = 1 .. Len(q) /\ Len(q) \in Nat
      /\ \A n \in 1 .. Len(q) - 1 : reqs'[w][n] = q[n + 1]
  <2> HIDE DEF q
  <2> QED
    BY <1>2
<1>4. TwoCopies(w)' = TwoCopies(w)
  BY <1>2 DEF TwoCopies
<1>5. \A x, r : Data(x, r)' = Data(x, r) /\ IsTin(x)' = IsTin(x) /\ CutShort(x, r)' = CutShort(x, r)
  BY <1>1, SameFiles DEF CutShort
<1> SUFFICES ASSUME ~TwoCopies(w), NEW n \in DOMAIN reqs'[w], NEW x \in ToSet(held[w]),
                    x[1] = reqs'[w][n].file
             PROVE  /\ Left(x, reqs'[w][n])
                    /\ \A m \in DOMAIN reqs'[w] : m # n /\ reqs'[w][m].file = x[1] =>
                         /\ ~IsTin(x)
                         /\ Data(x, reqs'[w][m].range) \cap Data(x, reqs'[w][n].range) = {}
  BY <1>2, <1>4, <1>5 DEF NewOf, Brings, Left
<1>6. n + 1 \in DOMAIN q /\ n + 1 # 1 /\ reqs'[w][n] = q[n + 1]
  BY <1>3
<1>7. Left(x, q[n + 1])
  BY <1>6, StillBrings
<1>8. ASSUME NEW m \in DOMAIN reqs'[w], m # n, reqs'[w][m].file = x[1]
      PROVE  /\ ~IsTin(x)
             /\ Data(x, reqs'[w][m].range) \cap Data(x, reqs'[w][n].range) = {}
  <2>1. m + 1 \in DOMAIN q /\ m + 1 # n + 1 /\ reqs'[w][m] = q[m + 1]
    BY <1>3, <1>8
  <2> QED
    BY <1>6, <1>8, <2>1 DEF NewOf
<1> QED
  BY <1>6, <1>7, <1>8

\* A thread that asks for nothing has nothing to bring.
LEMMA NoRequests ==
  ASSUME NEW w \in Workers, reqs'[w] = <<>>
  PROVE  NewOf(w)'
<1>1. DOMAIN reqs'[w] = {}
  OBVIOUS
<1> QED
  BY <1>1 DEF NewOf

\* What is asked for stays as it is.
LEMMA SameNew ==
  ASSUME NEW w \in Workers, NewOf(w), Going, pc[w] # "decode",
         reqs'[w] = reqs[w], held'[w] = held[w], world' = world, copy' = copy
  PROVE  NewOf(w)'
<1>1. \A x, r : Data(x, r)' = Data(x, r) /\ IsTin(x)' = IsTin(x) /\ CutShort(x, r)' = CutShort(x, r)
  BY SameFiles DEF CutShort
<1>2. TwoCopies(w)' = TwoCopies(w)
  BY DEF TwoCopies
<1> QED
  BY <1>1, <1>2 DEF NewOf, Brings

LEMMA InsertNew ==
  ASSUME GridsInv, NEW w \in Workers, Going, NewOf(w), Insert(w),
         pc' = [pc EXCEPT ![w] = "decode"], UNCHANGED <<held, reqs>>
  PROVE  NewOf(w)'
<1>1. world' = world /\ pc'[w] = "decode"
  BY DEF Insert, GridsInv, Typed
<1>2. \A x, r : Data(x, r)' = Data(x, r) /\ IsTin(x)' = IsTin(x) /\ CutShort(x, r)' = CutShort(x, r)
  BY <1>1, SameFiles DEF CutShort
<1>3. TwoCopies(w)' = TwoCopies(w)
  BY DEF TwoCopies
<1>4. ASSUME ~TwoCopies(w), NEW n \in DOMAIN reqs[w], n # 1, NEW x \in ToSet(held[w]),
             x[1] = reqs[w][n].file
      PROVE  Left(x, reqs[w][n])
  BY <1>4, StillBrings
<1> QED
  BY <1>1, <1>2, <1>3, <1>4 DEF NewOf, Brings, Left

\* The thread that moves, in a read by itself.
LEMMA NewStep ==
  ASSUME GridsInv, WriterInv, LockInv, DecodedInv, NEW w \in Workers, NewOf(w), Going,
         ReadSetups(w) \/ Setup(w), pc'[w] # "failed"
  PROVE  NewOf(w)'
<1>1. Typed /\ WorkerInv(w)
  BY DEF GridsInv
<1>2. pc[w] \notin Loading => reqs[w] = <<>>
  BY <1>1 DEF WorkerInv, PhaseOf
<1>3. Leave(w) => reqs'[w] = <<>>
  BY <1>1, LeaveFacts
<1>4. \A why : ~Fail(w, why)
  BY <1>1 DEF Fail, Goto, Typed
<1>5. \A setup : Record(w, setup) => Leave(w)
  BY DEF Record
<1>6. CASE ReadSetups(w) \/ WriteSetups(w) \/ Register(w)
  <2>1. reqs[w] = <<>>
    BY <1>2, <1>6 DEF ReadSetups, WriteSetups, Register, Loading, Asking, Answering
  <2>2. reqs'[w] = reqs[w] \/ Leave(w)
    BY <1>5, <1>6 DEF ReadSetups, WriteSetups, Register
  <2> QED
    BY <1>3, <2>1, <2>2, NoRequests
<1>7. CASE Ask(w) \/ AskLocked(w)
  <2> DEFINE c == Head(todo[w])
  <2>1. pc[w] \in Asking /\ pc[w] # "decode" /\ UNCHANGED <<world, copy, held>>
    BY <1>7 DEF Ask, AskLocked, Asking, sharedVars
  <2>2. todo[w] # <<>>
    BY <1>1, <1>7 DEF Ask, AskLocked, WorkerInv, PhaseOf
  <2>3. c \in Copies /\ copy[c] \in CopyType
    BY <1>1, <2>1, <2>2, AskingFacts, FileFacts
  <2>4. ASSUME NEW ranges, Askable(w, c, ranges), Bringing(c, ranges), Answer(w, c, ranges)
        PROVE  NewOf(w)'
    <3>1. ranges \in Seq(Nat \X Nat)
      BY <2>4 DEF Askable
    <3> HIDE DEF c
    <3>2. c = Head(todo[w])
      BY DEF c
    <3> QED
      BY <2>1, <2>2, <2>4, <3>1, <3>2, AnswerNew
  <2>5. \/ IsTin(c) /\ copy[c].dirs = "none" /\ Answer(w, c, << <<0, Whole>> >>)
        \/ IsTin(c) /\ copy[c].dirs # "none" /\ Answer(w, c, <<>>)
        \/ ~IsTin(c) /\ copy[c].dirs = "none" /\ Answer(w, c, <<DirsRequest(c)>>)
        \/ ~IsTin(c) /\ copy[c].dirs = "ok" /\ Answer(w, c, BlockRequests(w, c))
        \/ copy[c].dirs = "bad" /\ Answer(w, c, <<>>)
        \/ reqs' = reqs
    <3>1. CASE Ask(w)
      BY <3>1 DEF Ask
    <3>2. CASE AskLocked(w)
      <4>1. ~IsTin(c) /\ Answer(w, c, RangesLocked(w, c))
        BY <1>1, <3>2 DEF AskLocked, WorkerInv, PhaseOf
      <4>2. copy[c].dirs \in {"none", "ok", "bad"}
        BY <2>3 DEF CopyType
      <4> QED
        BY <4>1, <4>2 DEF RangesLocked
    <3> QED
      BY <1>7, <3>1, <3>2
  <2>6. CASE IsTin(c) /\ copy[c].dirs = "none" /\ Answer(w, c, << <<0, Whole>> >>)
    BY <2>1, <2>2, <2>4, <2>6, TinAskable, TinBrings
  <2>7. CASE (copy[c].dirs = "bad" \/ (IsTin(c) /\ copy[c].dirs # "none")) /\ Answer(w, c, <<>>)
    BY <2>1, <2>2, <2>4, <2>7, NothingAskable, NothingBrings
  <2>8. CASE ~IsTin(c) /\ copy[c].dirs = "none" /\ Answer(w, c, <<DirsRequest(c)>>)
    BY <2>1, <2>2, <2>3, <2>4, <2>8, DirsAskable, DirsBring
  <2>9. CASE ~IsTin(c) /\ copy[c].dirs = "ok" /\ Answer(w, c, BlockRequests(w, c))
    BY <2>1, <2>2, <2>4, <2>9, BlocksAskable, BlocksBring
  <2>10. CASE reqs' = reqs
    BY <2>1, <2>10, SameNew
  <2> QED
    BY <2>5, <2>6, <2>7, <2>8, <2>9, <2>10
<1>8. CASE Asked(w) \/ Fetch(w)
  <2>1. /\ pc[w] # "decode" /\ UNCHANGED <<world, copy>>
        /\ Leave(w) \/ UNCHANGED <<held, reqs>>
    BY <1>4, <1>5, <1>8 DEF Asked, Fetch, sharedVars, localVars
  <2> QED
    BY <1>3, <2>1, NoRequests, SameNew
<1>9. CASE InsertTin(w)
  BY <1>9, NextNew, TinCopy
<1>10. CASE Insert(w)
  BY <1>10, NextNew, InsertNew, InsertCopy
<1>11. CASE Decode(w)
  BY <1>11, NextNew, DecodeCopy
<1> QED
  BY <1>6, <1>7, <1>8, <1>9, <1>10, <1>11 DEF Setup

LEMMA OnceInit == Init => OnceInv
<1> SUFFICES ASSUME Init PROVE OnceInv
  OBVIOUS
<1>1. GridsInv
  BY InitInv
<1>2. WriterInv
  BY DEF Init, WriterInv, SettingUp, Loading, Asking, Answering
<1>3. LockInv /\ DecodedInv
  BY GridsAssumption DEF Init, LockInv, DecodedInv
<1>4. ASSUME NEW w \in Workers PROVE NewOf(w)
  <2>1. DOMAIN reqs[w] = {}
    BY DEF Init
  <2> QED
    BY <2>1 DEF NewOf
<1> QED
  BY <1>1, <1>2, <1>3, <1>4 DEF OnceInv

LEMMA OnceNext == OnceInv /\ [Next]_vars => OnceInv'
<1> SUFFICES ASSUME OnceInv, [Next]_vars PROVE OnceInv'
  OBVIOUS
<1>1. GridsInv'
  BY NextInv DEF OnceInv
<1>2. ASSUME NEW w \in Workers, ReadSetups(w) \/ Setup(w) PROVE OnceInv'
  <2>1. WriterInv' /\ LockInv' /\ DecodedInv'
    BY <1>2, WriterInvStep, LockInvStep, DecodedInvStep DEF OnceInv
  <2>2. ASSUME NEW v \in Workers PROVE NewOf(v)'
    <3>1. SUFFICES ASSUME Going', reqs'[v] # <<>> PROVE NewOf(v)'
      <4>1. ~Going' => NewOf(v)'
        BY DEF NewOf
      <4> QED
        BY <3>1, <4>1, NoRequests
    <3>2. Going /\ pc'[w] # "failed"
      BY <1>2, <3>1, WasGoing DEF Going, OnceInv
    <3>3. CASE v = w
      BY <1>2, <3>2, <3>3, NewStep DEF OnceInv
    <3>4. CASE v # w
      <4>1. reqs[v] # <<>>
        BY <1>2, <3>1, <3>4, WriterMoves DEF OnceInv
      <4>2. pc[v] \in SettingUp
        BY <4>1 DEF OnceInv, GridsInv, WorkerInv, PhaseOf, SettingUp
      <4> QED
        BY <1>2, <3>2, <3>4, <4>2, NobodyElse DEF OnceInv
    <3> QED
      BY <3>3, <3>4
  <2> QED
    BY <1>1, <2>1, <2>2 DEF OnceInv
<1>3. CASE ClearGrids \/ UNCHANGED vars
  <2>1. UNCHANGED <<world, copy, writer, pc, held, reqs>>
    BY <1>3 DEF ClearGrids, vars, sharedVars, readVars, localVars
  <2>2. WriterInv' /\ LockInv'
    <3>1. \A w : Receiver(w)' = Receiver(w) /\ ReadOf(w)' = ReadOf(w)
      BY <2>1 DEF Receiver, SelectInSeq, ReadOf
    <3> QED
      BY <2>1, <3>1, SameFiles DEF OnceInv, WriterInv, LockInv
  <2>3. Going' = Going
    BY <2>1 DEF Going, ReadOf
  <2>4. DecodedInv'
    BY <2>1, <2>3, SameFiles DEF OnceInv, DecodedInv, Decodable
  <2>5. ASSUME NEW w \in Workers PROVE NewOf(w)'
    <3>1. \A x, r : Data(x, r)' = Data(x, r) /\ IsTin(x)' = IsTin(x) /\ CutShort(x, r)' = CutShort(x, r)
      BY <2>1, SameFiles DEF CutShort
    <3>2. TwoCopies(w)' = TwoCopies(w) /\ NewOf(w)
      BY <2>1 DEF TwoCopies, OnceInv
    <3> QED
      BY <2>1, <2>3, <3>1, <3>2 DEF NewOf, Brings
  <2> QED
    BY <1>1, <2>2, <2>4, <2>5 DEF OnceInv
<1> QED
  BY <1>2, <1>3 DEF Next

\* While a thread of a read holds the write lock of Conversions::setups, the others bring nothing:
\* what it asked for has not come when it inserts it, so that each byte is fetched once, of
\* whatever files the srsNames share.
THEOREM FetchedOnceHolds == Spec => []FetchedOnce
<1>1. OnceInv => FetchedOnce
  <2> SUFFICES ASSUME OnceInv, NEW w \in Workers, pc[w] = "insert", ~TwoCopies(w),
                      \A x \in Workers : ReadOf(x) = ReadOf(w) /\ pc[x] # "failed"
               PROVE  Brings(Receiver(w), Head(reqs[w]))
    BY DEF FetchedOnce, Brings
  <2>1. Typed /\ WorkerInv(w) /\ NewOf(w) /\ Going
    BY DEF OnceInv, GridsInv, Going
  <2>2. reqs[w] # <<>> /\ reqs[w] \in Seq(RequestType)
    BY <2>1 DEF WorkerInv, PhaseOf, Typed, Answering
  <2>3. 1 \in DOMAIN reqs[w] /\ reqs[w][1] = Head(reqs[w])
    BY <2>2
  <2>4. Receiver(w) \in ToSet(held[w]) /\ Receiver(w)[1] = Head(reqs[w]).file
    BY <2>1, <2>2, ReceiverFacts DEF WorkerInv
  <2> QED
    BY <2>1, <2>3, <2>4 DEF NewOf
<1>2. Spec => []OnceInv
  BY OnceInit, OnceNext, PTL DEF Spec
<1> QED
  BY <1>1, <1>2, PTL

=============================================================================
