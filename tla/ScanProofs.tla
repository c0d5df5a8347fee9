----------------------------- MODULE ScanProofs -----------------------------
(***************************************************************************)
(* What TLAPS proves about a scan (module Scan): that its outcome is that  *)
(* of the input, that it sees its extent, each feature once, that it says  *)
(* whether features were left out, and that its sources are accounted for. *)
(*                                                                         *)
(* The argument follows what was split: the features of the chunks that    *)
(* were cut from the sources so far, with those of the sources no worker   *)
(* will come back to.  Of a budget it is the beginning, so how much was    *)
(* split and how much is left of the budget tell which of the features of  *)
(* the next chunk are wanted.                                              *)
(***************************************************************************)
EXTENDS Scan, SequenceLemmas

-----------------------------------------------------------------------------
\* The invariant.

\* The features a budget counts, the budgets there are, the sources that are no longer open,
\* and the features that were split: behind them, no worker comes back.
Scope(b) == {f \in AllFeatures : b = 0 \/ f[1] = b}
Budgets == {b \in 0 .. Len(inp) : Sampled /\ (b = 0) = (extent.kind = "Sample")}
Closed(s) == s <= next /\ \A t \in open : t.source # s
SplitSet == {f \in AllFeatures : f[1] <= next /\ \A t \in open : t.source = f[1] => f[2] <= t.given}
SplitOf(b) == SplitSet \cap Scope(b)

StreamType ==
    [source: Nat, id: Nat, state: {"Unopened", "Splitting", "Failed"}, given: Nat]
OpenedType == [name: 1 .. Len(inp), status: {"Pending", "Read", "Skipped"}]
ItemType ==
    [kind: {"none", "chunk", "error", "panic"}, source: Nat, id: Nat, features: SUBSET AllFeatures]
PartialType ==
    [features: SUBSET AllFeatures, count: Nat, ids: SUBSET (Nat \X Nat), error: BOOLEAN]

\* The types of what the workers share in take(), and of what each has of its own.
SourcesTyped ==
    /\ next \in 0 .. Len(inp)
    /\ opened \in Seq(OpenedType)
    /\ IsFiniteSet(open) /\ Cardinality(open) <= MaxOpen
    /\ \A t \in open :
        /\ t \in StreamType
        /\ t.source \in 1 .. next
        /\ t.id \in 0 .. Len(opened)
        /\ t.given \in 0 .. Len(inp[t.source].chunks)
    /\ left \in [0 .. Len(inp) -> 0 .. extent.max]
    /\ usedUp \in [0 .. Len(inp) -> BOOLEAN]
    /\ sampled \in BOOLEAN /\ inputEnded \in BOOLEAN

WorkersTyped ==
    /\ stop \in BOOLEAN
    /\ pc \in [Workers -> {"new", "check", "take", "step", "done", "panicked"}]
    /\ item \in [Workers -> ItemType]
    /\ partial \in [Workers -> PartialType]
    /\ \A w \in Workers : pc[w] = "step" <=> item[w].kind # "none"
    /\ caller \in {"spawn", "leave"} \cup Returned

Typed == inp \in Inputs /\ extent \in Extents /\ SourcesTyped /\ WorkersTyped

\* A source is open once, one at a time for a sample of the input; a stream whose budget is used
\* up is one that is being split.
Streams ==
    /\ \A t, u \in open : t.source = u.source => t = u
    /\ extent.kind = "Sample" => \A t \in open : t.source = next
    /\ \A t \in open : t.state = "Failed" <=> inp[t.source].last = "unlisted"
    /\ \A t \in open : usedUp[BudgetOf(t.source)] =>
        t.state = "Splitting" /\ inp[t.source].chunks # <<>>

\* What is left of a budget is the extent less what was split of it; it is used up once more was
\* split than the extent has, and that is when the scan is sampled.
BudgetsKept ==
    /\ \A b \in 0 .. Len(inp) : usedUp[b] => b \in Budgets
    /\ \A b \in Budgets :
        IF usedUp[b] THEN Cardinality(SplitOf(b)) > extent.max
        ELSE left[b] + Cardinality(SplitOf(b)) = extent.max
    /\ sampled <=> \E b \in Budgets : usedUp[b]
    /\ sampled => Wanted # AllFeatures
    /\ 1 .. next \subseteq Listed

Fine == {"read", "no header", "no member"}

\* While the input goes on, a source that was closed is one that ended without an error.
ClosedWell ==
    inputEnded \/ \A s \in 1 .. next : Closed(s) =>
        /\ inp[s].last # "unlisted"
        /\ s \in ReadToEnd => inp[s].last \in Fine

AllListed == \A s \in 1 .. next : inp[s].last # "unlisted"
FinalStatus(s) == IF HasNothing(s) THEN "Skipped" ELSE "Read"
Known(p) == p[1] \in 1 .. next /\ p[2] = p[1]

\* The entry of a source is at the index of its id, with the status it has come to.
ListedSources ==
    /\ Len(opened) = next
    /\ \A s \in 1 .. next :
        /\ opened[s].name = s
        /\ Closed(s) => inputEnded \/ opened[s].status = FinalStatus(s)
    /\ \A t \in open :
        /\ t.id = t.source
        /\ opened[t.source].status = IF t.state = "Unopened" THEN "Pending" ELSE "Read"

\* A chunk carries the source's id to the partial.
IdsKnown ==
    \A w \in Workers :
        /\ item[w].kind = "chunk" => Known(<<item[w].source, item[w].id>>)
        /\ \A p \in partial[w].ids : Known(p)

Listing == AllListed => ListedSources /\ IdsKnown

\* A worker has met an error or a panic.
Hurt ==
    \E w \in Workers : item[w].kind \in {"error", "panic"} \/ partial[w].error \/ pc[w] = "panicked"

Taken == UNION {partial[w].features \cup item[w].features : w \in Workers}

\* No feature is with two workers, or twice with one.
Apart ==
    /\ \A v, w \in Workers : v # w =>
        /\ partial[v].features \cap partial[w].features = {}
        /\ item[v].features \cap item[w].features = {}
    /\ \A v, w \in Workers : partial[v].features \cap item[w].features = {}

\* What is wanted of the split features was taken: it is lost only where a worker was hurt.
TakenOnce ==
    /\ Taken \subseteq Wanted \cap SplitSet
    /\ Hurt \/ Wanted \cap SplitSet \subseteq Taken
    /\ Apart

\* A partial counts its features, which were all scanned without an error.
Counted ==
    \A w \in Workers :
        /\ partial[w].count = Cardinality(partial[w].features)
        /\ \A f \in partial[w].features : KindOf(f) = "ok"
        /\ item[w].kind = "none" => item[w].features = {}

\* Nothing is left to take: no stream is open and none will be.
Exhausted == open = {} /\ (next = Len(inp) \/ usedUp[0])

\* What hurt a worker is an error or a panic the input has in the extent.
CausesKnown ==
    \A w \in Workers :
        /\ item[w].kind = "error" \/ partial[w].error => "error" \in Causes
        /\ item[w].kind = "panic" \/ pc[w] = "panicked" => "panic" \in Causes

\* A worker ends before the sources are exhausted only where one was hurt.
EndsWell ==
    /\ inputEnded => Hurt
    /\ caller \notin {"leave", "spawn error"} =>
        /\ stop => Hurt
        /\ Hurt \/ Exhausted \/ \A w \in Workers : pc[w] # "done"

\* run returns once every worker has ended, with the result of their partials.
Returns ==
    caller \in Returned \ {"spawn error"} =>
        /\ \A w \in Workers : pc[w] \in {"done", "panicked"}
        /\ caller = Result

Inv == /\ Typed /\ Streams /\ BudgetsKept /\ ClosedWell /\ Listing
       /\ TakenOnce /\ Counted /\ CausesKnown /\ EndsWell /\ Returns

-----------------------------------------------------------------------------
\* The input and its features.

\* A source is chunks that have features, and how it ends.
LEMMA SourcesAre ==
  ASSUME inp \in Inputs
  PROVE  /\ Len(inp) \in Nat /\ DOMAIN inp = 1 .. Len(inp)
         /\ \A s \in 1 .. Len(inp) :
            /\ inp[s].last \in Ends
            /\ Len(inp[s].chunks) \in Nat
            /\ DOMAIN inp[s].chunks = 1 .. Len(inp[s].chunks)
            /\ inp[s].chunks = <<>> <=> Len(inp[s].chunks) = 0
            /\ inp[s].last \in {"no header", "no member", "unlisted"} => Len(inp[s].chunks) = 0
            /\ \A k \in 1 .. Len(inp[s].chunks) :
                /\ Len(inp[s].chunks[k]) \in Nat \ {0}
                /\ \A n \in 1 .. Len(inp[s].chunks[k]) : inp[s].chunks[k][n] \in FeatureKinds
<1>1. inp \in Seq(SourceType)
  BY ScanAssumption
<1>2. Len(inp) \in Nat /\ DOMAIN inp = 1 .. Len(inp)
  BY <1>1, LenProperties
<1>3. ASSUME NEW s \in 1 .. Len(inp)
      PROVE  /\ inp[s].last \in Ends
             /\ Len(inp[s].chunks) \in Nat
             /\ DOMAIN inp[s].chunks = 1 .. Len(inp[s].chunks)
             /\ inp[s].chunks = <<>> <=> Len(inp[s].chunks) = 0
             /\ inp[s].last \in {"no header", "no member", "unlisted"} => Len(inp[s].chunks) = 0
             /\ \A k \in 1 .. Len(inp[s].chunks) :
                 /\ Len(inp[s].chunks[k]) \in Nat \ {0}
                 /\ \A n \in 1 .. Len(inp[s].chunks[k]) : inp[s].chunks[k][n] \in FeatureKinds
  <2>1. inp[s] \in SourceType
    BY <1>1, ElementOfSeq
  <2>2. inp[s].chunks \in Seq(Seq(FeatureKinds)) /\ inp[s].last \in Ends
    BY <2>1 DEF SourceType
  <2>3. /\ Len(inp[s].chunks) \in Nat
        /\ DOMAIN inp[s].chunks = 1 .. Len(inp[s].chunks)
        /\ inp[s].chunks = <<>> <=> Len(inp[s].chunks) = 0
    BY <2>2, LenProperties, EmptySeq
  <2>4. ASSUME NEW k \in 1 .. Len(inp[s].chunks)
        PROVE  /\ Len(inp[s].chunks[k]) \in Nat \ {0}
               /\ \A n \in 1 .. Len(inp[s].chunks[k]) : inp[s].chunks[k][n] \in FeatureKinds
    <3>1. inp[s].chunks[k] \in Seq(FeatureKinds)
      BY <2>2, ElementOfSeq
    <3>2. inp[s].chunks[k] # <<>>
      BY ScanAssumption, <1>2, <2>3
    <3>3. Len(inp[s].chunks[k]) \in Nat /\ (inp[s].chunks[k] = <<>> <=> Len(inp[s].chunks[k]) = 0)
      BY <3>1, LenProperties, EmptySeq
    <3>4. \A n \in 1 .. Len(inp[s].chunks[k]) : inp[s].chunks[k][n] \in FeatureKinds
      BY <3>1, ElementOfSeq
    <3> QED
      BY <3>2, <3>3, <3>4
  <2>5. inp[s].last \in {"no header", "no member", "unlisted"} => inp[s].chunks = <<>>
    BY ScanAssumption, <1>2
  <2> QED
    BY <2>2, <2>3, <2>4, <2>5
<1> QED
  BY <1>2, <1>3

\* The features of a source, and of the input, by their three numbers.
IsFeature(f) ==
    /\ f \in Nat \X Nat \X Nat
    /\ f[1] \in 1 .. Len(inp)
    /\ f[2] \in 1 .. Len(inp[f[1]].chunks)
    /\ f[3] \in 1 .. Len(inp[f[1]].chunks[f[2]])

\* The features of a source are those whose source is it.
LEMMA OfASource ==
  ASSUME inp \in Inputs, NEW s \in 1 .. Len(inp), NEW f
  PROVE  f \in SourceFeatures(s) <=> IsFeature(f) /\ f[1] = s
<1>1. f \in SourceFeatures(s) <=> \E k \in 1 .. Len(inp[s].chunks) :
          \E n \in 1 .. Len(inp[s].chunks[k]) : f = <<s, k, n>>
  <2>1. \A k, m : f \in Features(s, k, m) <=> \E n \in 1 .. m : f = <<s, k, n>>
    BY DEF Features
  <2>2. f \in SourceFeatures(s) <=>
            \E k \in 1 .. Len(inp[s].chunks) : f \in Features(s, k, Len(inp[s].chunks[k]))
    BY SourcesAre DEF SourceFeatures
  <2> QED
    BY <2>1, <2>2
<1>2. ASSUME IsFeature(f), f[1] = s
      PROVE  f \in SourceFeatures(s)
  <2>1. f = <<f[1], f[2], f[3]>>
    BY <1>2 DEF IsFeature
  <2> QED
    BY <1>1, <1>2, <2>1 DEF IsFeature
<1>3. ASSUME NEW k \in 1 .. Len(inp[s].chunks), NEW n \in 1 .. Len(inp[s].chunks[k]), f = <<s, k, n>>
      PROVE  IsFeature(f) /\ f[1] = s
  <2>1. f[1] = s /\ f[2] = k /\ f[3] = n
    BY <1>3
  <2>2. s \in Nat /\ k \in Nat /\ n \in Nat
    <3>1. Len(inp) \in Nat /\ Len(inp[s].chunks) \in Nat /\ Len(inp[s].chunks[k]) \in Nat
      BY SourcesAre
    <3> QED
      BY <3>1
  <2> QED
    BY <1>3, <2>1, <2>2 DEF IsFeature
<1> QED
  BY <1>1, <1>2, <1>3

\* The features of the input are the triples that name one of its chunks' features.
LEMMA OfTheInput ==
  ASSUME inp \in Inputs, NEW f
  PROVE  f \in AllFeatures <=> IsFeature(f)
<1>1. f \in AllFeatures <=> \E s \in 1 .. Len(inp) : f \in SourceFeatures(s)
  BY SourcesAre DEF AllFeatures
<1>2. IsFeature(f) => f[1] \in 1 .. Len(inp)
  BY DEF IsFeature
<1> QED
  BY <1>1, <1>2, OfASource

\* A union of finite sets, one for each number up to n, is finite.
LEMMA FiniteUnion ==
  ASSUME NEW F, NEW n \in Nat, \A i \in 1 .. n : IsFiniteSet(F[i])
  PROVE  IsFiniteSet(UNION {F[i] : i \in 1 .. n})
<1> DEFINE U(m) == UNION {F[i] : i \in 1 .. m}
           Good == {m \in Nat : m <= n => IsFiniteSet(U(m))}
<1>1. 0 \in Good
  <2>1. U(0) = {}
    OBVIOUS
  <2> QED
    BY <2>1, FS_EmptySet
<1>2. ASSUME NEW m \in Good PROVE m + 1 \in Good
  <2>1. U(m + 1) = U(m) \cup F[m + 1]
    <3>1. 1 .. m + 1 = (1 .. m) \cup {m + 1}
      OBVIOUS
    <3> QED
      BY <3>1
  <2>2. ASSUME m + 1 <= n PROVE IsFiniteSet(U(m + 1))
    <3>1. IsFiniteSet(U(m)) /\ IsFiniteSet(F[m + 1])
      BY <2>2
    <3>2. \A A, B : IsFiniteSet(A) /\ IsFiniteSet(B) => IsFiniteSet(A \cup B)
      BY FS_Union
    <3> HIDE DEF U
    <3> QED
      BY <2>1, <3>1, <3>2
  <2> HIDE DEF U
  <2> QED
    BY <2>2
<1> HIDE DEF U
<1>3. Good = Nat
  BY <1>1, <1>2, Induction
<1>4. IsFiniteSet(U(n))
  BY <1>3
<1> QED
  BY <1>4 DEF U

\* The first n features of a chunk.
LEMMA OfAChunk ==
  ASSUME NEW s, NEW k, NEW n \in Nat
  PROVE  IsFiniteSet(Features(s, k, n)) /\ Cardinality(Features(s, k, n)) = n
<1> DEFINE F == [i \in 1 .. n |-> <<s, k, i>>]
<1>1. IsFiniteSet(1 .. n) /\ Cardinality(1 .. n) = n
  BY FS_Interval
<1>2. F \in Bijection(1 .. n, Features(s, k, n))
  BY DEF Bijection, Injection, Surjection, IsInjective, Features
<1>3. ExistsBijection(1 .. n, Features(s, k, n))
  BY <1>2 DEF ExistsBijection
<1> QED
  BY <1>1, <1>3, FS_Bijection

\* An input has finitely many features.
LEMMA FiniteInput ==
  ASSUME inp \in Inputs
  PROVE  IsFiniteSet(AllFeatures)
<1>1. ASSUME NEW s \in 1 .. Len(inp) PROVE IsFiniteSet(SourceFeatures(s))
  <2> DEFINE F == [k \in 1 .. Len(inp[s].chunks) |-> Features(s, k, Len(inp[s].chunks[k]))]
             n == Len(inp[s].chunks)
  <2>1. n \in Nat /\ \A k \in 1 .. n : IsFiniteSet(F[k])
    BY SourcesAre, OfAChunk
  <2>2. SourceFeatures(s) = UNION {F[k] : k \in 1 .. n}
    BY SourcesAre DEF SourceFeatures
  <2> HIDE DEF F, n
  <2> QED
    BY <2>1, <2>2, FiniteUnion
<1> DEFINE F == [s \in 1 .. Len(inp) |-> SourceFeatures(s)]
           n == Len(inp)
<1>2. n \in Nat /\ \A s \in 1 .. n : IsFiniteSet(F[s])
  BY <1>1, SourcesAre
<1>3. AllFeatures = UNION {F[s] : s \in 1 .. n}
  BY SourcesAre DEF AllFeatures
<1> HIDE DEF F, n
<1> QED
  BY <1>2, <1>3, FiniteUnion

-----------------------------------------------------------------------------
\* What is wanted, and in which order.

\* The features of f's budget that come before it.
Earlier(f) == {g \in Scope(BudgetOf(f[1])) : Before(g, f)}

\* An extent has a kind and a limit.
LEMMA ExtentIs ==
  ASSUME extent \in Extents
  PROVE  extent.kind \in {"Full", "Sample", "SamplePerSource"} /\ extent.max \in Nat
BY ScanAssumption DEF ExtentType

\* The budget 0 is for the features of the input, that of a source for the source's.
LEMMA ScopeIs ==
  ASSUME inp \in Inputs
  PROVE  /\ Scope(0) = AllFeatures
         /\ \A s \in 1 .. Len(inp) : Scope(s) = SourceFeatures(s)
         /\ \A b : Scope(b) \subseteq AllFeatures /\ IsFiniteSet(Scope(b))
<1>0. Len(inp) \in Nat
  BY SourcesAre
<1>1. \A b : Scope(b) \subseteq AllFeatures /\ IsFiniteSet(Scope(b))
  <2>1. ASSUME NEW b PROVE Scope(b) \subseteq AllFeatures
    BY DEF Scope
  <2>2. \A b : Scope(b) \in SUBSET AllFeatures
    BY <2>1
  <2> QED
    BY <2>2, FiniteInput, FS_Subset
<1>2. ASSUME NEW s \in 1 .. Len(inp) PROVE Scope(s) = SourceFeatures(s)
  <2>1. s # 0
    BY <1>0
  <2>2. ASSUME NEW f PROVE f \in Scope(s) <=> f \in SourceFeatures(s)
    BY <2>1, OfASource, OfTheInput DEF Scope
  <2> QED
    BY <2>2
<1> QED
  BY <1>1, <1>2 DEF Scope

\* A feature is wanted when fewer of its budget come before it than the extent has.
LEMMA WantedIs ==
  ASSUME inp \in Inputs, extent \in Extents
  PROVE  /\ Wanted \subseteq AllFeatures
         /\ \A f \in AllFeatures :
                f \in Wanted <=> (Sampled => Cardinality(Earlier(f)) < extent.max)
<1>1. CASE extent.kind = "Full"
  BY <1>1 DEF Wanted, Sampled
<1>2. CASE extent.kind = "Sample"
  <2>1. Wanted = FirstOf(Scope(0), extent.max)
    BY <1>2, ScopeIs DEF Wanted
  <2>2. \A f : Earlier(f) = {g \in Scope(0) : Before(g, f)}
    BY <1>2 DEF Earlier, BudgetOf
  <2> QED
    BY <1>2, <2>1, <2>2, ScopeIs DEF FirstOf, Sampled
<1>3. CASE extent.kind = "SamplePerSource"
  <2>0. Len(inp) \in Nat
    BY SourcesAre
  <2>1. ASSUME NEW f
        PROVE  f \in Wanted <=> \E s \in 1 .. Len(inp) : f \in FirstOf(Scope(s), extent.max)
    <3>1. Wanted = UNION {FirstOf(Scope(s), extent.max) : s \in 1 .. Len(inp)}
      BY <1>3, ScopeIs, SourcesAre DEF Wanted
    <3> QED
      BY <3>1
  <2>2. \A f : Earlier(f) = {g \in Scope(f[1]) : Before(g, f)}
    BY <1>3 DEF Earlier, BudgetOf
  <2>3. ASSUME NEW f, NEW s \in 1 .. Len(inp)
        PROVE  f \in FirstOf(Scope(s), extent.max)
                 <=> f \in Scope(s) /\ Cardinality(Earlier(f)) < extent.max
    <3>1. f \in Scope(s) => f[1] = s
      BY <2>0 DEF Scope
    <3>2. f \in FirstOf(Scope(s), extent.max)
            <=> f \in Scope(s) /\ Cardinality({g \in Scope(s) : Before(g, f)}) < extent.max
      BY DEF FirstOf
    <3> QED
      BY <2>2, <3>1, <3>2
  <2>4. \A f \in AllFeatures : f[1] \in 1 .. Len(inp) /\ f \in Scope(f[1])
    BY OfTheInput DEF IsFeature, Scope
  <2>5. \A s : Scope(s) \subseteq AllFeatures
    BY ScopeIs
  <2>6. \A s \in 1 .. Len(inp) : \A f \in Scope(s) : f[1] = s
    BY <2>0 DEF Scope
  <2>7. Sampled
    BY <1>3 DEF Sampled
  <2> QED
    BY <2>1, <2>3, <2>4, <2>5, <2>7
<1> QED
  BY <1>1, <1>2, <1>3, ExtentIs

\* What was split of a budget when the k-th chunk of source s is next.
Prior(s, k) == {g \in Scope(BudgetOf(s)) : g[1] < s \/ (g[1] = s /\ g[2] < k)}

\* Before the n-th feature of a chunk come those before the chunk, and n - 1 of the chunk.
LEMMA EarlierInChunk ==
  ASSUME inp \in Inputs, extent \in Extents,
         NEW s \in 1 .. Len(inp), NEW k \in 1 .. Len(inp[s].chunks),
         NEW n \in 1 .. Len(inp[s].chunks[k])
  PROVE  Cardinality(Earlier(<<s, k, n>>)) = Cardinality(Prior(s, k)) + n - 1
<1> DEFINE f == <<s, k, n>>
           b == BudgetOf(s)
<1>1. s \in Nat /\ k \in Nat /\ n \in Nat \ {0} /\ n - 1 \in Nat
  <2>1. Len(inp) \in Nat /\ Len(inp[s].chunks) \in Nat /\ Len(inp[s].chunks[k]) \in Nat
    BY SourcesAre
  <2> QED
    BY <2>1
<1>2. f[1] = s /\ f[2] = k /\ f[3] = n
  OBVIOUS
<1>3. b = 0 \/ b = s
  BY DEF BudgetOf
<1>4. ASSUME NEW g
      PROVE  g \in Earlier(f) <=> g \in Prior(s, k) \/ g \in Features(s, k, n - 1)
  <2>1. g \in Earlier(f) <=> g \in Scope(b) /\ Before(g, f)
    BY <1>2 DEF Earlier
  <2>2. g \in Features(s, k, n - 1) <=> \E m \in 1 .. n - 1 : g = <<s, k, m>>
    BY DEF Features
  <2>3. ASSUME g \in Scope(b), g[1] = s, g[2] = k, g[3] < n
        PROVE  \E m \in 1 .. n - 1 : g = <<s, k, m>>
    <3>1. IsFeature(g)
      BY <2>3, OfTheInput DEF Scope
    <3>2. g = <<g[1], g[2], g[3]>> /\ g[3] \in 1 .. Len(inp[s].chunks[k])
      BY <2>3, <3>1 DEF IsFeature
    <3>3. Len(inp[s].chunks[k]) \in Nat
      BY SourcesAre
    <3>4. g[3] \in 1 .. n - 1
      BY <1>1, <2>3, <3>2, <3>3
    <3> QED
      BY <2>3, <3>2, <3>4
  <2>4. ASSUME NEW m \in 1 .. n - 1, g = <<s, k, m>>
        PROVE  g \in Scope(b) /\ g[1] = s /\ g[2] = k /\ g[3] < n
    <3>1. g[1] = s /\ g[2] = k /\ g[3] = m
      BY <2>4
    <3>2. Len(inp[s].chunks[k]) \in Nat
      BY SourcesAre
    <3>3. m \in Nat /\ m < n /\ m \in 1 .. Len(inp[s].chunks[k])
      BY <1>1, <3>2
    <3>4. IsFeature(g)
      BY <1>1, <2>4, <3>1, <3>3 DEF IsFeature
    <3>5. g \in AllFeatures
      BY <3>4, OfTheInput
    <3> QED
      BY <1>3, <3>1, <3>3, <3>5 DEF Scope
  <2>5. Before(g, f) <=> g[1] < s \/ (g[1] = s /\ g[2] < k) \/ (g[1] = s /\ g[2] = k /\ g[3] < n)
    BY <1>2 DEF Before
  <2>6. g \in Prior(s, k) <=> g \in Scope(b) /\ (g[1] < s \/ (g[1] = s /\ g[2] < k))
    BY DEF Prior
  <2> HIDE DEF f, b
  <2> QED
    BY <2>1, <2>2, <2>3, <2>4, <2>5, <2>6
<1>5. Earlier(f) = Prior(s, k) \cup Features(s, k, n - 1)
  BY <1>4
<1>6. Prior(s, k) \cap Features(s, k, n - 1) = {}
  <2>1. \A g \in Features(s, k, n - 1) : g[1] = s /\ g[2] = k
    BY DEF Features
  <2>2. \A g \in Prior(s, k) : ~(g[1] = s /\ g[2] = k)
    BY <1>1 DEF Prior
  <2> QED
    BY <2>1, <2>2
<1>7. IsFiniteSet(Prior(s, k))
  <2>1. Prior(s, k) \in SUBSET Scope(b)
    BY DEF Prior
  <2> QED
    BY <2>1, ScopeIs, FS_Subset
<1>8. IsFiniteSet(Features(s, k, n - 1)) /\ Cardinality(Features(s, k, n - 1)) = n - 1
  BY <1>1, OfAChunk
<1>9. \A A, B : IsFiniteSet(A) /\ IsFiniteSet(B) =>
          Cardinality(A \cup B) = Cardinality(A) + Cardinality(B) - Cardinality(A \cap B)
  BY FS_Union
<1>10. Cardinality(Prior(s, k)) \in Nat /\ Cardinality({}) = 0
  BY <1>7, FS_CardinalityType, FS_EmptySet
<1> HIDE DEF f, b
<1>11. Cardinality(Earlier(f)) = Cardinality(Prior(s, k)) + n - 1
  <2>1. Cardinality(Earlier(f))
          = Cardinality(Prior(s, k)) + Cardinality(Features(s, k, n - 1)) - Cardinality({})
    BY <1>5, <1>6, <1>7, <1>8, <1>9
  <2> QED
    BY <1>1, <1>8, <1>10, <2>1
<1> QED
  BY <1>11 DEF f

\* A part of a finite set is finite and no larger.
LEMMA SizeOfSubset ==
  ASSUME NEW B, IsFiniteSet(B), NEW A, A \subseteq B
  PROVE  /\ IsFiniteSet(A)
         /\ Cardinality(A) \in Nat /\ Cardinality(B) \in Nat
         /\ Cardinality(A) <= Cardinality(B)
<1>1. IsFiniteSet(A) /\ Cardinality(A) <= Cardinality(B)
  BY FS_Subset
<1> QED
  BY <1>1, FS_CardinalityType

\* Of the next chunk the features that what is left of the budget pays for are wanted, and no
\* others.
LEMMA WantedOfChunk ==
  ASSUME inp \in Inputs, extent \in Extents, Sampled,
         NEW s \in 1 .. Len(inp), NEW k \in 1 .. Len(inp[s].chunks),
         NEW rest \in Nat, rest + Cardinality(Prior(s, k)) = extent.max
  PROVE  \A n \in 1 .. Len(inp[s].chunks[k]) : <<s, k, n>> \in Wanted <=> n <= rest
<1> SUFFICES ASSUME NEW n \in 1 .. Len(inp[s].chunks[k])
             PROVE  <<s, k, n>> \in Wanted <=> n <= rest
  OBVIOUS
<1>1. n \in Nat
  <2>1. Len(inp[s].chunks[k]) \in Nat
    BY SourcesAre
  <2> QED
    BY <2>1
<1>2. Cardinality(Earlier(<<s, k, n>>)) = Cardinality(Prior(s, k)) + n - 1
  BY EarlierInChunk
<1>3. <<s, k, n>> \in AllFeatures
  <2>1. s \in Nat /\ k \in Nat
    <3>1. Len(inp) \in Nat /\ Len(inp[s].chunks) \in Nat
      BY SourcesAre
    <3> QED
      BY <3>1
  <2>2. IsFeature(<<s, k, n>>)
    BY <1>1, <2>1 DEF IsFeature
  <2> QED
    BY <2>2, OfTheInput
<1>4. Cardinality(Prior(s, k)) \in Nat
  <2>1. Prior(s, k) \subseteq Scope(BudgetOf(s)) /\ IsFiniteSet(Scope(BudgetOf(s)))
    BY ScopeIs DEF Prior
  <2> QED
    BY <2>1, SizeOfSubset
<1>5. <<s, k, n>> \in Wanted <=> Cardinality(Earlier(<<s, k, n>>)) < extent.max
  BY <1>3, WantedIs
<1>6. \A c, m \in Nat : rest + c = m => (c + n - 1 < m <=> n <= rest)
  BY <1>1
<1> QED
  BY <1>2, <1>4, <1>5, <1>6, ExtentIs

\* Nothing is wanted behind as many features of its budget as the budget has.
LEMMA NotWantedBehind ==
  ASSUME inp \in Inputs, extent \in Extents, Sampled, NEW f \in Wanted,
         NEW D, D \subseteq Scope(BudgetOf(f[1])), \A g \in D : Before(g, f)
  PROVE  Cardinality(D) < extent.max
<1>1. f \in AllFeatures /\ Cardinality(Earlier(f)) < extent.max
  BY WantedIs
<1>2. D \subseteq Earlier(f)
  BY DEF Earlier
<1>3. IsFiniteSet(Earlier(f))
  <2>1. Earlier(f) \subseteq Scope(BudgetOf(f[1])) /\ IsFiniteSet(Scope(BudgetOf(f[1])))
    BY ScopeIs DEF Earlier
  <2> QED
    BY <2>1, SizeOfSubset
<1>4. Cardinality(D) \in Nat /\ Cardinality(Earlier(f)) \in Nat
      /\ Cardinality(D) <= Cardinality(Earlier(f))
  BY <1>2, <1>3, SizeOfSubset
<1> QED
  BY <1>1, <1>4, ExtentIs

\* A budget for everything leaves nothing out.
LEMMA WantedIfEnough ==
  ASSUME inp \in Inputs, extent \in Extents, NEW f \in AllFeatures,
         Cardinality(Scope(BudgetOf(f[1]))) <= extent.max
  PROVE  f \in Wanted
<1> DEFINE S == Scope(BudgetOf(f[1]))
<1>1. IsFiniteSet(S)
  BY ScopeIs
<1>2. f \in S
  BY DEF Scope, BudgetOf
<1>3. f \notin Earlier(f)
  <2>1. f[1] \in Nat /\ f[2] \in Nat /\ f[3] \in Nat
    BY OfTheInput DEF IsFeature
  <2> QED
    BY <2>1 DEF Earlier, Before
<1>4. Earlier(f) \subseteq S \ {f}
  BY <1>3 DEF Earlier
<1> HIDE DEF S
<1>5. IsFiniteSet(S \ {f}) /\ Cardinality(S \ {f}) = Cardinality(S) - 1
  BY <1>1, <1>2, FS_RemoveElement
<1>6. /\ Cardinality(Earlier(f)) \in Nat /\ Cardinality(S \ {f}) \in Nat
      /\ Cardinality(Earlier(f)) <= Cardinality(S \ {f})
  BY <1>4, <1>5, SizeOfSubset
<1>7. Cardinality(S) \in Nat
  BY <1>1, FS_CardinalityType
<1>8. Cardinality(S) <= extent.max
  BY DEF S
<1>9. Cardinality(Earlier(f)) < extent.max
  BY <1>5, <1>6, <1>7, <1>8, ExtentIs
<1> QED
  BY <1>9, WantedIs

\* The features of a budget up to the end of a source decide whether the scan reads that far.
Reach(s) == {f \in Scope(BudgetOf(s)) : f[1] <= s}

\* A source is read to its end when what a scan of it splits is within the extent.
LEMMA ReadIs ==
  ASSUME inp \in Inputs, extent \in Extents, NEW s \in 1 .. Len(inp)
  PROVE  s \in ReadToEnd <=> (Sampled => Cardinality(Reach(s)) <= extent.max)
<1>1. s \in DOMAIN inp /\ s \in Nat
  <2>1. Len(inp) \in Nat /\ DOMAIN inp = 1 .. Len(inp)
    BY SourcesAre
  <2> QED
    BY <2>1
<1>2. CASE extent.kind = "Full"
  BY <1>1, <1>2 DEF ReadToEnd, Listed, Sampled
<1>3. CASE extent.kind = "Sample"
  <2>1. Reach(s) = Upto(s)
    BY <1>3, ScopeIs DEF Reach, Upto, BudgetOf
  <2>2. Upto(s - 1) \subseteq Upto(s)
    <3>1. \A f \in AllFeatures : f[1] \in Nat
      BY OfTheInput DEF IsFeature
    <3> QED
      BY <1>1, <3>1 DEF Upto
  <2>3. IsFiniteSet(Upto(s))
    <3>1. Upto(s) \subseteq AllFeatures
      BY DEF Upto
    <3> QED
      BY <3>1, FiniteInput, SizeOfSubset
  <2>4. /\ Cardinality(Upto(s - 1)) \in Nat /\ Cardinality(Upto(s)) \in Nat
        /\ Cardinality(Upto(s - 1)) <= Cardinality(Upto(s))
    BY <2>2, <2>3, SizeOfSubset
  <2>5. s \in ReadToEnd <=> s \in Listed /\ Cardinality(Upto(s)) <= extent.max
    BY <1>3 DEF ReadToEnd
  <2>6. s \in Listed <=> Cardinality(Upto(s - 1)) <= extent.max
    BY <1>1, <1>3 DEF Listed
  <2>7. Sampled
    BY <1>3 DEF Sampled
  <2> QED
    BY <2>1, <2>4, <2>5, <2>6, <2>7, ExtentIs
<1>4. CASE extent.kind = "SamplePerSource"
  <2>1. Reach(s) = SourceFeatures(s)
    <3>1. Scope(BudgetOf(s)) = SourceFeatures(s)
      BY <1>4, ScopeIs DEF BudgetOf
    <3>2. \A f \in SourceFeatures(s) : f[1] = s
      BY OfASource
    <3> QED
      BY <1>1, <3>1, <3>2 DEF Reach
  <2> QED
    BY <1>1, <1>4, <2>1 DEF ReadToEnd, Listed, Sampled
<1> QED
  BY <1>2, <1>3, <1>4, ExtentIs

\* What is said of the input stays as it is.
SameInput == UNCHANGED <<inp, extent>>

\* What is defined by the input and the extent stays as it is: no step changes either.
LEMMA OfTheSameInput ==
  ASSUME SameInput
  PROVE  /\ AllFeatures' = AllFeatures /\ Wanted' = Wanted /\ Causes' = Causes
         /\ Listed' = Listed /\ ReadToEnd' = ReadToEnd /\ Budgets' = Budgets
         /\ \A b : Scope(b)' = Scope(b)
         /\ \A s : BudgetOf(s)' = BudgetOf(s) /\ HasNothing(s)' = HasNothing(s)
         /\ \A f : KindOf(f)' = KindOf(f)
         /\ (inp \in Inputs)' = (inp \in Inputs) /\ (extent \in Extents)' = (extent \in Extents)
         /\ ItemType' = ItemType /\ PartialType' = PartialType /\ Sampled' = Sampled
         /\ MaxOpen' = MaxOpen
<1>1. AllFeatures' = AllFeatures
  BY DEF SameInput, AllFeatures, SourceFeatures
<1>2. Wanted' = Wanted
  BY <1>1 DEF SameInput, Wanted, SourceFeatures
<1>3. Listed' = Listed
  BY <1>1 DEF SameInput, Listed, Upto
<1>4. ReadToEnd' = ReadToEnd
  BY <1>1, <1>3 DEF SameInput, ReadToEnd, Upto, SourceFeatures
<1>5. \A f : KindOf(f)' = KindOf(f)
  BY DEF SameInput, KindOf
<1>6. Causes' = Causes
  BY <1>2, <1>4, <1>5 DEF SameInput, Causes
<1> QED
  BY <1>1, <1>2, <1>3, <1>4, <1>5, <1>6
  DEF SameInput, Budgets, Scope, BudgetOf, HasNothing, ItemType, PartialType, Sampled, MaxOpen

-----------------------------------------------------------------------------
\* Types.

\* The smaller of two numbers is one of them, and at most each.
LEMMA MinOfTwo ==
  ASSUME NEW a \in Nat, NEW b \in Nat
  PROVE  Min({a, b}) \in {a, b} /\ Min({a, b}) <= a /\ Min({a, b}) <= b
BY MinOfNats

\* A sample of the input has one source open at a time.
LEMMA MaxOpenIs == MaxOpen \in Nat /\ (extent.kind = "Sample" => MaxOpen = 1)
<1> DEFINE half == Cardinality(Workers) \div 2
<1>1. Cardinality(Workers) \in Nat
  BY ScanAssumption, FS_CardinalityType
<1>2. half \in Nat
  BY <1>1
<1> HIDE DEF half
<1>3. Min({8, half}) \in Nat
  BY <1>2, MinOfTwo
<1>4. Max({1, Min({8, half})}) \in Nat
  BY <1>3, MaxOfTwo
<1> QED
  BY <1>4 DEF MaxOpen, half

\* The types the proof works with imply those the model states.
LEMMA TypesKeptApart == Typed => TypeOK
<1> SUFFICES ASSUME Typed PROVE TypeOK
  OBVIOUS
<1>1. \A w \in Workers : item[w] \in ItemType
  BY DEF Typed, WorkersTyped
<1>2. \A w \in Workers : item[w].kind \in {"none", "chunk", "error", "panic"}
  BY <1>1 DEF ItemType
<1>3. \A w \in Workers : (pc[w] = "step") = (item[w].kind # "none")
  BY DEF Typed, WorkersTyped
<1>4. \A t \in open : t.state \in {"Unopened", "Splitting", "Failed"}
  BY DEF Typed, SourcesTyped, StreamType
<1> QED
  BY <1>2, <1>3, <1>4 DEF Typed, SourcesTyped, WorkersTyped, TypeOK, OpenedType

\* A stream that leaves the open ones, or changes, leaves them finite and no more.
LEMMA OpenSize ==
  ASSUME IsFiniteSet(open), NEW t \in open, NEW u
  PROVE  /\ IsFiniteSet(open \ {t}) /\ Cardinality(open \ {t}) = Cardinality(open) - 1
         /\ IsFiniteSet((open \ {t}) \cup {u})
         /\ Cardinality((open \ {t}) \cup {u}) <= Cardinality(open)
         /\ Cardinality(open) \in Nat
<1>1. IsFiniteSet(open \ {t}) /\ Cardinality(open \ {t}) = Cardinality(open) - 1
  BY FS_RemoveElement
<1>2. Cardinality(open) \in Nat /\ Cardinality(open \ {t}) \in Nat
  BY <1>1, FS_CardinalityType
<1>3. /\ IsFiniteSet((open \ {t}) \cup {u})
      /\ Cardinality((open \ {t}) \cup {u})
           = IF u \in open \ {t} THEN Cardinality(open \ {t}) ELSE Cardinality(open \ {t}) + 1
  BY <1>1, FS_AddElement
<1> QED
  BY <1>1, <1>2, <1>3

\* What SetStatus makes of `opened`.
LEMMA StatusIs ==
  ASSUME opened \in Seq(OpenedType), NEW id, NEW status \in {"Pending", "Read", "Skipped"},
         SetStatus(id, status)
  PROVE  /\ opened' \in Seq(OpenedType) /\ Len(opened') = Len(opened)
         /\ \A n \in 1 .. Len(opened) :
            /\ opened'[n].name = opened[n].name
            /\ opened'[n].status = IF n = id THEN status ELSE opened[n].status
<1>1. /\ Len(opened) \in Nat /\ opened \in [1 .. Len(opened) -> OpenedType]
      /\ DOMAIN opened = 1 .. Len(opened)
  BY LenProperties
<1>2. opened' = [n \in 1 .. Len(opened) |->
                     IF n = id THEN [opened[n] EXCEPT !.status = status] ELSE opened[n]]
  BY <1>1 DEF SetStatus
<1>3. \A n \in 1 .. Len(opened) : opened[n] \in OpenedType
  BY <1>1
<1>4. \A n \in 1 .. Len(opened) : [opened[n] EXCEPT !.status = status] \in OpenedType
  BY <1>3 DEF OpenedType
<1>5. opened' \in [1 .. Len(opened) -> OpenedType]
  BY <1>2, <1>3, <1>4
<1>6. opened' \in Seq(OpenedType) /\ Len(opened') = Len(opened)
  BY <1>1, <1>5, FunctionIsSeq
<1>7. ASSUME NEW n \in 1 .. Len(opened)
      PROVE  /\ opened'[n].name = opened[n].name
             /\ opened'[n].status = IF n = id THEN status ELSE opened[n].status
  <2>1. opened'[n] = IF n = id THEN [opened[n] EXCEPT !.status = status] ELSE opened[n]
    BY <1>2
  <2> QED
    BY <1>3, <2>1 DEF OpenedType
<1> QED
  BY <1>6, <1>7

\* What Append makes of it.
LEMMA OneMoreOpened ==
  ASSUME opened \in Seq(OpenedType), NEW o \in OpenedType, opened' = Append(opened, o)
  PROVE  /\ opened' \in Seq(OpenedType) /\ Len(opened) \in Nat /\ Len(opened') = Len(opened) + 1
         /\ \A n \in 1 .. Len(opened) : opened'[n] = opened[n]
         /\ opened'[Len(opened) + 1] = o
<1>1. Len(opened) \in Nat
  BY LenProperties
<1>2. opened' \in Seq(OpenedType) /\ Len(opened') = Len(opened) + 1
  OBVIOUS
<1> QED
  BY <1>1, <1>2, AppendProperties

\* What is known of a stream, its budget and its next chunk.
LEMMA StreamIs ==
  ASSUME Typed, NEW t \in open
  PROVE  /\ t \in StreamType
         /\ t.source \in 1 .. next /\ t.source \in 1 .. Len(inp) /\ t.source \in Nat
         /\ t.given \in 0 .. Len(inp[t.source].chunks)
         /\ Len(inp[t.source].chunks) \in Nat
         /\ BudgetOf(t.source) \in 0 .. Len(inp)
         /\ left[BudgetOf(t.source)] \in 0 .. extent.max /\ extent.max \in Nat
         /\ usedUp[BudgetOf(t.source)] \in BOOLEAN
         /\ t.given + 1 <= Len(inp[t.source].chunks) =>
            /\ t.given + 1 \in 1 .. Len(inp[t.source].chunks)
            /\ Len(inp[t.source].chunks[t.given + 1]) \in Nat \ {0}
<1>1. Len(inp) \in Nat
  BY SourcesAre DEF Typed
<1>2. /\ t \in StreamType /\ t.source \in 1 .. next /\ next \in 0 .. Len(inp)
      /\ t.given \in 0 .. Len(inp[t.source].chunks)
      /\ left \in [0 .. Len(inp) -> 0 .. extent.max]
      /\ usedUp \in [0 .. Len(inp) -> BOOLEAN]
  BY DEF Typed, SourcesTyped
<1>3. t.source \in 1 .. Len(inp) /\ t.source \in Nat
  BY <1>1, <1>2
<1>4. BudgetOf(t.source) \in 0 .. Len(inp)
  BY <1>1, <1>3 DEF BudgetOf
<1>5. Len(inp[t.source].chunks) \in Nat
  BY <1>3, SourcesAre DEF Typed
<1>6. t.given + 1 <= Len(inp[t.source].chunks) => t.given + 1 \in 1 .. Len(inp[t.source].chunks)
  BY <1>2, <1>5
<1>7. extent.max \in Nat
  BY ExtentIs DEF Typed
<1>8. \A k \in 1 .. Len(inp[t.source].chunks) : Len(inp[t.source].chunks[k]) \in Nat \ {0}
  BY <1>3, SourcesAre DEF Typed
<1> QED
  BY <1>2, <1>3, <1>4, <1>5, <1>6, <1>7, <1>8

\* Every worker step that changes the streams is one of these.
SourceStep(w) ==
    \/ NextStream(w)
    \/ \E t \in open : OpenSource(w, t) \/ TakeChunk(w, t) \/ SourceEnds(w, t) \/ SourceFails(w, t)

\* The others leave the streams and the budgets alone.
OtherStep(w) == CheckStop(w) \/ TakeNone(w) \/ StepFails(w) \/ StepPanics(w) \/ Step(w) \/ Spawn(w)
CallStep == SpawnFails \/ Leave \/ Join

\* A step is of a worker at the sources, of a worker elsewhere, or of the caller.
LEMMA StepsAre ==
  ASSUME [Next]_vars
  PROVE  \/ \E w \in Workers : SourceStep(w) \/ OtherStep(w)
         \/ CallStep
         \/ UNCHANGED vars
BY DEF Next, Work, TakeStep, Call, Done, SourceStep, OtherStep, CallStep

\* No step changes what is scanned, or how much of it.
LEMMA InputKept ==
  ASSUME [Next]_vars
  PROVE  SameInput
<1>1. ASSUME NEW w \in Workers, SourceStep(w) PROVE SameInput
  BY <1>1 DEF SourceStep, NextStream, OpenSource, TakeChunk, SourceEnds, SourceFails, SameInput
<1>2. ASSUME NEW w \in Workers, OtherStep(w) PROVE SameInput
  BY <1>2 DEF OtherStep, CheckStop, TakeNone, StepFails, StepPanics, Step, Spawn, SameInput
<1>3. CallStep \/ UNCHANGED vars => SameInput
  BY DEF CallStep, SpawnFails, Leave, Join, vars, SameInput
<1> QED
  BY <1>1, <1>2, <1>3, StepsAre

\* Only the steps at the sources change what take() keeps under its locks.
LEMMA OthersKeepSources ==
  ASSUME (\E w \in Workers : OtherStep(w)) \/ CallStep \/ UNCHANGED vars
  PROVE  UNCHANGED sourceVars
BY DEF OtherStep, CheckStop, TakeNone, StepFails, StepPanics, Step, Spawn,
       CallStep, SpawnFails, Leave, Join, vars

\* A step at the sources keeps their types.
LEMMA SourcesStayTyped ==
  ASSUME Typed, NEW w \in Workers, SourceStep(w)
  PROVE  SourcesTyped'
<1> USE DEF Typed
<1>0. SameInput
  BY DEF SourceStep, NextStream, OpenSource, TakeChunk, SourceEnds, SourceFails, SameInput
<1>1. inp' = inp /\ extent' = extent /\ MaxOpen' = MaxOpen
  BY <1>0, OfTheSameInput DEF SameInput
<1>2. Len(inp) \in Nat /\ MaxOpen \in Nat /\ OpenedType' = OpenedType
  BY <1>1, SourcesAre, MaxOpenIs DEF OpenedType
<1>3. /\ next \in Nat /\ Len(opened) \in Nat /\ Cardinality(open) \in Nat /\ IsFiniteSet(open)
      /\ opened \in Seq(OpenedType)
  BY <1>2, LenProperties, FS_CardinalityType DEF SourcesTyped
<1>4. \A t \in open : t \in StreamType
  BY DEF SourcesTyped
<1>5. CASE NextStream(w)
  <2>1. /\ next < Len(inp) /\ next' = next + 1 /\ Cardinality(open) < MaxOpen
        /\ UNCHANGED <<left, usedUp, sampled, inputEnded>>
    BY <1>5 DEF NextStream
  <2>2. next + 1 \in 1 .. Len(inp) /\ Len(inp[next + 1].chunks) \in Nat
    <3>1. next + 1 \in 1 .. Len(inp)
      BY <1>2, <1>3, <2>1
    <3> QED
      BY <3>1, SourcesAre
  <2>3. ASSUME NEW u, u \in StreamType, u.source = next + 1, u.given = 0,
               u.id \in 0 .. Len(opened'), open' = open \cup {u}, opened' \in Seq(OpenedType),
               Len(opened') \in Nat, Len(opened) <= Len(opened')
        PROVE  SourcesTyped'
    <3>1. IsFiniteSet(open') /\ Cardinality(open') <= MaxOpen
      <4>1. /\ IsFiniteSet(open')
            /\ Cardinality(open') = IF u \in open THEN Cardinality(open) ELSE Cardinality(open) + 1
        BY <1>3, <2>3, FS_AddElement
      <4> QED
        BY <1>2, <1>3, <2>1, <4>1
    <3>2. ASSUME NEW t \in open'
          PROVE  /\ t \in StreamType
                 /\ t.source \in 1 .. next'
                 /\ t.id \in 0 .. Len(opened')
                 /\ t.given \in 0 .. Len(inp[t.source].chunks)
      <4>1. CASE t \in open
        BY <1>3, <2>1, <2>3, <4>1 DEF SourcesTyped
      <4>2. CASE t = u
        BY <1>3, <2>1, <2>2, <2>3, <4>2
      <4> QED
        BY <2>3, <4>1, <4>2
    <3>3. next' \in 0 .. Len(inp)
      BY <1>2, <1>3, <2>1
    <3>4. open' \subseteq open'
      OBVIOUS
    <3> QED
      BY <1>1, <1>2, <2>1, <2>3, <3>1, <3>2, <3>3 DEF SourcesTyped, StreamType
  <2>4. CASE inp[next + 1].last = "unlisted"
    <3> DEFINE u == [source |-> next + 1, id |-> 0, state |-> "Failed", given |-> 0]
    <3>1. open' = open \cup {u} /\ opened' = opened
      BY <1>5, <2>4 DEF NextStream
    <3>2. u \in StreamType /\ u.source = next + 1 /\ u.given = 0 /\ u.id = 0
      BY <1>3 DEF StreamType
    <3> HIDE DEF u
    <3> QED
      BY <1>3, <2>3, <3>1, <3>2
  <2>5. CASE inp[next + 1].last # "unlisted"
    <3> DEFINE u == [source |-> next + 1, id |-> Len(opened) + 1, state |-> "Unopened", given |-> 0]
               o == [name |-> next + 1, status |-> "Pending"]
    <3>1. open' = open \cup {u} /\ opened' = Append(opened, o)
      BY <1>5, <2>5 DEF NextStream
    <3>2. u \in StreamType /\ u.source = next + 1 /\ u.given = 0 /\ u.id = Len(opened) + 1
      BY <1>3 DEF StreamType
    <3>3. o \in OpenedType
      BY <2>2 DEF OpenedType
    <3> HIDE DEF u, o
    <3>4. opened' \in Seq(OpenedType) /\ Len(opened') = Len(opened) + 1
      BY <1>3, <3>1, <3>3, OneMoreOpened
    <3> QED
      BY <1>3, <2>3, <3>1, <3>2, <3>4
  <2> QED
    BY <2>4, <2>5
<1>6. ASSUME NEW t \in open, NEW u \in StreamType,
             open' \in {open \ {t}, (open \ {t}) \cup {u}},
             u.source = t.source, u.id = t.id, u.given \in 0 .. Len(inp[t.source].chunks),
             opened' \in Seq(OpenedType), Len(opened') = Len(opened), next' = next,
             left' \in [0 .. Len(inp) -> 0 .. extent.max], usedUp' \in [0 .. Len(inp) -> BOOLEAN],
             sampled' \in BOOLEAN, inputEnded' \in BOOLEAN
      PROVE  SourcesTyped'
  <2>1. IsFiniteSet(open') /\ Cardinality(open') <= MaxOpen
    <3>1. /\ IsFiniteSet(open \ {t}) /\ Cardinality(open \ {t}) = Cardinality(open) - 1
          /\ IsFiniteSet((open \ {t}) \cup {u})
          /\ Cardinality((open \ {t}) \cup {u}) <= Cardinality(open)
      BY <1>3, OpenSize
    <3>2. IsFiniteSet(open') /\ Cardinality(open') <= Cardinality(open)
      <4>1. CASE open' = open \ {t}
        BY <1>3, <3>1, <4>1
      <4>2. CASE open' = (open \ {t}) \cup {u}
        BY <3>1, <4>2
      <4> QED
        BY <1>6, <4>1, <4>2
    <3>3. Cardinality(open') \in Nat /\ Cardinality(open) <= MaxOpen
      BY <3>2, FS_CardinalityType DEF SourcesTyped
    <3> QED
      BY <1>2, <1>3, <3>2, <3>3
  <2>2. ASSUME NEW x \in open'
        PROVE  /\ x \in StreamType
               /\ x.source \in 1 .. next'
               /\ x.id \in 0 .. Len(opened')
               /\ x.given \in 0 .. Len(inp[x.source].chunks)
    <3>1. CASE x \in open
      BY <1>6, <3>1 DEF SourcesTyped
    <3>2. CASE x = u
      BY <1>6, <3>2 DEF SourcesTyped
    <3> QED
      BY <1>6, <3>1, <3>2
  <2>3. next' \in 0 .. Len(inp)
    BY <1>6 DEF SourcesTyped
  <2> QED
    BY <1>1, <1>2, <1>6, <2>1, <2>2, <2>3 DEF SourcesTyped, StreamType
<1>7. ASSUME NEW t \in open, OpenSource(w, t)
      PROVE  SourcesTyped'
  <2>1. /\ next' = next /\ left' \in [0 .. Len(inp) -> 0 .. extent.max]
        /\ usedUp' \in [0 .. Len(inp) -> BOOLEAN]
        /\ sampled' \in BOOLEAN /\ inputEnded' \in BOOLEAN
    BY <1>7 DEF OpenSource, SourcesTyped
  <2>2. opened' \in Seq(OpenedType) /\ Len(opened') = Len(opened)
    <3>1. SetStatus(t.id, "Skipped") \/ SetStatus(t.id, "Read")
      BY <1>7 DEF OpenSource
    <3> QED
      BY <1>3, <3>1, StatusIs
  <2> DEFINE u == [t EXCEPT !.state = "Splitting"]
  <2>3. u \in StreamType /\ u.source = t.source /\ u.id = t.id /\ u.given = t.given
    BY <1>4 DEF StreamType
  <2>4. open' \in {open \ {t}, (open \ {t}) \cup {u}}
    BY <1>7 DEF OpenSource
  <2>5. t.given \in 0 .. Len(inp[t.source].chunks)
    BY DEF SourcesTyped
  <2> HIDE DEF u
  <2> QED
    BY <1>6, <2>1, <2>2, <2>3, <2>4, <2>5
<1>8. ASSUME NEW t \in open, TakeChunk(w, t)
      PROVE  SourcesTyped'
  <2> DEFINE b == BudgetOf(t.source)
             k == t.given + 1
             n == Len(inp[t.source].chunks[k])
             take == Min({left[b], n})
             u == [t EXCEPT !.given = k]
  <2>1. /\ next' = next /\ opened' = opened /\ inputEnded' = inputEnded
        /\ open' \in {open \ {t}, (open \ {t}) \cup {u}}
        /\ k <= Len(inp[t.source].chunks)
        /\ \/ Sampled /\ Share(b, n)
           \/ UNCHANGED <<left, usedUp, sampled>>
    BY <1>8 DEF TakeChunk
  <2>2. /\ k \in 1 .. Len(inp[t.source].chunks) /\ n \in Nat /\ b \in 0 .. Len(inp)
        /\ Len(inp[t.source].chunks) \in Nat
        /\ left[b] \in 0 .. extent.max /\ extent.max \in Nat
    BY <2>1, StreamIs
  <2>3. u \in StreamType /\ u.source = t.source /\ u.id = t.id /\ u.given = k
    <3>1. k \in Nat
      BY <2>2
    <3> QED
      BY <1>4, <3>1 DEF StreamType
  <2>4. /\ left' \in [0 .. Len(inp) -> 0 .. extent.max]
        /\ usedUp' \in [0 .. Len(inp) -> BOOLEAN] /\ sampled' \in BOOLEAN
    <3>1. CASE Share(b, n)
      <4>1. take \in Nat /\ take <= left[b]
        <5>1. left[b] \in Nat
          BY <2>2
        <5> HIDE DEF b, n
        <5> QED
          BY <2>2, <5>1, MinOfTwo
      <4>2. /\ left' = [left EXCEPT ![b] = @ - take]
            /\ usedUp' = [usedUp EXCEPT ![b] = take < n]
            /\ sampled' = (sampled \/ take < n)
        BY <3>1 DEF Share
      <4>3. left[b] - take \in 0 .. extent.max
        BY <2>2, <4>1
      <4> HIDE DEF take, b, n
      <4>4. left' \in [0 .. Len(inp) -> 0 .. extent.max]
        BY <4>2, <4>3 DEF SourcesTyped
      <4>5. usedUp' \in [0 .. Len(inp) -> BOOLEAN]
        <5> DEFINE less == take < n
        <5>1. less \in BOOLEAN /\ usedUp' = [usedUp EXCEPT ![b] = less]
          BY <4>2
        <5>2. usedUp \in [0 .. Len(inp) -> BOOLEAN]
          BY DEF SourcesTyped
        <5> HIDE DEF less
        <5> QED
          BY <5>1, <5>2, Zenon
      <4>6. sampled' \in BOOLEAN
        BY <4>2
      <4> QED
        BY <4>4, <4>5, <4>6
    <3>2. CASE UNCHANGED <<left, usedUp, sampled>>
      BY <3>2 DEF SourcesTyped
    <3> QED
      BY <2>1, <3>1, <3>2
  <2>5. k \in 0 .. Len(inp[t.source].chunks)
    BY <2>2
  <2>6. inputEnded' \in BOOLEAN
    BY <2>1 DEF SourcesTyped
  <2> HIDE DEF u, k, n, b, take
  <2> QED
    BY <1>3, <1>6, <2>1, <2>3, <2>4, <2>5, <2>6
<1>9. ASSUME NEW t \in open, SourceEnds(w, t) \/ SourceFails(w, t)
      PROVE  SourcesTyped'
  <2>1. /\ next' = next /\ left' \in [0 .. Len(inp) -> 0 .. extent.max]
        /\ usedUp' \in [0 .. Len(inp) -> BOOLEAN]
        /\ sampled' \in BOOLEAN /\ inputEnded' \in BOOLEAN
        /\ open' = open \ {t}
    BY <1>9 DEF SourceEnds, SourceFails, TakeLast, SourcesTyped
  <2>2. opened' \in Seq(OpenedType) /\ Len(opened') = Len(opened)
    <3>1. SetStatus(t.id, "Skipped") \/ UNCHANGED opened
      BY <1>9 DEF SourceEnds, SourceFails
    <3> QED
      BY <1>3, <3>1, StatusIs
  <2>3. t \in StreamType /\ t.given \in 0 .. Len(inp[t.source].chunks)
    BY DEF SourcesTyped
  <2> QED
    BY <1>6, <2>1, <2>2, <2>3
<1> QED
  BY <1>5, <1>7, <1>8, <1>9 DEF SourceStep

\* What the worker's steps make of its item and its partial observation.
LEMMA ChunkIs ==
  ASSUME Typed, NEW t \in open, t.given + 1 <= Len(inp[t.source].chunks),
         NEW n \in Nat, n <= Len(inp[t.source].chunks[t.given + 1])
  PROVE  Features(t.source, t.given + 1, n) \subseteq SourceFeatures(t.source)
         /\ Features(t.source, t.given + 1, n) \subseteq AllFeatures
<1>1. /\ t.source \in 1 .. Len(inp) /\ t.source \in Nat
      /\ t.given + 1 \in 1 .. Len(inp[t.source].chunks)
      /\ Len(inp[t.source].chunks) \in Nat
      /\ Len(inp[t.source].chunks[t.given + 1]) \in Nat
      /\ inp \in Inputs
  BY StreamIs DEF Typed
<1>2. ASSUME NEW f \in Features(t.source, t.given + 1, n)
      PROVE  IsFeature(f) /\ f[1] = t.source
  <2>1. PICK m \in 1 .. n : f = <<t.source, t.given + 1, m>>
    BY DEF Features
  <2>2. f[1] = t.source /\ f[2] = t.given + 1 /\ f[3] = m
    BY <2>1
  <2>3. t.given + 1 \in Nat /\ m \in Nat /\ m \in 1 .. Len(inp[t.source].chunks[t.given + 1])
    BY <1>1
  <2> QED
    BY <1>1, <2>1, <2>2, <2>3 DEF IsFeature
<1> QED
  BY <1>1, <1>2, OfASource, OfTheInput

\* What a worker that asks for the next chunk gets: nothing when the budget is spent, else the
\* chunk with its share.
LEMMA TakenIs ==
  ASSUME Typed, NEW w \in Workers, NEW t \in open, TakeChunk(w, t)
  PROVE  \E share \in Nat :
            /\ share <= Len(inp[t.source].chunks[t.given + 1])
            /\ share = IF Sampled
                       THEN Min({left[BudgetOf(t.source)], Len(inp[t.source].chunks[t.given + 1])})
                       ELSE Len(inp[t.source].chunks[t.given + 1])
            /\ \/ /\ Sampled /\ left[BudgetOf(t.source)] = 0
                  /\ open' = open \ {t}
                  /\ UNCHANGED <<pc, item>>
               \/ /\ ~Sampled \/ left[BudgetOf(t.source)] > 0
                  /\ open' = (open \ {t}) \cup {[t EXCEPT !.given = t.given + 1]}
                  /\ item' = [item EXCEPT ![w] =
                        [kind |-> "chunk", source |-> t.source, id |-> t.id,
                         features |-> Features(t.source, t.given + 1, share)]]
                  /\ pc' = [pc EXCEPT ![w] = "step"]
<1> DEFINE n == Len(inp[t.source].chunks[t.given + 1])
           b == BudgetOf(t.source)
           share == IF Sampled THEN Min({left[b], n}) ELSE n
<1>1. n \in Nat /\ left[b] \in Nat
  <2>1. t.given + 1 <= Len(inp[t.source].chunks)
    BY DEF TakeChunk
  <2>2. left[b] \in 0 .. extent.max /\ extent.max \in Nat /\ n \in Nat
    BY <2>1, StreamIs
  <2> HIDE DEF b, n
  <2> QED
    BY <2>2
<1>2. share \in Nat /\ share <= n
  <2> HIDE DEF n, b
  <2> QED
    BY <1>1, MinOfTwo
<1> QED
  BY <1>2 DEF TakeChunk

\* What a worker gets of a source that fails or panics: an item without features, the last.
LEMMA LastIs ==
  ASSUME Typed, NEW w \in Workers, NEW t \in open, SourceFails(w, t)
  PROVE  /\ item' \in [Workers -> ItemType]
         /\ \A v \in Workers \ {w} : item'[v] = item[v]
         /\ item'[w].features = {} /\ item'[w].kind \in {"error", "panic"}
         /\ item'[w].kind = "error" => t.state = "Failed" \/ inp[t.source].last = "fail"
         /\ item'[w].kind = "panic" => inp[t.source].last = "panic"
         /\ pc' = [pc EXCEPT ![w] = "step"]
         /\ inputEnded' = TRUE
         /\ \/ t.state = "Failed"
            \/ t.state = "Unopened" /\ inp[t.source].chunks = <<>>
            \/ AtEnd(t) /\ ~usedUp[BudgetOf(t.source)]
<1>1. t.source \in Nat /\ item \in [Workers -> ItemType]
  BY StreamIs DEF Typed, WorkersTyped
<1>2. ASSUME NEW kind \in {"error", "panic"}, TakeLast(w, kind, t)
      PROVE  /\ item' \in [Workers -> ItemType]
             /\ \A v \in Workers \ {w} : item'[v] = item[v]
             /\ item'[w].features = {} /\ item'[w].kind = kind
             /\ pc' = [pc EXCEPT ![w] = "step"]
             /\ inputEnded' = TRUE
  <2> DEFINE i == [NoItem EXCEPT !.kind = kind, !.source = t.source]
  <2>1. i.kind = kind /\ i.features = {}
    BY DEF NoItem
  <2>2. i \in ItemType
    <3>1. {} \in SUBSET AllFeatures
      OBVIOUS
    <3> QED
      BY <1>1, <3>1 DEF NoItem, ItemType
  <2>3. /\ item' = [item EXCEPT ![w] = i]
        /\ pc' = [pc EXCEPT ![w] = "step"]
        /\ inputEnded' = TRUE
    BY <1>2 DEF TakeLast
  <2> HIDE DEF i
  <2> QED
    BY <1>1, <2>1, <2>2, <2>3
<1>3. CASE t.state = "Failed" /\ TakeLast(w, "error", t)
  BY <1>2, <1>3
<1>4. CASE /\ \/ t.state = "Unopened" /\ inp[t.source].chunks = <<>>
              \/ AtEnd(t) /\ ~usedUp[BudgetOf(t.source)]
           /\ inp[t.source].last = "fail" /\ TakeLast(w, "error", t)
  BY <1>2, <1>4
<1>5. CASE /\ \/ t.state = "Unopened" /\ inp[t.source].chunks = <<>>
              \/ AtEnd(t) /\ ~usedUp[BudgetOf(t.source)]
           /\ inp[t.source].last = "panic" /\ TakeLast(w, "panic", t)
  BY <1>2, <1>5
<1> QED
  BY <1>3, <1>4, <1>5 DEF SourceFails

\* After any step but Step the worker has nothing, if the item was its own.
LEMMA NoItemIs == NoItem \in ItemType /\ NoItem.kind = "none" /\ NoItem.features = {}
<1>1. {} \in SUBSET AllFeatures
  OBVIOUS
<1> QED
  BY <1>1 DEF NoItem, ItemType

\* A step that succeeds adds the features of the item to the worker's partial.
LEMMA StepIs ==
  ASSUME Typed, NEW w \in Workers, Step(w)
  PROVE  /\ partial' \in [Workers -> PartialType]
         /\ \A v \in Workers \ {w} : partial'[v] = partial[v]
         /\ partial'[w].features = partial[w].features \cup item[w].features
         /\ partial'[w].count = partial[w].count + Cardinality(item[w].features)
         /\ partial'[w].ids = partial[w].ids \cup {<<item[w].source, item[w].id>>}
         /\ partial'[w].error = partial[w].error
         /\ item' = [item EXCEPT ![w] = NoItem]
         /\ pc' = [pc EXCEPT ![w] = "check"]
<1> DEFINE F == partial[w].features \cup item[w].features
           c == partial[w].count + Cardinality(item[w].features)
           i == partial[w].ids \cup {<<item[w].source, item[w].id>>}
<1>1. partial[w] \in PartialType /\ item[w] \in ItemType /\ partial \in [Workers -> PartialType]
  BY DEF Typed, WorkersTyped
<1>2. Cardinality(item[w].features) \in Nat
  <2>1. item[w].features \subseteq AllFeatures
    BY <1>1 DEF ItemType
  <2> QED
    BY <2>1, FiniteInput, SizeOfSubset DEF Typed
<1>3. F \in SUBSET AllFeatures /\ c \in Nat /\ i \in SUBSET (Nat \X Nat)
  BY <1>1, <1>2 DEF PartialType, ItemType
<1>4. partial' = [partial EXCEPT ![w].features = F, ![w].count = c, ![w].ids = i]
  BY DEF Step
<1>5. item' = [item EXCEPT ![w] = NoItem] /\ pc' = [pc EXCEPT ![w] = "check"]
  BY DEF Step
<1> HIDE DEF F, c, i
<1>6. /\ partial' \in [Workers -> PartialType]
      /\ \A v \in Workers \ {w} : partial'[v] = partial[v]
      /\ partial'[w].features = F /\ partial'[w].count = c /\ partial'[w].ids = i
      /\ partial'[w].error = partial[w].error
  <2>1. /\ \A v \in Workers \ {w} : partial'[v] = partial[v]
        /\ partial'[w].features = F /\ partial'[w].count = c /\ partial'[w].ids = i
        /\ partial'[w].error = partial[w].error
    BY <1>1, <1>3, <1>4 DEF PartialType
  <2>2. DOMAIN partial'[w] = {"features", "count", "ids", "error"}
    BY <1>1, <1>3, <1>4 DEF PartialType
  <2>3. partial'[w] \in PartialType
    BY <1>1, <1>3, <1>4, <2>2 DEF PartialType
  <2>4. partial' = [v \in Workers |-> partial'[v]]
    BY <1>1, <1>3, <1>4 DEF PartialType
  <2> QED
    BY <1>1, <2>1, <2>3, <2>4
<1> QED
  BY <1>5, <1>6 DEF F, c, i

\* A step that fails leaves the features of the partial, and ends the worker.
LEMMA FailsIs ==
  ASSUME Typed, NEW w \in Workers, StepFails(w)
  PROVE  /\ partial' \in [Workers -> PartialType]
         /\ \A v \in Workers \ {w} : partial'[v] = partial[v]
         /\ partial'[w].features = partial[w].features /\ partial'[w].count = partial[w].count
         /\ partial'[w].ids = partial[w].ids /\ partial'[w].error
         /\ item' = [item EXCEPT ![w] = NoItem]
         /\ pc' = [pc EXCEPT ![w] = "done"]
<1>1. partial \in [Workers -> PartialType]
  BY DEF Typed, WorkersTyped
<1>2. partial' = [partial EXCEPT ![w].error = TRUE]
  BY DEF StepFails
<1>3. partial' \in [Workers -> PartialType]
  BY <1>1, <1>2 DEF PartialType
<1>4. /\ \A v \in Workers \ {w} : partial'[v] = partial[v]
      /\ partial'[w].features = partial[w].features /\ partial'[w].count = partial[w].count
      /\ partial'[w].ids = partial[w].ids /\ partial'[w].error
  BY <1>1, <1>2 DEF PartialType
<1> QED
  BY <1>3, <1>4 DEF StepFails

\* Every step keeps the types of what the workers and the caller have.
LEMMA WorkersStayTyped ==
  ASSUME Typed, [Next]_vars
  PROVE  WorkersTyped'
<1>0. ItemType' = ItemType /\ PartialType' = PartialType
  BY InputKept, OfTheSameInput
<1>1. /\ stop \in BOOLEAN
      /\ pc \in [Workers -> {"new", "check", "take", "step", "done", "panicked"}]
      /\ item \in [Workers -> ItemType] /\ partial \in [Workers -> PartialType]
      /\ \A w \in Workers : pc[w] = "step" <=> item[w].kind # "none"
      /\ caller \in {"spawn", "leave"} \cup Returned
  BY DEF Typed, WorkersTyped
<1>2. CASE UNCHANGED <<workerVars, caller>>
  BY <1>0, <1>1, <1>2 DEF WorkersTyped, workerVars
<1>3. ASSUME NEW w \in Workers, CheckStop(w) \/ TakeNone(w) \/ Spawn(w)
      PROVE  WorkersTyped'
  <2>1. /\ pc[w] # "step" /\ UNCHANGED <<stop, item, partial, caller>>
        /\ \E p \in {"check", "done", "take"} : pc' = [pc EXCEPT ![w] = p]
    BY <1>3 DEF CheckStop, TakeNone, Spawn
  <2> QED
    BY <1>0, <1>1, <2>1 DEF WorkersTyped
<1>4. ASSUME NEW w \in Workers, NEW t \in open, TakeChunk(w, t)
      PROVE  WorkersTyped'
  <2>1. UNCHANGED <<stop, partial, caller>>
    BY <1>4 DEF TakeChunk
  <2>2. PICK share \in Nat :
            /\ share <= Len(inp[t.source].chunks[t.given + 1])
            /\ \/ UNCHANGED <<pc, item>>
               \/ /\ item' = [item EXCEPT ![w] =
                        [kind |-> "chunk", source |-> t.source, id |-> t.id,
                         features |-> Features(t.source, t.given + 1, share)]]
                  /\ pc' = [pc EXCEPT ![w] = "step"]
    BY <1>4, TakenIs
  <2>3. CASE UNCHANGED <<pc, item>>
    BY <1>0, <1>1, <2>1, <2>3 DEF WorkersTyped
  <2>4. CASE /\ item' = [item EXCEPT ![w] =
                    [kind |-> "chunk", source |-> t.source, id |-> t.id,
                     features |-> Features(t.source, t.given + 1, share)]]
             /\ pc' = [pc EXCEPT ![w] = "step"]
    <3> DEFINE i == [kind |-> "chunk", source |-> t.source, id |-> t.id,
                     features |-> Features(t.source, t.given + 1, share)]
    <3>1. Features(t.source, t.given + 1, share) \in SUBSET AllFeatures
      BY <1>4, <2>2, ChunkIs DEF TakeChunk
    <3>2. t.source \in Nat /\ t.id \in Nat
      BY StreamIs DEF StreamType
    <3>3. i \in ItemType /\ i.kind = "chunk"
      BY <3>1, <3>2 DEF ItemType
    <3>4. item' = [item EXCEPT ![w] = i]
      BY <2>4
    <3> HIDE DEF i
    <3> QED
      BY <1>0, <1>1, <2>1, <2>4, <3>3, <3>4 DEF WorkersTyped
  <2> QED
    BY <2>2, <2>3, <2>4
<1>5. ASSUME NEW w \in Workers, NEW t \in open, SourceFails(w, t)
      PROVE  WorkersTyped'
  <2>1. UNCHANGED <<stop, partial, caller>>
    BY <1>5 DEF SourceFails
  <2>2. /\ item' \in [Workers -> ItemType]
        /\ \A v \in Workers \ {w} : item'[v] = item[v]
        /\ item'[w].kind \in {"error", "panic"}
        /\ pc' = [pc EXCEPT ![w] = "step"]
    BY <1>5, LastIs
  <2> QED
    BY <1>0, <1>1, <2>1, <2>2 DEF WorkersTyped
<1>6. ASSUME NEW w \in Workers, StepFails(w) \/ StepPanics(w) \/ Step(w)
      PROVE  WorkersTyped'
  <2>1. partial' \in [Workers -> PartialType]
    BY <1>1, <1>6, FailsIs, StepIs DEF StepPanics
  <2>2. /\ item' = [item EXCEPT ![w] = NoItem] /\ stop' \in BOOLEAN /\ caller' = caller
        /\ \E p \in {"check", "done", "panicked"} : pc' = [pc EXCEPT ![w] = p]
    BY <1>1, <1>6 DEF StepFails, StepPanics, Step
  <2> QED
    BY <1>0, <1>1, <2>1, <2>2, NoItemIs DEF WorkersTyped
<1>7. CASE CallStep
  <2>1. UNCHANGED <<pc, item, partial>> /\ stop' \in BOOLEAN /\ caller' \in {"leave"} \cup Returned
    <3>1. Result \in Returned
      BY DEF Result, Returned
    <3>2. "spawn error" \in Returned
      BY DEF Returned
    <3> QED
      BY <1>1, <1>7, <3>1, <3>2 DEF CallStep, SpawnFails, Leave, Join, workerVars
  <2> QED
    BY <1>0, <1>1, <2>1 DEF WorkersTyped
<1>8. ASSUME NEW w \in Workers, SourceStep(w)
      PROVE  WorkersTyped'
  <2>1. ASSUME NEW t \in open, OpenSource(w, t) \/ SourceEnds(w, t)
        PROVE  UNCHANGED <<workerVars, caller>>
    BY <2>1 DEF OpenSource, SourceEnds
  <2>2. NextStream(w) => UNCHANGED <<workerVars, caller>>
    BY DEF NextStream
  <2> QED
    BY <1>2, <1>4, <1>5, <1>8, <2>1, <2>2 DEF SourceStep
<1>9. UNCHANGED vars => UNCHANGED <<workerVars, caller>>
  BY DEF vars
<1> QED
  BY <1>2, <1>3, <1>6, <1>7, <1>8, <1>9, StepsAre DEF OtherStep

\* The types are kept.
LEMMA StaysTyped ==
  ASSUME Typed, [Next]_vars
  PROVE  Typed'
<1>1. SameInput
  BY InputKept
<1>2. (inp \in Inputs)' /\ (extent \in Extents)'
  BY <1>1 DEF Typed, SameInput
<1>3. SourcesTyped'
  <2>1. CASE \E w \in Workers : SourceStep(w)
    BY <2>1, SourcesStayTyped
  <2>2. CASE UNCHANGED sourceVars
    <3>1. SourcesTyped
      BY DEF Typed
    <3>2. inp' = inp /\ extent' = extent /\ MaxOpen' = MaxOpen
      BY <1>1, OfTheSameInput DEF SameInput
    <3> QED
      BY <2>2, <3>1, <3>2 DEF SourcesTyped, sourceVars, OpenedType, StreamType
  <2> QED
    BY <2>1, <2>2, StepsAre, OthersKeepSources
<1> QED
  BY <1>2, <1>3, WorkersStayTyped DEF Typed

-----------------------------------------------------------------------------
\* What was split.

\* A feature was split when its source was taken from the list and its chunk, if the source is
\* still open, was given.
LEMMA SplitIs ==
  ASSUME NEW f \in AllFeatures
  PROVE  f \in SplitSet <=> f[1] <= next /\ \A t \in open : t.source = f[1] => f[2] <= t.given
BY DEF SplitSet

\* The same, after a step.
LEMMA SplitThenIs ==
  ASSUME SameInput, NEW f \in AllFeatures
  PROVE  f \in SplitSet' <=> f[1] <= next' /\ \A t \in open' : t.source = f[1] => f[2] <= t.given
<1>1. AllFeatures' = AllFeatures
  BY OfTheSameInput
<1> QED
  BY <1>1 DEF SplitSet

\* What was split of a budget is finite, before and after a step.
LEMMA SplitSize ==
  ASSUME inp \in Inputs, SameInput
  PROVE  /\ SplitSet \subseteq AllFeatures /\ SplitSet' \subseteq AllFeatures
         /\ \A b : IsFiniteSet(SplitOf(b)) /\ Cardinality(SplitOf(b)) \in Nat
         /\ \A b : IsFiniteSet(SplitOf(b)') /\ Cardinality(SplitOf(b)') \in Nat
         /\ \A b : SplitOf(b)' = SplitSet' \cap Scope(b)
<1>1. AllFeatures' = AllFeatures /\ \A b : Scope(b)' = Scope(b)
  BY OfTheSameInput
<1>2. SplitSet \subseteq AllFeatures /\ SplitSet' \subseteq AllFeatures
  BY <1>1 DEF SplitSet
<1>3. \A b : SplitOf(b)' = SplitSet' \cap Scope(b)
  BY <1>1 DEF SplitOf
<1>4. \A b : SplitOf(b) \subseteq AllFeatures /\ SplitOf(b)' \subseteq AllFeatures
  BY <1>2, <1>3 DEF SplitOf
<1>5. IsFiniteSet(AllFeatures)
  BY FiniteInput
<1>6. \A A : A \subseteq AllFeatures => IsFiniteSet(A) /\ Cardinality(A) \in Nat
  BY <1>5, SizeOfSubset
<1> QED
  BY <1>2, <1>3, <1>4, <1>6

\* The three numbers of a feature are those of a source, of its chunk and in the chunk.
LEMMA FeatureIs ==
  ASSUME inp \in Inputs, NEW f \in AllFeatures
  PROVE  /\ f[1] \in 1 .. Len(inp) /\ f[1] \in Nat
         /\ f[2] \in 1 .. Len(inp[f[1]].chunks) /\ f[2] \in Nat \ {0}
         /\ f[3] \in 1 .. Len(inp[f[1]].chunks[f[2]]) /\ f[3] \in Nat \ {0}
         /\ f = <<f[1], f[2], f[3]>>
<1>1. IsFeature(f)
  BY OfTheInput
<1>2. Len(inp) \in Nat
  BY SourcesAre
<1>3. f[1] \in 1 .. Len(inp)
  BY <1>1 DEF IsFeature
<1>4. Len(inp[f[1]].chunks) \in Nat /\ f[2] \in 1 .. Len(inp[f[1]].chunks)
  BY <1>1, <1>3, SourcesAre DEF IsFeature
<1>5. Len(inp[f[1]].chunks[f[2]]) \in Nat /\ f[3] \in 1 .. Len(inp[f[1]].chunks[f[2]])
  BY <1>1, <1>3, <1>4, SourcesAre DEF IsFeature
<1> QED
  BY <1>1, <1>2, <1>3, <1>4, <1>5 DEF IsFeature

\* Nothing is split by a source that begins, opens, or leaves with all its chunks given.
LEMMA SameSplit ==
  ASSUME Typed, SameInput,
         \/ \E w \in Workers : NextStream(w)
         \/ \E w \in Workers, t \in open : OpenSource(w, t)
         \/ \E t \in open : /\ t.given = Len(inp[t.source].chunks)
                            /\ open' = open \ {t} /\ next' = next
  PROVE  SplitSet' = SplitSet
<1>1. SplitSet \subseteq AllFeatures /\ SplitSet' \subseteq AllFeatures
  BY SplitSize DEF Typed
<1>2. next \in Nat
  <2>1. Len(inp) \in Nat
    BY SourcesAre DEF Typed
  <2> QED
    BY <2>1 DEF Typed, SourcesTyped
<1>3. ASSUME NEW f \in AllFeatures PROVE f \in SplitSet' <=> f \in SplitSet
  <2>0. /\ f[1] \in 1 .. Len(inp) /\ f[1] \in Nat /\ f[2] \in Nat \ {0}
        /\ f[2] \in 1 .. Len(inp[f[1]].chunks)
    BY FeatureIs DEF Typed
  <2>1. ASSUME NEW w \in Workers, NextStream(w)
        PROVE  f \in SplitSet' <=> f \in SplitSet
    <3>1. \E u : open' = open \cup {u} /\ u.source = next + 1 /\ u.given = 0
      <4>1. CASE inp[next + 1].last = "unlisted"
        <5> DEFINE u == [source |-> next + 1, id |-> 0, state |-> "Failed", given |-> 0]
        <5>1. open' = open \cup {u}
          BY <2>1, <4>1 DEF NextStream
        <5>2. u.source = next + 1 /\ u.given = 0
          OBVIOUS
        <5> HIDE DEF u
        <5> QED
          BY <5>1, <5>2
      <4>2. CASE inp[next + 1].last # "unlisted"
        <5> DEFINE u == [source |-> next + 1, id |-> Len(opened) + 1, state |-> "Unopened",
                         given |-> 0]
        <5>1. open' = open \cup {u}
          BY <2>1, <4>2 DEF NextStream
        <5>2. u.source = next + 1 /\ u.given = 0
          OBVIOUS
        <5> HIDE DEF u
        <5> QED
          BY <5>1, <5>2
      <4> QED
        BY <4>1, <4>2
    <3>2. PICK u : open' = open \cup {u} /\ u.source = next + 1 /\ u.given = 0
      BY <3>1
    <3>3. next' = next + 1
      BY <2>1 DEF NextStream
    <3>4. CASE f[1] = next + 1
      <4>1. f \notin SplitSet
        BY <1>2, <3>4, SplitIs
      <4>2. f \notin SplitSet'
        BY <2>0, <3>2, <3>4, SplitThenIs
      <4> QED
        BY <4>1, <4>2
    <3>5. CASE f[1] # next + 1
      <4>1. f[1] <= next + 1 <=> f[1] <= next
        BY <1>2, <2>0, <3>5
      <4> QED
        BY <3>2, <3>3, <3>5, <4>1, SplitIs, SplitThenIs
    <3> QED
      BY <3>4, <3>5
  <2>2. ASSUME NEW w \in Workers, NEW t \in open, OpenSource(w, t)
        PROVE  f \in SplitSet' <=> f \in SplitSet
    <3>1. t \in StreamType /\ t.source \in 1 .. Len(inp)
          /\ t.given \in 0 .. Len(inp[t.source].chunks)
      BY StreamIs
    <3>2. next' = next
      BY <2>2 DEF OpenSource
    <3>3. CASE inp[t.source].last = "no header"
      <4>1. open' = open \ {t}
        BY <2>2, <3>3 DEF OpenSource
      <4>2. Len(inp[t.source].chunks) = 0
        BY <3>1, <3>3, SourcesAre DEF Typed
      <4>3. t.source # f[1]
        BY <2>0, <4>2
      <4> QED
        BY <3>2, <4>1, <4>3, SplitIs, SplitThenIs
    <3>4. CASE inp[t.source].last # "no header"
      <4> DEFINE u == [t EXCEPT !.state = "Splitting"]
      <4>1. open' = (open \ {t}) \cup {u}
        BY <2>2, <3>4 DEF OpenSource
      <4>2. u.source = t.source /\ u.given = t.given
        BY <3>1 DEF StreamType
      <4> HIDE DEF u
      <4> QED
        BY <3>2, <4>1, <4>2, SplitIs, SplitThenIs
    <3> QED
      BY <3>3, <3>4
  <2>3. ASSUME NEW t \in open, t.given = Len(inp[t.source].chunks), open' = open \ {t}, next' = next
        PROVE  f \in SplitSet' <=> f \in SplitSet
    <3>1. t.source = f[1] => f[2] <= t.given
      <4>1. Len(inp[f[1]].chunks) \in Nat
        BY <2>0, SourcesAre DEF Typed
      <4> QED
        BY <2>0, <2>3, <4>1
    <3> QED
      BY <2>3, <3>1, SplitIs, SplitThenIs
  <2> QED
    BY <2>1, <2>2, <2>3
<1> QED
  BY <1>1, <1>3

\* A source that leaves counts as split; no other source is concerned.
LEMMA SplitOfTheSource ==
  ASSUME Typed, Streams, SameInput, NEW t \in open, next' = next,
         open' \in {open \ {t}, (open \ {t}) \cup {[t EXCEPT !.given = t.given + 1]}}
  PROVE  /\ SplitSet \subseteq SplitSet'
         /\ \A f \in SplitSet' \ SplitSet : f[1] = t.source
         /\ \A f \in AllFeatures : f[1] = t.source /\ f[2] = t.given + 1 => f \in SplitSet' \ SplitSet
         /\ open' # open \ {t} =>
                \A f \in SplitSet' \ SplitSet : f[2] = t.given + 1
<1> DEFINE u == [t EXCEPT !.given = t.given + 1]
<1>1. /\ t \in StreamType /\ t.source \in 1 .. next /\ t.given \in Nat /\ next \in Nat
      /\ t.source \in Nat
  <2>1. Len(inp) \in Nat
    BY SourcesAre DEF Typed
  <2> QED
    BY <2>1, StreamIs DEF Typed, SourcesTyped, StreamType
<1>2. u.source = t.source /\ u.given = t.given + 1
  BY <1>1 DEF StreamType
<1>3. open' \in {open \ {t}, (open \ {t}) \cup {u}}
  OBVIOUS
<1>4. \A x \in open : x.source = t.source => x = t
  BY DEF Streams
<1> HIDE DEF u
<1>5. ASSUME NEW f \in AllFeatures
      PROVE  /\ f \in SplitSet => f \in SplitSet'
             /\ f \in SplitSet' /\ f \notin SplitSet => f[1] = t.source
             /\ f[1] = t.source /\ f[2] = t.given + 1 => f \in SplitSet' /\ f \notin SplitSet
             /\ open' # open \ {t} /\ f \in SplitSet' /\ f \notin SplitSet => f[2] = t.given + 1
  <2>1. f[1] \in Nat /\ f[2] \in Nat
    BY FeatureIs DEF Typed
  <2>2. CASE f[1] # t.source
    <3>1. f \in SplitSet' <=> f \in SplitSet
      BY <1>2, <1>3, <2>2, SplitIs, SplitThenIs
    <3> QED
      BY <2>2, <3>1
  <2>3. CASE f[1] = t.source
    <3>1. f \in SplitSet <=> f[2] <= t.given
      BY <1>1, <1>4, <2>3, SplitIs
    <3>2. CASE open' = open \ {t}
      <4>1. f \in SplitSet'
        BY <1>1, <1>4, <2>3, <3>2, SplitThenIs
      <4> QED
        BY <1>1, <2>1, <2>3, <3>1, <3>2, <4>1
    <3>3. CASE open' = (open \ {t}) \cup {u}
      <4>1. f \in SplitSet' <=> f[2] <= t.given + 1
        BY <1>1, <1>2, <1>4, <2>3, <3>3, SplitThenIs
      <4> QED
        BY <1>1, <2>1, <2>3, <3>1, <4>1
    <3> QED
      BY <1>3, <3>2, <3>3
  <2> QED
    BY <2>2, <2>3
<1>6. SplitSet \subseteq AllFeatures /\ SplitSet' \subseteq AllFeatures
  BY SplitSize DEF Typed
<1> QED
  BY <1>5, <1>6

\* Of a budget the split features are those before the next chunk.
LEMMA SplitIsPrior ==
  ASSUME Typed, Streams, Sampled, NEW t \in open
  PROVE  SplitOf(BudgetOf(t.source)) = Prior(t.source, t.given + 1)
<1>1. /\ t.source \in 1 .. next /\ t.given \in Nat /\ next \in Nat /\ t.source \in Nat
      /\ t.source # 0
  <2>1. Len(inp) \in Nat
    BY SourcesAre DEF Typed
  <2>2. next \in Nat
    BY <2>1 DEF Typed, SourcesTyped
  <2> QED
    BY <2>1, <2>2, StreamIs DEF StreamType
<1>2. \A x \in open : x.source = t.source => x = t
  BY DEF Streams
<1>3. ASSUME NEW f \in Scope(BudgetOf(t.source))
      PROVE  f \in SplitSet <=> f[1] < t.source \/ (f[1] = t.source /\ f[2] < t.given + 1)
  <2>1. f \in AllFeatures
    BY DEF Scope
  <2>2. f[1] \in Nat /\ f[2] \in Nat
    BY <2>1, FeatureIs DEF Typed
  <2>3. CASE f[1] = t.source
    <3>1. f \in SplitSet <=> f[2] <= t.given
      BY <1>1, <1>2, <2>1, <2>3, SplitIs
    <3> QED
      BY <1>1, <2>2, <2>3, <3>1
  <2>4. CASE f[1] # t.source
    <3>1. extent.kind = "Sample"
      <4>1. extent.kind # "SamplePerSource"
        BY <1>1, <2>4 DEF Scope, BudgetOf
      <4> QED
        BY <4>1, ExtentIs DEF Typed, Sampled
    <3>2. \A x \in open : x.source = next
      BY <3>1 DEF Streams
    <3>3. t.source = next
      BY <3>2
    <3>4. f \in SplitSet <=> f[1] <= next
      BY <2>1, <2>4, <3>2, <3>3, SplitIs
    <3> QED
      BY <1>1, <2>2, <2>4, <3>3, <3>4
  <2> QED
    BY <2>3, <2>4
<1> QED
  BY <1>3 DEF SplitOf, Prior

-----------------------------------------------------------------------------
\* The streams.

\* The budget of a source is used up only after the source was taken from the list.
LEMMA UsedOnlyTaken ==
  ASSUME Typed, BudgetsKept, NEW b \in 1 .. Len(inp), usedUp[b]
  PROVE  b <= next
<1>1. Len(inp) \in Nat /\ extent.max \in Nat
  BY SourcesAre, ExtentIs DEF Typed
<1>2. b \in 0 .. Len(inp) /\ b # 0
  BY <1>1
<1>3. b \in Budgets
  BY <1>2 DEF BudgetsKept
<1>4. Cardinality(SplitOf(b)) > extent.max
  BY <1>3 DEF BudgetsKept
<1>5. SplitOf(b) # {}
  <2>1. Cardinality({}) = 0
    BY FS_EmptySet
  <2> QED
    BY <1>1, <1>4, <2>1
<1>6. PICK f : f \in SplitOf(b)
  BY <1>5
<1> QED
  BY <1>2, <1>6 DEF SplitOf, SplitSet, Scope

\* What a worker that takes the next source from the list does to the open streams.
LEMMA NextStreamIs ==
  ASSUME Typed, NEW w \in Workers, NextStream(w)
  PROVE  \E u \in StreamType :
            /\ open' = open \cup {u} /\ u.source = next + 1 /\ u.given = 0
            /\ next' = next + 1 /\ next + 1 \in 1 .. Len(inp) /\ next \in Nat
            /\ u.state = IF inp[next + 1].last = "unlisted" THEN "Failed" ELSE "Unopened"
            /\ inp[next + 1].last # "unlisted" => u.id = Len(opened) + 1
            /\ ~usedUp[0] /\ (extent.kind = "Sample" => open = {})
            /\ UNCHANGED <<left, usedUp, sampled, inputEnded, workerVars, caller>>
<1>1. /\ Len(inp) \in Nat /\ next \in Nat /\ Len(opened) \in Nat /\ Cardinality(open) \in Nat
  <2>1. Len(inp) \in Nat
    BY SourcesAre DEF Typed
  <2>2. next \in 0 .. Len(inp) /\ opened \in Seq(OpenedType) /\ IsFiniteSet(open)
    BY DEF Typed, SourcesTyped
  <2>3. Len(opened) \in Nat
    BY <2>2, LenProperties
  <2>4. Cardinality(open) \in Nat
    BY <2>2, FS_CardinalityType
  <2> QED
    BY <2>1, <2>2, <2>3, <2>4
<1>2. /\ next < Len(inp) /\ next' = next + 1 /\ ~usedUp[0] /\ Cardinality(open) < MaxOpen
      /\ UNCHANGED <<left, usedUp, sampled, inputEnded, workerVars, caller>>
  BY DEF NextStream
<1>3. next + 1 \in 1 .. Len(inp)
  BY <1>1, <1>2
<1>4. extent.kind = "Sample" => open = {}
  <2>1. ASSUME extent.kind = "Sample" PROVE Cardinality(open) = 0
    BY <1>1, <1>2, <2>1, MaxOpenIs
  <2> QED
    BY <2>1, FS_EmptySet DEF Typed, SourcesTyped
<1>5. CASE inp[next + 1].last = "unlisted"
  <2> DEFINE u == [source |-> next + 1, id |-> 0, state |-> "Failed", given |-> 0]
  <2>1. open' = open \cup {u}
    BY <1>5 DEF NextStream
  <2>2. u \in StreamType /\ u.source = next + 1 /\ u.given = 0 /\ u.state = "Failed"
    BY <1>1 DEF StreamType
  <2> HIDE DEF u
  <2> QED
    BY <1>1, <1>2, <1>3, <1>4, <1>5, <2>1, <2>2
<1>6. CASE inp[next + 1].last # "unlisted"
  <2> DEFINE u == [source |-> next + 1, id |-> Len(opened) + 1, state |-> "Unopened", given |-> 0]
  <2>1. open' = open \cup {u}
    BY <1>6 DEF NextStream
  <2>2. /\ u \in StreamType /\ u.source = next + 1 /\ u.given = 0 /\ u.state = "Unopened"
        /\ u.id = Len(opened) + 1
    BY <1>1 DEF StreamType
  <2> HIDE DEF u
  <2> QED
    BY <1>1, <1>2, <1>3, <1>4, <1>6, <2>1, <2>2
<1> QED
  BY <1>5, <1>6

\* What a stream becomes: it leaves, or it goes on with the same source and id.
LEMMA StreamGoesOn ==
  ASSUME Typed, NEW w \in Workers, NEW t \in open,
         OpenSource(w, t) \/ TakeChunk(w, t) \/ SourceEnds(w, t) \/ SourceFails(w, t)
  PROVE  /\ next' = next
         /\ \/ open' = open \ {t}
            \/ \E u \in StreamType :
                /\ open' = (open \ {t}) \cup {u}
                /\ u.source = t.source /\ u.id = t.id /\ u.state = "Splitting"
                /\ t.state = "Splitting" \/ (t.state = "Unopened" /\ u.given = t.given)
                /\ OpenSource(w, t) \/ TakeChunk(w, t)
<1>1. t \in StreamType
  BY StreamIs
<1>2. CASE OpenSource(w, t)
  <2> DEFINE u == [t EXCEPT !.state = "Splitting"]
  <2>1. /\ u \in StreamType /\ u.source = t.source /\ u.id = t.id /\ u.given = t.given
        /\ u.state = "Splitting"
    BY <1>1 DEF StreamType
  <2>2. next' = next /\ t.state = "Unopened" /\ open' \in {open \ {t}, (open \ {t}) \cup {u}}
    BY <1>2 DEF OpenSource
  <2> HIDE DEF u
  <2> QED
    BY <1>2, <2>1, <2>2
<1>3. CASE TakeChunk(w, t)
  <2> DEFINE u == [t EXCEPT !.given = t.given + 1]
  <2>1. t.given + 1 \in Nat
    BY <1>1 DEF StreamType
  <2>2. t.state = "Splitting" /\ next' = next /\ open' \in {open \ {t}, (open \ {t}) \cup {u}}
    BY <1>3 DEF TakeChunk
  <2>3. u \in StreamType /\ u.source = t.source /\ u.id = t.id /\ u.state = "Splitting"
    BY <1>1, <2>1, <2>2 DEF StreamType
  <2> HIDE DEF u
  <2> QED
    BY <1>3, <2>2, <2>3
<1>4. CASE SourceEnds(w, t) \/ SourceFails(w, t)
  BY <1>4 DEF SourceEnds, SourceFails
<1> QED
  BY <1>2, <1>3, <1>4

\* Every step keeps the streams apart, and in their states.
LEMMA StreamsKept ==
  ASSUME Typed, Streams, BudgetsKept, [Next]_vars
  PROVE  Streams'
<1>0. SameInput /\ inp' = inp /\ extent' = extent /\ \A s : BudgetOf(s)' = BudgetOf(s)
  BY InputKept, OfTheSameInput DEF SameInput
<1>1. CASE UNCHANGED sourceVars
  BY <1>0, <1>1 DEF Streams, sourceVars
<1>2. ASSUME NEW w \in Workers, NextStream(w)
      PROVE  Streams'
  <2>1. PICK u \in StreamType :
            /\ open' = open \cup {u} /\ u.source = next + 1
            /\ next' = next + 1 /\ next + 1 \in 1 .. Len(inp) /\ next \in Nat
            /\ u.state = IF inp[next + 1].last = "unlisted" THEN "Failed" ELSE "Unopened"
            /\ ~usedUp[0] /\ (extent.kind = "Sample" => open = {})
            /\ usedUp' = usedUp
    BY <1>2, NextStreamIs
  <2>2. \A t \in open : t.source \in 1 .. next /\ t.source # next + 1
    BY <2>1, StreamIs
  <2>3. ~usedUp[BudgetOf(u.source)]
    <3>1. usedUp[next + 1] => next + 1 <= next
      BY <2>1, UsedOnlyTaken
    <3>2. ~(next + 1 <= next)
      BY <2>1
    <3> QED
      BY <2>1, <3>1, <3>2 DEF BudgetOf
  <2>4. \A x, y \in open' : x.source = y.source => x = y
    BY <2>1, <2>2 DEF Streams
  <2>5. extent.kind = "Sample" => \A t \in open' : t.source = next'
    BY <2>1
  <2>6. \A t \in open' : t.state = "Failed" <=> inp[t.source].last = "unlisted"
    BY <2>1 DEF Streams
  <2>7. \A t \in open' : usedUp'[BudgetOf(t.source)] =>
            t.state = "Splitting" /\ inp[t.source].chunks # <<>>
    BY <2>1, <2>3 DEF Streams
  <2> QED
    BY <1>0, <2>4, <2>5, <2>6, <2>7 DEF Streams
<1>3. ASSUME NEW w \in Workers, NEW t \in open,
             OpenSource(w, t) \/ TakeChunk(w, t) \/ SourceEnds(w, t) \/ SourceFails(w, t)
      PROVE  Streams'
  <2>0. next' = next
    BY <1>3, StreamGoesOn
  <2>1. \A x \in open' : x \in open \/ (x.source = t.source /\ t \notin open')
    BY <1>3, StreamGoesOn
  <2>2. \A x, y \in open' : x.source = y.source => x = y
    BY <1>3, StreamGoesOn DEF Streams
  <2>3. extent.kind = "Sample" => \A x \in open' : x.source = next'
    BY <2>0, <2>1 DEF Streams
  <2>4. \A x \in open' : x.state = "Failed" <=> inp[x.source].last = "unlisted"
    BY <1>3, StreamGoesOn DEF Streams
  <2>5. ASSUME NEW x \in open', usedUp'[BudgetOf(x.source)]
        PROVE  x.state = "Splitting" /\ inp[x.source].chunks # <<>>
    <3>1. CASE UNCHANGED usedUp
      <4>1. usedUp[BudgetOf(x.source)]
        BY <2>5, <3>1
      <4>2. CASE x \in open
        BY <4>1, <4>2 DEF Streams
      <4>3. CASE x.source = t.source
        <5>1. t.state = "Splitting" /\ inp[t.source].chunks # <<>>
          BY <4>1, <4>3 DEF Streams
        <5>2. x \in open \/ x.state = "Splitting"
          BY <1>3, StreamGoesOn
        <5> QED
          BY <4>2, <4>3, <5>1, <5>2
      <4> QED
        BY <2>1, <4>2, <4>3
    <3>2. CASE TakeChunk(w, t) /\ ~UNCHANGED usedUp
      <4> DEFINE b == BudgetOf(t.source)
      <4>1. \A c \in 0 .. Len(inp) : c # b => usedUp'[c] = usedUp[c]
        BY <3>2 DEF TakeChunk, Share, Typed, SourcesTyped
      <4>2. CASE x.source = t.source
        <5>1. x = t \/ x.state = "Splitting"
          BY <1>3, <4>2, StreamGoesOn DEF Streams
        <5>2. t.given + 1 <= Len(inp[t.source].chunks) /\ t.state = "Splitting"
          BY <3>2 DEF TakeChunk
        <5>3. inp[t.source].chunks # <<>>
          <6>1. t.given \in Nat /\ t.source \in 1 .. Len(inp)
            BY StreamIs DEF StreamType
          <6>2. Len(inp[t.source].chunks) # 0
            BY <5>2, <6>1
          <6> QED
            BY <6>1, <6>2, SourcesAre DEF Typed
        <5> QED
          BY <4>2, <5>1, <5>2, <5>3
      <4>3. CASE x.source # t.source
        <5>1. x \in open
          BY <2>1, <4>3
        <5>2. extent.kind = "SamplePerSource"
          <6>1. extent.kind # "Sample"
            BY <4>3, <5>1 DEF Streams
          <6>2. Sampled
            BY <3>2 DEF TakeChunk
          <6> QED
            BY <6>1, <6>2, ExtentIs DEF Typed, Sampled
        <5>3. BudgetOf(x.source) # b /\ BudgetOf(x.source) \in 0 .. Len(inp)
          BY <4>3, <5>1, <5>2, StreamIs DEF BudgetOf
        <5>4. usedUp[BudgetOf(x.source)]
          BY <2>5, <4>1, <5>3
        <5> QED
          BY <5>1, <5>4 DEF Streams
      <4> QED
        BY <4>2, <4>3
    <3>3. TakeChunk(w, t) \/ UNCHANGED usedUp
      BY <1>3 DEF OpenSource, SourceEnds, SourceFails
    <3> QED
      BY <3>1, <3>2, <3>3
  <2> QED
    BY <1>0, <2>2, <2>3, <2>4, <2>5 DEF Streams
<1> QED
  BY <1>1, <1>2, <1>3, StepsAre, OthersKeepSources DEF SourceStep

-----------------------------------------------------------------------------
\* The budgets.

\* A source of a sampled scan has a budget, and no other counts its features.
LEMMA BudgetIs ==
  ASSUME Typed, Sampled, NEW s \in 1 .. Len(inp)
  PROVE  /\ BudgetOf(s) \in Budgets
         /\ \A c \in Budgets : c # BudgetOf(s) => c # 0 /\ \A f \in Scope(c) : f[1] # s
<1>1. Len(inp) \in Nat
  BY SourcesAre DEF Typed
<1>2. extent.kind \in {"Sample", "SamplePerSource"}
  BY ExtentIs DEF Typed, Sampled
<1>3. BudgetOf(s) \in 0 .. Len(inp) /\ (BudgetOf(s) = 0 <=> extent.kind = "Sample")
  <2>1. s \in 0 .. Len(inp) /\ s # 0 /\ 0 \in 0 .. Len(inp)
    BY <1>1
  <2> QED
    BY <1>2, <2>1 DEF BudgetOf
<1>4. ASSUME NEW c \in Budgets, c # BudgetOf(s)
      PROVE  c # 0 /\ \A f \in Scope(c) : f[1] # s
  <2>1. extent.kind = "SamplePerSource" /\ c # 0
    BY <1>2, <1>4 DEF Budgets, BudgetOf
  <2>2. c # s
    BY <1>4, <2>1 DEF BudgetOf
  <2> QED
    BY <2>1, <2>2 DEF Scope
<1> QED
  BY <1>3, <1>4 DEF Budgets

\* Whether a stream's budget is used up, and, with every chunk given, whether its end is read.
LEMMA BudgetTells ==
  ASSUME Typed, Streams, BudgetsKept, NEW t \in open
  PROVE  /\ usedUp[BudgetOf(t.source)] => Sampled /\ t.source \notin ReadToEnd
         /\ ~usedUp[BudgetOf(t.source)] /\ t.given = Len(inp[t.source].chunks)
                => t.source \in ReadToEnd
         /\ ~usedUp[BudgetOf(t.source)] /\ Sampled
                => left[BudgetOf(t.source)] + Cardinality(Prior(t.source, t.given + 1)) = extent.max
<1> DEFINE s == t.source
           b == BudgetOf(s)
<1>1. /\ s \in 1 .. Len(inp) /\ b \in 0 .. Len(inp) /\ extent.max \in Nat
      /\ t.given \in 0 .. Len(inp[s].chunks) /\ Len(inp[s].chunks) \in Nat
      /\ left[b] \in Nat /\ inp \in Inputs /\ extent \in Extents /\ s \in Nat
  <2>1. /\ s \in 1 .. Len(inp) /\ b \in 0 .. Len(inp) /\ extent.max \in Nat
        /\ t.given \in 0 .. Len(inp[s].chunks) /\ Len(inp[s].chunks) \in Nat
        /\ left[b] \in 0 .. extent.max /\ s \in Nat
    BY StreamIs
  <2> HIDE DEF b, s
  <2> QED
    BY <2>1 DEF Typed
<1>2. Sampled => b \in Budgets
  BY <1>1, BudgetIs
<1>3. usedUp[b] => Sampled
  BY <1>1 DEF BudgetsKept, Budgets
<1>4. Sampled => SplitOf(b) = Prior(s, t.given + 1)
  BY SplitIsPrior
<1>5. Prior(s, t.given + 1) \subseteq Reach(s)
  <2>1. \A f \in Scope(b) : f[1] \in Nat
    BY FeatureIs DEF Typed, Scope
  <2> QED
    BY <1>1, <2>1 DEF Prior, Reach
<1>6. t.given = Len(inp[s].chunks) => Prior(s, t.given + 1) = Reach(s)
  <2>1. ASSUME t.given = Len(inp[s].chunks), NEW f \in Scope(b)
        PROVE  f[1] <= s => f[1] < s \/ (f[1] = s /\ f[2] < t.given + 1)
    <3>1. f[1] \in Nat /\ f[2] \in 1 .. Len(inp[f[1]].chunks)
      BY FeatureIs DEF Typed, Scope
    <3>2. CASE f[1] = s
      BY <1>1, <2>1, <3>1, <3>2
    <3>3. CASE f[1] # s
      BY <1>1, <3>1, <3>3
    <3> QED
      BY <3>2, <3>3
  <2>2. t.given = Len(inp[s].chunks) => Reach(s) \subseteq Prior(s, t.given + 1)
    BY <2>1 DEF Reach, Prior
  <2> QED
    BY <1>5, <2>2
<1>7. IsFiniteSet(Reach(s))
  <2>1. Reach(s) \subseteq Scope(b) /\ IsFiniteSet(Scope(b))
    BY ScopeIs DEF Reach, Typed
  <2> QED
    BY <2>1, SizeOfSubset
<1>8. /\ Cardinality(Reach(s)) \in Nat /\ Cardinality(Prior(s, t.given + 1)) \in Nat
      /\ Cardinality(Prior(s, t.given + 1)) <= Cardinality(Reach(s))
  BY <1>5, <1>7, SizeOfSubset
<1>9. s \in ReadToEnd <=> (Sampled => Cardinality(Reach(s)) <= extent.max)
  BY <1>1, ReadIs
<1>10. usedUp[b] => Cardinality(Prior(s, t.given + 1)) > extent.max
  BY <1>2, <1>3, <1>4 DEF BudgetsKept
<1>11. ~usedUp[b] /\ Sampled => left[b] + Cardinality(Prior(s, t.given + 1)) = extent.max
  BY <1>2, <1>4 DEF BudgetsKept
<1> HIDE DEF b, s
<1>12. usedUp[b] => Sampled /\ s \notin ReadToEnd
  BY <1>1, <1>3, <1>8, <1>9, <1>10
<1>13. ~usedUp[b] /\ t.given = Len(inp[s].chunks) => s \in ReadToEnd
  BY <1>1, <1>6, <1>8, <1>9, <1>11
<1> QED
  BY <1>11, <1>12, <1>13 DEF b, s

\* A step that splits nothing and begins no source keeps the budgets.
LEMMA BudgetsUntouched ==
  ASSUME Typed, BudgetsKept, SameInput, SplitSet' = SplitSet, UNCHANGED <<left, usedUp, sampled>>,
         (1 .. next)' \subseteq Listed
  PROVE  BudgetsKept'
<1>1. /\ Budgets' = Budgets /\ Wanted' = Wanted /\ AllFeatures' = AllFeatures /\ Listed' = Listed
      /\ \A b : SplitOf(b)' = SplitOf(b)
  BY OfTheSameInput DEF SplitOf
<1> QED
  BY <1>1 DEF BudgetsKept, SameInput

\* A chunk that is split counts with all its features.
LEMMA ChunkSplit ==
  ASSUME Typed, Streams, SameInput, NEW t \in open, t.given + 1 <= Len(inp[t.source].chunks),
         next' = next,
         open' \in {open \ {t}, (open \ {t}) \cup {[t EXCEPT !.given = t.given + 1]}}
  PROVE  LET D == Features(t.source, t.given + 1, Len(inp[t.source].chunks[t.given + 1]))
         IN  /\ D \subseteq SplitSet' /\ D \cap SplitSet = {}
             /\ open' # open \ {t} => SplitSet' = SplitSet \cup D
<1> DEFINE s == t.source
           k == t.given + 1
           n == Len(inp[s].chunks[k])
           D == Features(s, k, n)
<1>1. /\ s \in 1 .. Len(inp) /\ k \in 1 .. Len(inp[s].chunks) /\ n \in Nat \ {0}
  BY StreamIs
<1>2. D \subseteq AllFeatures
  <2>1. n <= n
    BY <1>1
  <2> QED
    BY <1>1, <2>1, ChunkIs
<1>3. \A f \in D : f[1] = s /\ f[2] = k
  BY DEF Features
<1>4. /\ SplitSet \subseteq SplitSet'
      /\ \A f \in SplitSet' \ SplitSet : f[1] = s
      /\ \A f \in AllFeatures : f[1] = s /\ f[2] = k => f \in SplitSet' \ SplitSet
      /\ open' # open \ {t} => \A f \in SplitSet' \ SplitSet : f[2] = k
  BY SplitOfTheSource
<1>5. D \subseteq SplitSet' /\ D \cap SplitSet = {}
  BY <1>2, <1>3, <1>4
<1>6. ASSUME open' # open \ {t}, NEW f \in SplitSet' \ SplitSet
      PROVE  f \in D
  <2>1. f \in AllFeatures
    BY SplitSize DEF Typed
  <2>2. f[1] = s /\ f[2] = k
    BY <1>4, <1>6
  <2>3. f[3] \in 1 .. Len(inp[f[1]].chunks[f[2]]) /\ f = <<f[1], f[2], f[3]>>
    BY <2>1, FeatureIs DEF Typed
  <2>4. f[3] \in 1 .. n /\ f = <<s, k, f[3]>>
    BY <2>2, <2>3
  <2> HIDE DEF s, k, n
  <2> QED
    BY <2>4 DEF Features
<1>7. open' # open \ {t} => SplitSet' = SplitSet \cup D
  BY <1>4, <1>5, <1>6
<1> QED
  BY <1>5, <1>7

\* A chunk that is taken moves from the budget what it adds to the features split.
LEMMA ChunkKeepsBudgets ==
  ASSUME Typed, Streams, BudgetsKept, NEW w \in Workers, NEW t \in open, TakeChunk(w, t),
         NEW b, b = BudgetOf(t.source)
  PROVE  BudgetsKept'
<1> DEFINE s == t.source
           k == t.given + 1
           n == Len(inp[s].chunks[k])
           D == Features(s, k, n)
           take == Min({left[b], n})
<1>0. SameInput /\ next' = next
  BY DEF TakeChunk, SameInput
<1>1. /\ s \in 1 .. Len(inp) /\ k \in 1 .. Len(inp[s].chunks) /\ n \in Nat \ {0}
      /\ b \in 0 .. Len(inp) /\ left[b] \in Nat /\ extent.max \in Nat
      /\ t.given + 1 <= Len(inp[t.source].chunks) /\ ~usedUp[b]
  <2>1. t.given + 1 <= Len(inp[t.source].chunks) /\ ~usedUp[b]
    BY DEF TakeChunk
  <2>2. /\ s \in 1 .. Len(inp) /\ k \in 1 .. Len(inp[s].chunks) /\ n \in Nat \ {0}
        /\ b \in 0 .. Len(inp) /\ left[b] \in 0 .. extent.max /\ extent.max \in Nat
    BY <2>1, StreamIs
  <2> HIDE DEF s, k, n
  <2> QED
    BY <2>1, <2>2
<1>2. open' \in {open \ {t}, (open \ {t}) \cup {[t EXCEPT !.given = t.given + 1]}}
  BY DEF TakeChunk
<1>3. /\ Budgets' = Budgets /\ Wanted' = Wanted /\ AllFeatures' = AllFeatures /\ Listed' = Listed
      /\ \A c : SplitOf(c)' = SplitSet' \cap Scope(c)
      /\ extent' = extent /\ inp' = inp
  BY <1>0, OfTheSameInput DEF SplitOf, SameInput
<1>4. 1 .. next' \subseteq Listed'
  BY <1>0, <1>3 DEF BudgetsKept
<1>5. CASE ~Sampled
  <2>1. Budgets = {}
    BY <1>5 DEF Budgets
  <2>2. UNCHANGED <<left, usedUp, sampled>>
    BY <1>5 DEF TakeChunk
  <2> QED
    BY <1>3, <1>4, <2>1, <2>2 DEF BudgetsKept
<1>6. CASE Sampled
  <2>1. /\ left' = [left EXCEPT ![b] = @ - take]
        /\ usedUp' = [usedUp EXCEPT ![b] = take < n]
        /\ sampled' = (sampled \/ take < n)
    BY <1>6 DEF TakeChunk, Share
  <2>2. take \in {left[b], n} /\ take <= left[b] /\ take <= n /\ take \in Nat
    <3> HIDE DEF n
    <3> QED
      BY <1>1, MinOfTwo
  <2>3. b \in Budgets /\ \A c \in Budgets : c # b => c # 0 /\ \A f \in Scope(c) : f[1] # s
    BY <1>1, <1>6, BudgetIs
  <2>4. left[b] + Cardinality(Prior(s, k)) = extent.max /\ SplitOf(b) = Prior(s, k)
    BY <1>1, <1>6, BudgetTells, SplitIsPrior
  <2>5. /\ D \subseteq SplitSet' /\ D \cap SplitSet = {}
        /\ open' # open \ {t} => SplitSet' = SplitSet \cup D
        /\ SplitSet \subseteq SplitSet' /\ \A f \in SplitSet' \ SplitSet : f[1] = s
    BY <1>0, <1>1, <1>2, ChunkSplit, SplitOfTheSource
  <2>6. D \subseteq Scope(b)
    <3>1. D \subseteq AllFeatures /\ \A f \in D : f[1] = s
      <4>1. n <= n
        BY <1>1
      <4>2. \A f \in D : f[1] = s
        BY DEF Features
      <4> QED
        BY <1>1, <4>1, <4>2, ChunkIs
    <3> QED
      BY <3>1 DEF Scope, BudgetOf
  <2>7. IsFiniteSet(D) /\ Cardinality(D) = n
    BY <1>1, OfAChunk
  <2>8. /\ IsFiniteSet(SplitOf(b)) /\ IsFiniteSet(SplitOf(b)')
        /\ Cardinality(SplitOf(b)) \in Nat /\ Cardinality(SplitOf(b)') \in Nat
    BY <1>0, SplitSize DEF Typed
  <2>9. IsFiniteSet(SplitOf(b) \cup D) /\ Cardinality(SplitOf(b) \cup D) = Cardinality(SplitOf(b)) + n
    <3>1. \A A, B : IsFiniteSet(A) /\ IsFiniteSet(B) =>
              /\ IsFiniteSet(A \cup B)
              /\ Cardinality(A \cup B) = Cardinality(A) + Cardinality(B) - Cardinality(A \cap B)
      BY FS_Union
    <3>2. SplitOf(b) \cap D = {}
      BY <2>5 DEF SplitOf
    <3>3. Cardinality({}) = 0
      BY FS_EmptySet
    <3> HIDE DEF D, n, k, s
    <3>4. Cardinality(SplitOf(b) \cup D) = Cardinality(SplitOf(b)) + Cardinality(D) - Cardinality({})
      BY <2>7, <2>8, <3>1, <3>2
    <3>5. n \in Nat
      BY <1>1
    <3>6. IsFiniteSet(SplitOf(b) \cup D)
      BY <2>7, <2>8, <3>1
    <3> QED
      BY <2>7, <2>8, <3>3, <3>4, <3>5, <3>6
  <2>10. Cardinality(SplitOf(b)') >= Cardinality(SplitOf(b)) + n
    <3>1. SplitOf(b) \cup D \subseteq SplitOf(b)'
      BY <1>3, <2>5, <2>6 DEF SplitOf
    <3> HIDE DEF D, n
    <3>2. Cardinality(SplitOf(b) \cup D) <= Cardinality(SplitOf(b)')
      BY <2>8, <3>1, SizeOfSubset
    <3> QED
      BY <2>9, <3>2
  <2>11. ~(take < n) => Cardinality(SplitOf(b)') = Cardinality(SplitOf(b)) + n
    <3>1. ~(take < n) => left[b] # 0
      <4> HIDE DEF n, take
      <4> QED
        BY <1>1, <2>2
    <3>2. ASSUME left[b] # 0 PROVE open' # open \ {t}
      <4> DEFINE u == [t EXCEPT !.given = t.given + 1]
      <4>1. u \in open'
        BY <1>6, <3>2 DEF TakeChunk
      <4>2. u.source = t.source /\ u.given = t.given + 1 /\ t.given \in Nat
        BY StreamIs DEF StreamType
      <4> HIDE DEF u
      <4>3. u # t
        BY <4>2
      <4>4. u \notin open
        BY <4>2, <4>3 DEF Streams
      <4> QED
        BY <4>1, <4>4
    <3>3. ~(take < n) => SplitOf(b)' = SplitOf(b) \cup D
      BY <1>3, <2>5, <2>6, <3>1, <3>2 DEF SplitOf
    <3> HIDE DEF D, n, take
    <3> QED
      BY <2>9, <3>3
  <2>12. ASSUME NEW c \in Budgets, c # b
         PROVE  usedUp'[c] = usedUp[c] /\ left'[c] = left[c] /\ SplitOf(c)' = SplitOf(c)
    <3>1. SplitSet' \cap Scope(c) = SplitSet \cap Scope(c)
      BY <2>3, <2>5, <2>12
    <3>2. c \in 0 .. Len(inp)
      BY DEF Budgets
    <3> QED
      BY <1>3, <2>1, <2>12, <3>1, <3>2 DEF SplitOf, Typed, SourcesTyped
  <2>13. left'[b] = left[b] - take /\ (usedUp'[b] <=> take < n)
    BY <1>1, <2>1 DEF Typed, SourcesTyped
  <2>14. IF usedUp'[b] THEN Cardinality(SplitOf(b)') > extent.max
         ELSE left'[b] + Cardinality(SplitOf(b)') = extent.max
    <3> HIDE DEF D, n, take
    <3>1. left[b] + Cardinality(SplitOf(b)) = extent.max
      BY <2>4
    <3> QED
      BY <1>1, <2>2, <2>8, <2>10, <2>11, <2>13, <3>1
  <2>15. \A c \in Budgets : IF usedUp'[c] THEN Cardinality(SplitOf(c)') > extent.max
                            ELSE left'[c] + Cardinality(SplitOf(c)') = extent.max
    BY <2>12, <2>14 DEF BudgetsKept
  <2>16. \A c \in 0 .. Len(inp) : usedUp'[c] => c \in Budgets
    BY <2>1, <2>3 DEF BudgetsKept, Typed, SourcesTyped
  <2>17. sampled' <=> \E c \in Budgets : usedUp'[c]
    <3>1. sampled' <=> sampled \/ usedUp'[b]
      BY <2>1, <2>13
    <3>2. sampled <=> \E c \in Budgets : usedUp[c]
      BY DEF BudgetsKept
    <3> QED
      BY <1>1, <2>3, <2>12, <3>1, <3>2
  <2>18. sampled' => Wanted # AllFeatures
    <3>1. ASSUME take < n PROVE Wanted # AllFeatures
      <4>1. left[b] + 1 \in 1 .. n
        <5> HIDE DEF n, take
        <5> QED
          BY <1>1, <2>2, <3>1
      <4>2. \A m \in 1 .. n : <<s, k, m>> \in Wanted <=> m <= left[b]
        BY <1>1, <1>6, <2>4, WantedOfChunk DEF Typed
      <4>3. ~(left[b] + 1 <= left[b])
        <5> QED
          BY <1>1
      <4>4. <<s, k, left[b] + 1>> \notin Wanted
        BY <4>1, <4>2, <4>3
      <4>5. <<s, k, left[b] + 1>> \in D
        <5> HIDE DEF s, k, n
        <5> QED
          BY <4>1 DEF Features
      <4>6. D \subseteq AllFeatures
        BY <2>6 DEF Scope
      <4> QED
        BY <4>4, <4>5, <4>6
    <3> QED
      BY <2>1, <3>1 DEF BudgetsKept
  <2> HIDE DEF s, k, n, D, take
  <2> QED
    BY <1>3, <1>4, <2>15, <2>16, <2>17, <2>18 DEF BudgetsKept
<1> QED
  BY <1>5, <1>6

\* Every step keeps the budgets to what was split of them.
LEMMA BudgetsStay ==
  ASSUME Typed, Streams, BudgetsKept, [Next]_vars
  PROVE  BudgetsKept'
<1>0. SameInput
  BY InputKept
<1>1. ASSUME UNCHANGED <<next, open, left, usedUp, sampled>>
      PROVE  BudgetsKept'
  <2>1. SplitSet' = SplitSet
    BY <1>0, <1>1, OfTheSameInput DEF SplitSet
  <2>2. (1 .. next)' \subseteq Listed
    BY <1>1 DEF BudgetsKept
  <2> QED
    BY <1>0, <1>1, <2>1, <2>2, BudgetsUntouched
<1>2. ASSUME NEW w \in Workers, NextStream(w)
      PROVE  BudgetsKept'
  <2>1. PICK u \in StreamType :
            /\ next' = next + 1 /\ next + 1 \in 1 .. Len(inp) /\ next \in Nat
            /\ ~usedUp[0] /\ (extent.kind = "Sample" => open = {})
            /\ UNCHANGED <<left, usedUp, sampled>>
    BY <1>2, NextStreamIs
  <2>2. SplitSet' = SplitSet
    BY <1>0, <1>2, SameSplit
  <2>3. next + 1 \in Listed
    <3>1. ASSUME extent.kind = "Sample" PROVE Cardinality(Upto(next)) <= extent.max
      <4>1. 0 \in Budgets
        BY <2>1, <3>1 DEF Budgets, Sampled
      <4>2. left[0] + Cardinality(SplitOf(0)) = extent.max
        BY <2>1, <4>1 DEF BudgetsKept
      <4>3. SplitOf(0) = Upto(next)
        BY <2>1, <3>1, ScopeIs DEF SplitOf, SplitSet, Upto, Typed
      <4>4. left[0] \in 0 .. extent.max /\ extent.max \in Nat /\ Cardinality(SplitOf(0)) \in Nat
        <5>1. 0 \in 0 .. Len(inp)
          BY <4>1 DEF Budgets
        <5>2. extent.max \in Nat
          BY ExtentIs DEF Typed
        <5> QED
          BY <1>0, <5>1, <5>2, SplitSize DEF Typed, SourcesTyped
      <4>5. left[0] \in Nat
        BY <4>4
      <4> QED
        BY <4>2, <4>3, <4>4, <4>5
    <3>2. next + 1 \in DOMAIN inp
      BY <2>1, SourcesAre DEF Typed
    <3>3. PICK m : m = next + 1
      OBVIOUS
    <3>4. m - 1 = next /\ m \in DOMAIN inp
      BY <2>1, <3>2, <3>3
    <3>5. extent.kind = "Sample" => Cardinality(Upto(m - 1)) <= extent.max
      BY <3>1, <3>4
    <3>6. m \in Listed
      BY <3>4, <3>5 DEF Listed
    <3> QED
      BY <3>3, <3>6
  <2>4. (1 .. next)' \subseteq Listed
    <3>1. 1 .. next + 1 = (1 .. next) \cup {next + 1}
      BY <2>1
    <3>2. 1 .. next \subseteq Listed
      BY DEF BudgetsKept
    <3> QED
      BY <2>1, <2>3, <3>1, <3>2
  <2> QED
    BY <1>0, <2>1, <2>2, <2>4, BudgetsUntouched
<1>3. ASSUME NEW w \in Workers, NEW t \in open, OpenSource(w, t)
      PROVE  BudgetsKept'
  <2>1. UNCHANGED <<next, left, usedUp, sampled>>
    BY <1>3 DEF OpenSource
  <2>2. SplitSet' = SplitSet
    BY <1>0, <1>3, SameSplit
  <2>3. (1 .. next)' \subseteq Listed
    BY <2>1 DEF BudgetsKept
  <2> QED
    BY <1>0, <2>1, <2>2, <2>3, BudgetsUntouched
<1>4. ASSUME NEW w \in Workers, NEW t \in open, SourceEnds(w, t) \/ SourceFails(w, t)
      PROVE  BudgetsKept'
  <2>1. open' = open \ {t} /\ UNCHANGED <<next, left, usedUp, sampled>>
    BY <1>4 DEF SourceEnds, SourceFails
  <2>2. (1 .. next)' \subseteq Listed
    BY <2>1 DEF BudgetsKept
  <2>3. CASE t.given = Len(inp[t.source].chunks)
    <3>1. SplitSet' = SplitSet
      BY <1>0, <2>1, <2>3, SameSplit
    <3> QED
      BY <1>0, <2>1, <2>2, <3>1, BudgetsUntouched
  <2>4. CASE t.given # Len(inp[t.source].chunks)
    <3>0. PICK b : b = BudgetOf(t.source)
      OBVIOUS
    <3>1. usedUp[b]
      <4>1. t.source \in 1 .. Len(inp) /\ t.given \in 0 .. Len(inp[t.source].chunks)
        BY StreamIs
      <4>2. inp[t.source].chunks = <<>> \/ inp[t.source].last = "unlisted"
              => Len(inp[t.source].chunks) = 0
        BY <4>1, SourcesAre DEF Typed
      <4>3. ~(inp[t.source].chunks = <<>> \/ inp[t.source].last = "unlisted")
        BY <2>4, <4>1, <4>2
      <4>4. t.state # "Failed"
        BY <4>3 DEF Streams
      <4> QED
        BY <1>4, <2>4, <3>0, <4>3, <4>4 DEF SourceEnds, SourceFails, AtEnd
    <3>2. Sampled
      BY <3>0, <3>1, BudgetTells
    <3>3. b \in Budgets /\ \A c \in Budgets : c # b => c # 0 /\ \A f \in Scope(c) : f[1] # t.source
      BY <3>0, <3>2, StreamIs, BudgetIs
    <3>4. SplitSet \subseteq SplitSet' /\ \A f \in SplitSet' \ SplitSet : f[1] = t.source
      BY <1>0, <2>1, SplitOfTheSource
    <3>5. /\ Budgets' = Budgets /\ Wanted' = Wanted /\ AllFeatures' = AllFeatures /\ Listed' = Listed
          /\ \A c : SplitOf(c)' = SplitSet' \cap Scope(c)
          /\ extent' = extent /\ inp' = inp
      BY <1>0, OfTheSameInput DEF SplitOf, SameInput
    <3>6. \A c \in Budgets : c # b => SplitOf(c)' = SplitOf(c)
      BY <3>3, <3>4, <3>5 DEF SplitOf
    <3>7. Cardinality(SplitOf(b)) > extent.max
      BY <3>1, <3>3 DEF BudgetsKept
    <3>8. Cardinality(SplitOf(b)') > extent.max
      <4>1. SplitOf(b) \subseteq SplitOf(b)'
        BY <3>4, <3>5 DEF SplitOf
      <4>2. IsFiniteSet(SplitOf(b)')
        BY <1>0, SplitSize DEF Typed
      <4>3. /\ Cardinality(SplitOf(b)) \in Nat /\ Cardinality(SplitOf(b)') \in Nat
            /\ Cardinality(SplitOf(b)) <= Cardinality(SplitOf(b)')
        BY <4>1, <4>2, SizeOfSubset
      <4>4. extent.max \in Nat
        BY ExtentIs DEF Typed
      <4> QED
        BY <3>7, <4>3, <4>4
    <3>9. \A c \in Budgets : IF usedUp'[c] THEN Cardinality(SplitOf(c)') > extent.max
                             ELSE left'[c] + Cardinality(SplitOf(c)') = extent.max
      <4>1. ASSUME NEW c \in Budgets, c # b
            PROVE  IF usedUp'[c] THEN Cardinality(SplitOf(c)') > extent.max
                   ELSE left'[c] + Cardinality(SplitOf(c)') = extent.max
        BY <2>1, <3>6, <4>1 DEF BudgetsKept
      <4>2. usedUp'[b]
        BY <2>1, <3>1
      <4> QED
        BY <3>8, <4>1, <4>2
    <3> QED
      BY <2>1, <2>2, <3>5, <3>9 DEF BudgetsKept
  <2> QED
    BY <2>3, <2>4
<1>5. ASSUME UNCHANGED sourceVars PROVE BudgetsKept'
  BY <1>1, <1>5 DEF sourceVars
<1> QED
  BY <1>2, <1>3, <1>4, <1>5, ChunkKeepsBudgets, StepsAre, OthersKeepSources DEF SourceStep

-----------------------------------------------------------------------------
\* How the sources leave.

\* A source that is dropped with nothing left for its next chunk is not read to its end.
LEMMA DroppedIsCut ==
  ASSUME Typed, Streams, BudgetsKept, Sampled, NEW t \in open,
         left[BudgetOf(t.source)] = 0, ~usedUp[BudgetOf(t.source)],
         t.given + 1 <= Len(inp[t.source].chunks)
  PROVE  t.source \notin ReadToEnd
<1> DEFINE s == t.source
           k == t.given + 1
           f == <<s, k, 1>>
<1>1. /\ s \in 1 .. Len(inp) /\ s \in Nat /\ k \in 1 .. Len(inp[s].chunks) /\ k \in Nat
      /\ Len(inp[s].chunks[k]) \in Nat \ {0} /\ extent.max \in Nat
  BY StreamIs DEF StreamType
<1>2. Cardinality(Prior(s, k)) = extent.max
  <2>1. left[BudgetOf(s)] + Cardinality(Prior(s, k)) = extent.max
    BY BudgetTells
  <2>2. Prior(s, k) \subseteq Scope(BudgetOf(s)) /\ IsFiniteSet(Scope(BudgetOf(s)))
    BY ScopeIs DEF Prior, Typed
  <2>3. Cardinality(Prior(s, k)) \in Nat
    BY <2>2, SizeOfSubset
  <2> QED
    BY <2>1, <2>3
<1>3. f \in AllFeatures
  <2>1. 1 \in 1 .. Len(inp[s].chunks[k])
    BY <1>1
  <2>2. f[1] = s /\ f[2] = k /\ f[3] = 1
    OBVIOUS
  <2>3. f \in Nat \X Nat \X Nat
    BY <1>1
  <2> HIDE DEF f, s, k
  <2>4. IsFeature(f)
    BY <1>1, <2>1, <2>2, <2>3 DEF IsFeature
  <2> QED
    BY <2>4, OfTheInput DEF Typed
<1>4. f \in Reach(s) /\ f \notin Prior(s, k)
  <2>1. f[1] = s /\ f[2] = k
    OBVIOUS
  <2>2. f \in Scope(BudgetOf(s))
    BY <1>3, <2>1 DEF Scope, BudgetOf
  <2> HIDE DEF f, s, k
  <2> QED
    BY <1>1, <2>1, <2>2 DEF Reach, Prior
<1>5. Prior(s, k) \cup {f} \subseteq Reach(s)
  <2>1. \A g \in Scope(BudgetOf(s)) : g[1] \in Nat
    BY FeatureIs DEF Typed, Scope
  <2> HIDE DEF f, s, k
  <2> QED
    BY <1>1, <1>4, <2>1 DEF Prior, Reach
<1>6. IsFiniteSet(Reach(s))
  <2>1. Reach(s) \subseteq Scope(BudgetOf(s)) /\ IsFiniteSet(Scope(BudgetOf(s)))
    BY ScopeIs DEF Reach, Typed
  <2> QED
    BY <2>1, SizeOfSubset
<1> HIDE DEF f, s, k
<1>7. IsFiniteSet(Prior(s, k)) /\ Cardinality(Reach(s)) \in Nat
  <2>1. Prior(s, k) \subseteq Reach(s)
    BY <1>5
  <2> QED
    BY <1>6, <2>1, SizeOfSubset
<1>8. Cardinality(Prior(s, k) \cup {f}) = Cardinality(Prior(s, k)) + 1
  BY <1>4, <1>7, FS_AddElement
<1>9. Cardinality(Prior(s, k) \cup {f}) <= Cardinality(Reach(s))
  BY <1>5, <1>6, SizeOfSubset
<1>10. Cardinality(Reach(s)) > extent.max
  BY <1>1, <1>2, <1>7, <1>8, <1>9
<1>11. s \notin ReadToEnd
  BY <1>1, <1>7, <1>10, ReadIs DEF Typed
<1> QED
  BY <1>11 DEF s

\* A stream that is being split is of a source of the list.
LEMMA ChunksGiveFeatures ==
  ASSUME Typed, Streams, NEW t \in open
  PROVE  /\ t.state = "Splitting" => inp[t.source].last # "unlisted"
         /\ inp[t.source].chunks # <<>> => ~HasNothing(t.source)
         /\ t.given + 1 <= Len(inp[t.source].chunks) => inp[t.source].chunks # <<>>
<1>1. /\ t.source \in 1 .. Len(inp) /\ t.given \in 0 .. Len(inp[t.source].chunks)
      /\ Len(inp[t.source].chunks) \in Nat
  BY StreamIs
<1>2. /\ inp[t.source].chunks = <<>> <=> Len(inp[t.source].chunks) = 0
      /\ inp[t.source].last \in {"no header", "no member"} => Len(inp[t.source].chunks) = 0
  BY <1>1, SourcesAre DEF Typed
<1>3. t.given + 1 <= Len(inp[t.source].chunks) => Len(inp[t.source].chunks) # 0
  BY <1>1
<1> QED
  BY <1>2, <1>3 DEF Streams, HasNothing

\* A step of the stream t closes no other source.
LEMMA ClosesOnlyIts ==
  ASSUME Typed, Streams, NEW w \in Workers, NEW t \in open,
         OpenSource(w, t) \/ TakeChunk(w, t) \/ SourceEnds(w, t) \/ SourceFails(w, t),
         NEW s \in 1 .. next
  PROVE  /\ s # t.source => (Closed(s)' <=> Closed(s))
         /\ Closed(t.source)' <=> open' = open \ {t}
         /\ ~Closed(t.source)
<1>1. \A x \in open : x.source = t.source => x = t
  BY DEF Streams
<1>2. t.source <= next
  BY StreamIs DEF Typed, SourcesTyped
<1>3. next' = next
  BY StreamGoesOn
<1>4. CASE open' = open \ {t}
  BY <1>1, <1>2, <1>3, <1>4 DEF Closed
<1>5. ASSUME NEW u \in StreamType, open' = (open \ {t}) \cup {u}, u.source = t.source
      PROVE  /\ s # t.source => (Closed(s)' <=> Closed(s))
             /\ ~Closed(t.source)' /\ open' # open \ {t}
             /\ ~Closed(t.source)
  BY <1>1, <1>2, <1>3, <1>5 DEF Closed
<1> QED
  BY <1>4, <1>5, StreamGoesOn

\* Every step keeps this: while the input goes on, a source is closed only when it ended well.
LEMMA ClosedStaysWell ==
  ASSUME Typed, Streams, BudgetsKept, ClosedWell, [Next]_vars
  PROVE  ClosedWell'
<1>0. SameInput /\ inp' = inp /\ ReadToEnd' = ReadToEnd
  BY InputKept, OfTheSameInput DEF SameInput
<1>1. CASE UNCHANGED sourceVars
  BY <1>0, <1>1 DEF ClosedWell, Closed, sourceVars
<1>2. ASSUME NEW w \in Workers, NextStream(w)
      PROVE  ClosedWell'
  <2>1. PICK u \in StreamType :
            /\ open' = open \cup {u} /\ u.source = next + 1
            /\ next' = next + 1 /\ next \in Nat /\ inputEnded' = inputEnded
    BY <1>2, NextStreamIs
  <2>2. ASSUME NEW s \in 1 .. next', Closed(s)' PROVE s \in 1 .. next /\ Closed(s)
    <3>1. s # next + 1
      BY <2>1, <2>2 DEF Closed
    <3>2. s \in 1 .. next
      BY <2>1, <3>1
    <3> QED
      BY <2>1, <2>2, <3>2 DEF Closed
  <2> QED
    BY <1>0, <2>1, <2>2 DEF ClosedWell
<1>3. ASSUME NEW w \in Workers, NEW t \in open, SourceFails(w, t)
      PROVE  ClosedWell'
  BY <1>3, LastIs DEF ClosedWell
<1>4. ASSUME NEW w \in Workers, NEW t \in open,
             OpenSource(w, t) \/ TakeChunk(w, t) \/ SourceEnds(w, t)
      PROVE  ClosedWell'
  <2>1. next' = next /\ ~inputEnded
    BY <1>4, StreamGoesOn DEF OpenSource, TakeChunk, SourceEnds
  <2>2. ASSUME open' = open \ {t}
        PROVE  /\ inp[t.source].last # "unlisted"
               /\ t.source \in ReadToEnd => inp[t.source].last \in Fine
    <3>1. CASE OpenSource(w, t)
      <4>1. inp[t.source].last = "no header"
        <5> DEFINE u == [t EXCEPT !.state = "Splitting"]
        <5>1. u.source = t.source
          BY StreamIs DEF StreamType
        <5>2. u.state = "Splitting" /\ t.state = "Unopened"
          BY <3>1, StreamIs DEF StreamType, OpenSource
        <5>3. inp[t.source].last # "no header" => u \in open'
          BY <3>1 DEF OpenSource
        <5> HIDE DEF u
        <5> QED
          BY <2>2, <5>1, <5>2, <5>3 DEF Streams
      <4> QED
        BY <4>1 DEF Fine
    <3>2. CASE TakeChunk(w, t)
      <4>1. /\ ~usedUp[BudgetOf(t.source)] /\ t.given + 1 <= Len(inp[t.source].chunks)
            /\ t.state = "Splitting"
        BY <3>2 DEF TakeChunk
      <4>2. Sampled /\ left[BudgetOf(t.source)] = 0
        <5> DEFINE u == [t EXCEPT !.given = t.given + 1]
        <5>1. u.source = t.source /\ u.given = t.given + 1 /\ t.given \in Nat
          BY StreamIs DEF StreamType
        <5>2. (Sampled /\ left[BudgetOf(t.source)] = 0) \/ u \in open'
          BY <3>2 DEF TakeChunk
        <5> HIDE DEF u
        <5>3. u # t
          BY <5>1
        <5> QED
          BY <2>2, <5>1, <5>2, <5>3 DEF Streams
      <4> QED
        BY <4>1, <4>2, DroppedIsCut, ChunksGiveFeatures
    <3>3. CASE SourceEnds(w, t)
      <4>1. t.state = "Splitting"
        BY <3>3 DEF SourceEnds
      <4>2. CASE usedUp[BudgetOf(t.source)]
        BY <4>1, <4>2, BudgetTells, ChunksGiveFeatures
      <4>3. CASE ~usedUp[BudgetOf(t.source)]
        BY <3>3, <4>3 DEF SourceEnds, Fine
      <4> QED
        BY <4>2, <4>3
    <3> QED
      BY <1>4, <3>1, <3>2, <3>3
  <2>3. ASSUME NEW s \in 1 .. next, Closed(s)', s # t.source
        PROVE  Closed(s)
    BY <1>4, <2>3, ClosesOnlyIts
  <2>4. ASSUME NEW s \in 1 .. next, Closed(s)', s = t.source
        PROVE  open' = open \ {t}
    BY <1>4, <2>4, ClosesOnlyIts
  <2> QED
    BY <1>0, <2>1, <2>2, <2>3, <2>4 DEF ClosedWell
<1> QED
  BY <1>1, <1>2, <1>3, <1>4, StepsAre, OthersKeepSources DEF SourceStep

-----------------------------------------------------------------------------
\* The entries of the sources.

\* What was listed before a step was listed without an error if it is so after the step.
LEMMA ListedStays ==
  ASSUME [Next]_vars, Typed, AllListed'
  PROVE  AllListed /\ next <= next' /\ next \in Nat
<1>1. inp' = inp
  BY InputKept DEF SameInput
<1>2. next \in Nat
  <2>1. Len(inp) \in Nat
    BY SourcesAre DEF Typed
  <2> QED
    BY <2>1 DEF Typed, SourcesTyped
<1>3. next' = next \/ next' = next + 1
  <2>1. UNCHANGED sourceVars => next' = next
    BY DEF sourceVars
  <2>2. ASSUME NEW w \in Workers, SourceStep(w) PROVE next' = next \/ next' = next + 1
    BY <2>2 DEF SourceStep, NextStream, OpenSource, TakeChunk, SourceEnds, SourceFails
  <2> QED
    BY <2>1, <2>2, StepsAre, OthersKeepSources
<1> QED
  BY <1>1, <1>2, <1>3 DEF AllListed

\* Every step keeps the entry of each source at the index of its id.
LEMMA SourcesStayListed ==
  ASSUME Typed, Streams, BudgetsKept, ListedSources, AllListed', [Next]_vars
  PROVE  ListedSources'
<1>0. SameInput /\ inp' = inp /\ \A s : FinalStatus(s)' = FinalStatus(s)
  BY InputKept, OfTheSameInput DEF SameInput, FinalStatus, HasNothing
<1>1. CASE UNCHANGED sourceVars
  BY <1>0, <1>1 DEF ListedSources, Closed, sourceVars
<1>2. /\ opened \in Seq(OpenedType) /\ Len(opened) = next /\ Len(opened) \in Nat
  <2>1. opened \in Seq(OpenedType)
    BY DEF Typed, SourcesTyped
  <2> QED
    BY <2>1, LenProperties DEF ListedSources
<1>3. ASSUME NEW w \in Workers, NextStream(w)
      PROVE  ListedSources'
  <2>1. PICK u \in StreamType :
            /\ open' = open \cup {u} /\ u.source = next + 1
            /\ next' = next + 1 /\ next + 1 \in 1 .. Len(inp) /\ next \in Nat
            /\ u.state = IF inp[next + 1].last = "unlisted" THEN "Failed" ELSE "Unopened"
            /\ inp[next + 1].last # "unlisted" => u.id = Len(opened) + 1
            /\ inputEnded' = inputEnded
    BY <1>3, NextStreamIs
  <2>2. inp[next + 1].last # "unlisted"
    <3>1. next + 1 \in 1 .. next'
      BY <2>1
    <3> QED
      BY <1>0, <3>1 DEF AllListed
  <2> DEFINE o == [name |-> next + 1, status |-> "Pending"]
  <2>3. opened' = Append(opened, o)
    BY <1>3, <2>2 DEF NextStream
  <2>4. o \in OpenedType /\ o.name = next + 1 /\ o.status = "Pending"
    BY <2>1 DEF OpenedType
  <2> HIDE DEF o
  <2>5. /\ Len(opened') = next + 1 /\ opened'[next + 1] = o
        /\ \A n \in 1 .. next : opened'[n] = opened[n]
    BY <1>2, <2>3, <2>4, OneMoreOpened
  <2>6. ASSUME NEW s \in 1 .. next'
        PROVE  /\ opened'[s].name = s
               /\ Closed(s)' => inputEnded' \/ opened'[s].status = FinalStatus(s)
    <3>1. CASE s = next + 1
      BY <2>1, <2>4, <2>5, <3>1 DEF Closed
    <3>2. CASE s # next + 1
      <4>1. s \in 1 .. next
        BY <2>1, <3>2
      <4>2. Closed(s)' => Closed(s)
        BY <2>1, <4>1 DEF Closed
      <4> QED
        BY <2>1, <2>5, <4>1, <4>2 DEF ListedSources
    <3> QED
      BY <3>1, <3>2
  <2>7. ASSUME NEW x \in open'
        PROVE  /\ x.id = x.source
               /\ opened'[x.source].status = IF x.state = "Unopened" THEN "Pending" ELSE "Read"
    <3>1. CASE x = u
      BY <1>2, <2>1, <2>2, <2>4, <2>5, <3>1
    <3>2. CASE x \in open
      <4>1. x.source \in 1 .. next
        BY <3>2, StreamIs
      <4> QED
        BY <2>5, <3>2, <4>1 DEF ListedSources
    <3> QED
      BY <2>1, <3>1, <3>2
  <2> QED
    BY <1>0, <2>1, <2>5, <2>6, <2>7 DEF ListedSources
<1>4. ASSUME NEW w \in Workers, NEW t \in open, SourceFails(w, t)
      PROVE  ListedSources'
  <2>1. open' = open \ {t} /\ UNCHANGED <<next, opened>> /\ inputEnded'
    BY <1>4, LastIs DEF SourceFails
  <2> QED
    BY <1>0, <2>1 DEF ListedSources
<1>5. ASSUME NEW w \in Workers, NEW t \in open,
             OpenSource(w, t) \/ TakeChunk(w, t) \/ SourceEnds(w, t)
      PROVE  ListedSources'
  <2>1. next' = next /\ inputEnded' = inputEnded
    BY <1>5, StreamGoesOn DEF OpenSource, TakeChunk, SourceEnds
  <2>2. t.source \in 1 .. next /\ t.id = t.source /\ t \in StreamType
    BY StreamIs DEF ListedSources
  <2>3. /\ Len(opened') = Len(opened)
        /\ \A n \in 1 .. next : /\ opened'[n].name = opened[n].name
                                /\ n # t.source => opened'[n].status = opened[n].status
    <3>1. ASSUME NEW status \in {"Read", "Skipped"}, SetStatus(t.id, status)
          PROVE  /\ Len(opened') = Len(opened)
                 /\ \A n \in 1 .. next : /\ opened'[n].name = opened[n].name
                                         /\ n # t.source => opened'[n].status = opened[n].status
      BY <1>2, <2>2, <3>1, StatusIs
    <3>2. SetStatus(t.id, "Read") \/ SetStatus(t.id, "Skipped") \/ UNCHANGED opened
      BY <1>5 DEF OpenSource, TakeChunk, SourceEnds
    <3> QED
      BY <3>1, <3>2
  <2>4. IF open' = open \ {t} THEN opened'[t.source].status = FinalStatus(t.source)
        ELSE opened'[t.source].status = "Read"
    <3>1. \A status \in {"Read", "Skipped"} :
              SetStatus(t.id, status) => opened'[t.source].status = status
      BY <1>2, <2>2, StatusIs
    <3>2. CASE OpenSource(w, t)
      <4> DEFINE u == [t EXCEPT !.state = "Splitting"]
      <4>1. u.source = t.source /\ u.state = "Splitting" /\ t.state = "Unopened"
        BY <2>2, <3>2 DEF StreamType, OpenSource
      <4>2. \/ inp[t.source].last = "no header" /\ SetStatus(t.id, "Skipped") /\ open' = open \ {t}
            \/ SetStatus(t.id, "Read") /\ u \in open'
        BY <3>2 DEF OpenSource
      <4> HIDE DEF u
      <4>3. u \in open' => open' # open \ {t}
        BY <4>1 DEF Streams
      <4> QED
        BY <3>1, <4>2, <4>3 DEF FinalStatus, HasNothing
    <3>3. CASE TakeChunk(w, t)
      <4>1. ~HasNothing(t.source)
        BY <3>3, ChunksGiveFeatures DEF TakeChunk
      <4>2. opened' = opened /\ opened[t.source].status = "Read"
        BY <3>3 DEF TakeChunk, ListedSources
      <4> QED
        BY <4>1, <4>2 DEF FinalStatus
    <3>4. CASE SourceEnds(w, t)
      <4>1. open' = open \ {t} /\ opened[t.source].status = "Read"
        BY <3>4 DEF SourceEnds, ListedSources
      <4>2. CASE usedUp[BudgetOf(t.source)]
        <5>1. opened' = opened
          BY <3>4, <4>2 DEF SourceEnds
        <5>2. ~HasNothing(t.source)
          BY <4>2, ChunksGiveFeatures DEF Streams
        <5> QED
          BY <4>1, <5>1, <5>2 DEF FinalStatus
      <4>3. CASE ~usedUp[BudgetOf(t.source)]
        <5>1. \/ inp[t.source].last = "read" /\ opened' = opened
              \/ inp[t.source].last = "no member" /\ SetStatus(t.id, "Skipped")
          BY <3>4, <4>3 DEF SourceEnds
        <5> QED
          BY <3>1, <4>1, <5>1 DEF FinalStatus, HasNothing
      <4> QED
        BY <4>2, <4>3
    <3> QED
      BY <1>5, <3>2, <3>3, <3>4
  <2>5. ASSUME NEW s \in 1 .. next
        PROVE  /\ opened'[s].name = s
               /\ Closed(s)' => inputEnded' \/ opened'[s].status = FinalStatus(s)
    <3>1. /\ s # t.source => (Closed(s)' <=> Closed(s))
          /\ s = t.source /\ Closed(s)' => open' = open \ {t}
      BY <1>5, ClosesOnlyIts
    <3> QED
      BY <2>1, <2>3, <2>4, <3>1 DEF ListedSources
  <2>6. ASSUME NEW x \in open'
        PROVE  /\ x.id = x.source
               /\ opened'[x.source].status = IF x.state = "Unopened" THEN "Pending" ELSE "Read"
    <3>1. CASE x.source = t.source
      <4>1. open' # open \ {t}
        BY <3>1 DEF Streams
      <4>2. x.id = t.id /\ x.state = "Splitting"
        BY <1>5, <3>1, <4>1, StreamGoesOn DEF Streams
      <4> QED
        BY <2>2, <2>4, <3>1, <4>1, <4>2
    <3>2. CASE x.source # t.source
      <4>1. x \in open
        BY <1>5, <3>2, StreamGoesOn
      <4>2. x.source \in 1 .. next
        BY <4>1, StreamIs
      <4> QED
        BY <2>3, <3>2, <4>1, <4>2 DEF ListedSources
    <3> QED
      BY <3>1, <3>2
  <2> QED
    BY <1>0, <2>1, <2>3, <2>5, <2>6 DEF ListedSources
<1> QED
  BY <1>1, <1>3, <1>4, <1>5, StepsAre, OthersKeepSources DEF SourceStep

\* Every step keeps the ids the chunks and the partials carry to those of the entries.
LEMMA IdsStayKnown ==
  ASSUME Typed, ListedSources, IdsKnown, AllListed', [Next]_vars
  PROVE  IdsKnown'
<1>1. \A p : Known(p) => Known(p)'
  <2>1. next <= next' /\ next \in Nat
    BY ListedStays
  <2>2. next' \in Nat
    <3>1. Len(inp)' \in Nat
      BY StaysTyped, InputKept, SourcesAre DEF Typed, SameInput
    <3> QED
      BY <3>1, StaysTyped DEF Typed, SourcesTyped
  <2> QED
    BY <2>1, <2>2 DEF Known
<1>2. /\ item \in [Workers -> ItemType]
  BY DEF Typed, WorkersTyped
<1>3. ASSUME UNCHANGED <<item, partial>> PROVE IdsKnown'
  BY <1>1, <1>3 DEF IdsKnown
<1>4. ASSUME NEW w \in Workers, NEW t \in open, TakeChunk(w, t)
      PROVE  IdsKnown'
  <2>1. partial' = partial
    BY <1>4 DEF TakeChunk
  <2>2. \/ item' = item
        \/ \E i : item' = [item EXCEPT ![w] = i] /\ i.source = t.source /\ i.id = t.id
    <3>1. PICK share \in Nat :
              \/ item' = item
              \/ item' = [item EXCEPT ![w] =
                    [kind |-> "chunk", source |-> t.source, id |-> t.id,
                     features |-> Features(t.source, t.given + 1, share)]]
      BY <1>4, TakenIs
    <3> DEFINE i == [kind |-> "chunk", source |-> t.source, id |-> t.id,
                     features |-> Features(t.source, t.given + 1, share)]
    <3>2. i.source = t.source /\ i.id = t.id
      OBVIOUS
    <3>3. item' = item \/ item' = [item EXCEPT ![w] = i]
      BY <3>1
    <3> HIDE DEF i
    <3> QED
      BY <3>2, <3>3
  <2>3. Known(<<t.source, t.id>>)
    BY StreamIs DEF ListedSources, Known
  <2> QED
    BY <1>1, <1>2, <1>3, <2>1, <2>2, <2>3 DEF IdsKnown
<1>5. ASSUME NEW w \in Workers, NEW t \in open, SourceFails(w, t)
      PROVE  IdsKnown'
  <2>1. partial' = partial
    BY <1>5 DEF SourceFails
  <2>2. (\A v \in Workers \ {w} : item'[v] = item[v]) /\ item'[w].kind \in {"error", "panic"}
    BY <1>5, LastIs
  <2> QED
    BY <1>1, <2>1, <2>2 DEF IdsKnown
<1>6. ASSUME NEW w \in Workers, StepFails(w) \/ StepPanics(w) \/ Step(w)
      PROVE  IdsKnown'
  <2>1. item' = [item EXCEPT ![w] = NoItem]
    BY <1>6 DEF StepFails, StepPanics, Step
  <2>2. \A v \in Workers : item'[v].kind = "chunk" => item'[v] = item[v]
    BY <1>2, <2>1, NoItemIs
  <2>3. ASSUME NEW v \in Workers, NEW p \in partial'[v].ids PROVE Known(p)
    <3>1. CASE Step(w) /\ v = w
      <4>1. p \in partial[w].ids \/ p = <<item[w].source, item[w].id>>
        BY <2>3, <3>1, StepIs
      <4>2. item[w].kind = "chunk"
        BY <3>1 DEF Step
      <4> QED
        BY <4>1, <4>2 DEF IdsKnown
    <3>2. CASE ~(Step(w) /\ v = w)
      <4>1. partial'[v].ids = partial[v].ids
        BY <1>6, <3>2, StepIs, FailsIs DEF StepPanics
      <4> QED
        BY <2>3, <4>1 DEF IdsKnown
    <3> QED
      BY <3>1, <3>2
  <2> QED
    BY <1>1, <2>2, <2>3 DEF IdsKnown
<1>7. ASSUME NEW w \in Workers, NEW t \in open, OpenSource(w, t) \/ SourceEnds(w, t)
      PROVE  IdsKnown'
  <2>1. UNCHANGED <<item, partial>>
    BY <1>7 DEF OpenSource, SourceEnds, workerVars
  <2> QED
    BY <1>3, <2>1
<1>8. ASSUME \/ \E w \in Workers : NextStream(w) \/ CheckStop(w) \/ TakeNone(w) \/ Spawn(w)
             \/ CallStep \/ UNCHANGED vars
      PROVE  IdsKnown'
  <2>1. UNCHANGED <<item, partial>>
    BY <1>8 DEF NextStream, CheckStop, TakeNone, Spawn, CallStep, SpawnFails, Leave, Join,
                vars, workerVars
  <2> QED
    BY <1>3, <2>1
<1> QED
  BY <1>4, <1>5, <1>6, <1>7, <1>8, StepsAre DEF SourceStep, OtherStep

\* Every step keeps entries and ids in order.
LEMMA ListingStays ==
  ASSUME Typed, Streams, BudgetsKept, Listing, [Next]_vars
  PROVE  Listing'
<1>1. ASSUME AllListed' PROVE ListedSources' /\ IdsKnown'
  <2>1. AllListed
    BY <1>1, ListedStays
  <2> QED
    BY <1>1, <2>1, SourcesStayListed, IdsStayKnown DEF Listing
<1> QED
  BY <1>1 DEF Listing

-----------------------------------------------------------------------------
\* The workers.

\* A stream that fails was split to its end, and the scan reads that far.
LEMMA FailsAtEnd ==
  ASSUME Typed, Streams, BudgetsKept, NEW w \in Workers, NEW t \in open, SourceFails(w, t)
  PROVE  t.given = Len(inp[t.source].chunks) /\ t.source \in ReadToEnd
<1>1. /\ t.source \in 1 .. Len(inp) /\ t.given \in 0 .. Len(inp[t.source].chunks)
      /\ Len(inp[t.source].chunks) \in Nat
  BY StreamIs
<1>2. /\ inp[t.source].chunks = <<>> <=> Len(inp[t.source].chunks) = 0
      /\ inp[t.source].last = "unlisted" => Len(inp[t.source].chunks) = 0
  BY <1>1, SourcesAre DEF Typed
<1>3. \/ t.state # "Splitting" /\ Len(inp[t.source].chunks) = 0
      \/ t.given = Len(inp[t.source].chunks) /\ ~usedUp[BudgetOf(t.source)]
  BY <1>2, LastIs DEF Streams, AtEnd
<1>4. t.given = Len(inp[t.source].chunks) /\ ~usedUp[BudgetOf(t.source)]
  BY <1>1, <1>3 DEF Streams
<1> QED
  BY <1>4, BudgetTells

\* A chunk is dropped only when nothing is left of its budget.
LEMMA DroppedIf ==
  ASSUME Typed, Streams, NEW w \in Workers, NEW t \in open, TakeChunk(w, t), open' = open \ {t}
  PROVE  Sampled /\ left[BudgetOf(t.source)] = 0 /\ UNCHANGED <<pc, item>>
<1> DEFINE u == [t EXCEPT !.given = t.given + 1]
<1>1. u.source = t.source /\ u.given = t.given + 1 /\ t.given \in Nat
  BY StreamIs DEF StreamType
<1>2. \/ Sampled /\ left[BudgetOf(t.source)] = 0 /\ UNCHANGED <<pc, item>>
      \/ u \in open'
  BY DEF TakeChunk
<1> HIDE DEF u
<1>3. u # t
  BY <1>1
<1> QED
  BY <1>1, <1>2, <1>3 DEF Streams

\* Of a source whose budget is exhausted nothing more is wanted.
LEMMA NothingMoreWanted ==
  ASSUME Typed, Streams, Sampled, NEW t \in open,
         Cardinality(SplitOf(BudgetOf(t.source))) >= extent.max,
         NEW f \in AllFeatures, f[1] = t.source, f \notin SplitSet
  PROVE  f \notin Wanted
<1>1. /\ t.source \in 1 .. next /\ t.given \in Nat /\ next \in Nat /\ extent.max \in Nat
  <2>1. Len(inp) \in Nat
    BY SourcesAre DEF Typed
  <2> QED
    BY <2>1, StreamIs DEF Typed, SourcesTyped, StreamType
<1>2. f[1] \in Nat /\ f[2] \in Nat
  BY FeatureIs DEF Typed
<1>3. \A x \in open : x.source = t.source => x = t
  BY DEF Streams
<1>4. f[2] > t.given
  BY <1>1, <1>2, <1>3, SplitIs
<1> DEFINE D == SplitOf(BudgetOf(t.source))
<1>5. D = Prior(t.source, t.given + 1)
  BY SplitIsPrior
<1>6. \A g \in D : Before(g, f)
  <2>1. \A g \in D : g[1] < t.source \/ (g[1] = t.source /\ g[2] < t.given + 1)
    BY <1>5 DEF Prior
  <2>2. \A g \in D : g[2] \in Nat
    BY FeatureIs DEF Typed, SplitOf, Scope
  <2> HIDE DEF D
  <2>3. \A g \in D : g[2] < t.given + 1 => g[2] < f[2]
    BY <1>1, <1>2, <1>4, <2>2
  <2> QED
    BY <2>1, <2>3 DEF Before
<1>7. D \subseteq Scope(BudgetOf(f[1]))
  BY DEF SplitOf
<1>8. Cardinality(D) \in Nat
  <2>1. IsFiniteSet(Scope(BudgetOf(f[1])))
    BY ScopeIs DEF Typed
  <2> HIDE DEF D
  <2> QED
    BY <1>7, <2>1, SizeOfSubset
<1>9. Cardinality(D) >= extent.max
  OBVIOUS
<1> HIDE DEF D
<1>10. f \in Wanted => Cardinality(D) < extent.max
  BY <1>6, <1>7, NotWantedBehind DEF Typed
<1> QED
  BY <1>1, <1>8, <1>9, <1>10

\* Only a chunk that is taken adds to what is split of the wanted features.
LEMMA OnlyTakenIsWanted ==
  ASSUME Typed, Streams, BudgetsKept, NEW w \in Workers,
         \/ NextStream(w)
         \/ \E t \in open : \/ OpenSource(w, t) \/ SourceEnds(w, t) \/ SourceFails(w, t)
                            \/ TakeChunk(w, t) /\ open' = open \ {t}
  PROVE  SplitSet \subseteq SplitSet' /\ Wanted \cap SplitSet' \subseteq SplitSet
<1>0. SameInput
  BY DEF NextStream, OpenSource, SourceEnds, SourceFails, TakeChunk, SameInput
<1>1. CASE NextStream(w)
  BY <1>0, <1>1, SameSplit
<1>2. ASSUME NEW t \in open, OpenSource(w, t)
      PROVE  SplitSet' = SplitSet
  BY <1>0, <1>2, SameSplit
<1>3. ASSUME NEW t \in open, SourceEnds(w, t) \/ SourceFails(w, t) \/ TakeChunk(w, t),
             open' = open \ {t}
      PROVE  SplitSet \subseteq SplitSet' /\ Wanted \cap SplitSet' \subseteq SplitSet
  <2>1. next' = next
    BY <1>3, StreamGoesOn
  <2>2. CASE t.given = Len(inp[t.source].chunks)
    BY <1>0, <1>3, <2>1, <2>2, SameSplit
  <2>3. CASE t.given # Len(inp[t.source].chunks)
    <3>1. Sampled /\ Cardinality(SplitOf(BudgetOf(t.source))) >= extent.max
      <4>0. Sampled => SplitOf(BudgetOf(t.source)) = Prior(t.source, t.given + 1)
        BY SplitIsPrior
      <4>1. extent.max \in Nat /\ Cardinality(SplitOf(BudgetOf(t.source))) \in Nat
        BY <1>0, SplitSize, ExtentIs DEF Typed
      <4>2. CASE TakeChunk(w, t)
        <5>1. Sampled /\ left[BudgetOf(t.source)] = 0 /\ ~usedUp[BudgetOf(t.source)]
          BY <1>3, <4>2, DroppedIf DEF TakeChunk
        <5>2. 0 + Cardinality(SplitOf(BudgetOf(t.source))) = extent.max
          BY <4>0, <5>1, BudgetTells
        <5> QED
          BY <4>1, <5>1, <5>2
      <4>3. CASE SourceEnds(w, t)
        <5>1. usedUp[BudgetOf(t.source)]
          BY <2>3, <4>3 DEF SourceEnds, AtEnd
        <5>2. Sampled
          BY <5>1, BudgetTells
        <5>3. BudgetOf(t.source) \in Budgets
          BY <5>2, BudgetIs, StreamIs
        <5>4. Cardinality(SplitOf(BudgetOf(t.source))) > extent.max
          BY <5>1, <5>3 DEF BudgetsKept
        <5> QED
          BY <4>1, <5>2, <5>4
      <4>4. CASE SourceFails(w, t)
        BY <2>3, <4>4, FailsAtEnd
      <4> QED
        BY <1>3, <4>2, <4>3, <4>4
    <3>2. SplitSet \subseteq SplitSet' /\ \A f \in SplitSet' \ SplitSet : f[1] = t.source
      BY <1>0, <1>3, <2>1, SplitOfTheSource
    <3>3. SplitSet' \subseteq AllFeatures
      BY <1>0, SplitSize DEF Typed
    <3>4. ASSUME NEW f \in Wanted \cap SplitSet', f \notin SplitSet PROVE FALSE
      BY <3>1, <3>2, <3>3, <3>4, NothingMoreWanted
    <3> QED
      BY <3>2, <3>4
  <2> QED
    BY <2>2, <2>3
<1>4. \A t \in open : SourceEnds(w, t) \/ SourceFails(w, t) => open' = open \ {t}
  BY DEF SourceEnds, SourceFails
<1> QED
  BY <1>1, <1>2, <1>3, <1>4

\* What TakeChunk gives of the next chunk.
ShareOf(t) ==
    IF Sampled THEN Min({left[BudgetOf(t.source)], Len(inp[t.source].chunks[t.given + 1])})
    ELSE Len(inp[t.source].chunks[t.given + 1])

\* The share of a chunk is what is left of the budget, or the whole chunk.
LEMMA ShareIs ==
  ASSUME Typed, NEW t \in open, t.given + 1 <= Len(inp[t.source].chunks), NEW n, NEW rest,
         n = Len(inp[t.source].chunks[t.given + 1]), rest = left[BudgetOf(t.source)]
  PROVE  /\ ShareOf(t) \in Nat /\ ShareOf(t) <= n /\ n \in Nat \ {0} /\ rest \in Nat
         /\ Sampled => ShareOf(t) \in {rest, n} /\ ShareOf(t) <= rest
         /\ ~Sampled => ShareOf(t) = n
<1>1. n \in Nat \ {0} /\ rest \in 0 .. extent.max /\ extent.max \in Nat
  BY StreamIs
<1>2. n \in Nat /\ rest \in Nat
  BY <1>1
<1>3. ShareOf(t) = IF Sampled THEN Min({rest, n}) ELSE n
  BY DEF ShareOf
<1>4. Min({rest, n}) \in {rest, n} /\ Min({rest, n}) <= rest /\ Min({rest, n}) <= n
  BY <1>2, MinOfTwo
<1>5. CASE Sampled
  BY <1>1, <1>2, <1>3, <1>4, <1>5
<1>6. CASE ~Sampled
  BY <1>1, <1>2, <1>3, <1>6
<1> QED
  BY <1>5, <1>6

\* Of a chunk that is taken, the share are the features that are wanted.
LEMMA ShareIsWanted ==
  ASSUME Typed, Streams, BudgetsKept, NEW w \in Workers, NEW t \in open, TakeChunk(w, t),
         open' # open \ {t}, NEW share,
         share = ShareOf(t)
  PROVE  LET F == Features(t.source, t.given + 1, share)
         IN  /\ F \subseteq SplitSet' /\ F \cap SplitSet = {} /\ F \subseteq Wanted
             /\ SplitSet \subseteq SplitSet'
             /\ Wanted \cap SplitSet' \subseteq SplitSet \cup F
<1> DEFINE s == t.source
           k == t.given + 1
           b == BudgetOf(s)
           n == Len(inp[s].chunks[k])
           D == Features(s, k, n)
           F == Features(s, k, share)
<1>0. SameInput /\ next' = next
      /\ open' \in {open \ {t}, (open \ {t}) \cup {[t EXCEPT !.given = t.given + 1]}}
  BY DEF TakeChunk, SameInput
<1>1. /\ s \in 1 .. Len(inp) /\ k \in 1 .. Len(inp[s].chunks) /\ n \in Nat \ {0}
      /\ left[b] \in Nat /\ extent.max \in Nat
      /\ t.given + 1 <= Len(inp[t.source].chunks) /\ ~usedUp[b]
  <2>1. t.given + 1 <= Len(inp[t.source].chunks) /\ ~usedUp[b]
    BY DEF TakeChunk
  <2>2. /\ s \in 1 .. Len(inp) /\ k \in 1 .. Len(inp[s].chunks) /\ n \in Nat \ {0}
        /\ left[b] \in 0 .. extent.max /\ extent.max \in Nat
    BY <2>1, StreamIs
  <2> HIDE DEF s, k, b, n
  <2> QED
    BY <2>1, <2>2
<1>2. SplitSet' = SplitSet \cup D /\ D \cap SplitSet = {}
  BY <1>0, <1>1, ChunkSplit
<1>3. /\ share \in Nat /\ share <= n
      /\ Sampled => share \in {left[b], n} /\ share <= left[b]
      /\ ~Sampled => share = n
  <2>1. n = Len(inp[t.source].chunks[t.given + 1]) /\ left[b] = left[BudgetOf(t.source)]
    OBVIOUS
  <2> HIDE DEF n, b
  <2> QED
    BY <1>1, <2>1, ShareIs
<1>4. D \subseteq AllFeatures
  <2>1. n <= n
    BY <1>1
  <2> QED
    BY <1>1, <2>1, ChunkIs
<1>5. \A m \in 1 .. n : <<s, k, m>> \in Wanted <=> m <= share
  <2>1. CASE Sampled
    <3>1. left[b] + Cardinality(Prior(s, k)) = extent.max
      BY <1>1, <2>1, BudgetTells
    <3>2. \A m \in 1 .. n : <<s, k, m>> \in Wanted <=> m <= left[b]
      BY <1>1, <2>1, <3>1, WantedOfChunk DEF Typed
    <3> HIDE DEF n, b, s, k
    <3>3. n \in Nat /\ left[b] \in Nat /\ share \in {left[b], n} /\ share <= left[b]
      BY <1>1, <1>3, <2>1
    <3>4. \A m \in 1 .. n : m <= left[b] <=> m <= share
      BY <1>3, <3>3
    <3> QED
      BY <3>2, <3>4
  <2>2. CASE ~Sampled
    <3>1. share = n
      BY <1>3, <2>2
    <3>2. \A m \in 1 .. n : <<s, k, m>> \in AllFeatures
      <4>1. \A m \in 1 .. n : <<s, k, m>> \in D
        BY DEF Features
      <4> QED
        BY <1>4, <4>1
    <3>3. \A f \in AllFeatures : f \in Wanted
      BY <2>2, WantedIs DEF Typed
    <3> HIDE DEF n, s, k
    <3>4. \A m \in 1 .. n : m <= n
      BY <1>1
    <3> QED
      BY <3>1, <3>2, <3>3, <3>4
  <2> QED
    BY <2>1, <2>2
<1>6. \A f : f \in D <=> \E m \in 1 .. n : f = <<s, k, m>>
  BY DEF Features
<1>7. \A f : f \in F <=> \E m \in 1 .. share : f = <<s, k, m>>
  BY DEF Features
<1>8. \A m : m \in 1 .. share <=> m \in 1 .. n /\ m <= share
  <2>1. n \in Nat
    BY <1>1
  <2> HIDE DEF n
  <2> QED
    BY <1>3, <2>1
<1> HIDE DEF D, n, s, k, F
<1>9. F \subseteq D /\ F \subseteq Wanted /\ Wanted \cap D \subseteq F
  <2>1. \A f : f \in F => f \in D /\ f \in Wanted
    BY <1>5, <1>6, <1>7, <1>8
  <2>2. \A f : f \in D /\ f \in Wanted => f \in F
    BY <1>5, <1>6, <1>7, <1>8
  <2> QED
    BY <2>1, <2>2
<1>10. /\ F \subseteq SplitSet' /\ F \cap SplitSet = {} /\ F \subseteq Wanted
       /\ SplitSet \subseteq SplitSet'
       /\ Wanted \cap SplitSet' \subseteq SplitSet \cup F
  BY <1>2, <1>9
<1> QED
  BY <1>10 DEF F, s, k

\* What a worker takes in its hands, which were empty.
LEMMA HandsAre ==
  ASSUME Typed, NEW w \in Workers, NEW t \in open, TakeChunk(w, t), open' # open \ {t}
  PROVE  /\ item[w].kind = "none"
         /\ item'[w].kind = "chunk"
         /\ item'[w].features = Features(t.source, t.given + 1, ShareOf(t))
         /\ \A v \in Workers \ {w} : item'[v] = item[v]
         /\ pc' = [pc EXCEPT ![w] = "step"]
<1>1. item \in [Workers -> ItemType]
  BY DEF Typed, WorkersTyped
<1>2. item[w].kind = "none"
  BY DEF TakeChunk, Typed, WorkersTyped
<1>3. /\ item' = [item EXCEPT ![w] =
            [kind |-> "chunk", source |-> t.source, id |-> t.id,
             features |-> Features(t.source, t.given + 1, ShareOf(t))]]
      /\ pc' = [pc EXCEPT ![w] = "step"]
  BY TakenIs DEF ShareOf
<1> DEFINE i == [kind |-> "chunk", source |-> t.source, id |-> t.id,
                 features |-> Features(t.source, t.given + 1, ShareOf(t))]
<1>4. i.kind = "chunk" /\ i.features = Features(t.source, t.given + 1, ShareOf(t))
  OBVIOUS
<1>5. item' = [item EXCEPT ![w] = i]
  BY <1>3
<1> HIDE DEF i
<1>6. item'[w] = i /\ \A v \in Workers \ {w} : item'[v] = item[v]
  BY <1>1, <1>5
<1> QED
  BY <1>2, <1>3, <1>4, <1>6

\* The steps that leave what the workers hold alone.
IdleStep ==
    \/ \E w \in Workers :
        \/ NextStream(w) \/ CheckStop(w) \/ TakeNone(w) \/ Spawn(w)
        \/ \E t \in open : \/ OpenSource(w, t) \/ SourceEnds(w, t)
                           \/ TakeChunk(w, t) /\ open' = open \ {t}
    \/ CallStep
    \/ UNCHANGED vars

\* The other steps change no item and no partial, and nobody panics in them.
LEMMA IdleIs ==
  ASSUME Typed, Streams, IdleStep
  PROVE  /\ UNCHANGED <<item, partial>>
         /\ \A v \in Workers : pc'[v] = "panicked" <=> pc[v] = "panicked"
<1>0. pc \in [Workers -> {"new", "check", "take", "step", "done", "panicked"}]
  BY DEF Typed, WorkersTyped
<1>1. ASSUME NEW w \in Workers, CheckStop(w) \/ TakeNone(w) \/ Spawn(w)
      PROVE  /\ UNCHANGED <<item, partial>>
             /\ \A v \in Workers : pc'[v] = "panicked" <=> pc[v] = "panicked"
  BY <1>0, <1>1 DEF CheckStop, TakeNone, Spawn
<1>2. ASSUME NEW w \in Workers, NEW t \in open, TakeChunk(w, t), open' = open \ {t}
      PROVE  UNCHANGED <<item, partial, pc>>
  <2>1. UNCHANGED <<pc, item>>
    BY <1>2, DroppedIf
  <2>2. UNCHANGED partial
    BY <1>2 DEF TakeChunk
  <2> QED
    BY <2>1, <2>2
<1>3. ASSUME NEW w \in Workers, NEW t \in open, OpenSource(w, t) \/ SourceEnds(w, t)
      PROVE  UNCHANGED <<item, partial, pc>>
  BY <1>3 DEF OpenSource, SourceEnds, workerVars
<1>4. ASSUME (\E w \in Workers : NextStream(w)) \/ CallStep \/ UNCHANGED vars
      PROVE  UNCHANGED <<item, partial, pc>>
  BY <1>4 DEF NextStream, CallStep, SpawnFails, Leave, Join, vars, workerVars
<1> QED
  BY <1>1, <1>2, <1>3, <1>4 DEF IdleStep

\* Every step is one of these, seen from what the workers hold.
LEMMA HoldingsAre ==
  ASSUME [Next]_vars
  PROVE  \/ IdleStep
         \/ \E w \in Workers :
             \/ \E t \in open : \/ TakeChunk(w, t) /\ open' # open \ {t}
                                \/ SourceFails(w, t)
             \/ StepFails(w) \/ StepPanics(w) \/ Step(w)
BY StepsAre DEF SourceStep, OtherStep, IdleStep

\* Once a worker met an error or a panic, one did.
LEMMA HurtStays ==
  ASSUME Typed, Streams, Hurt, [Next]_vars
  PROVE  Hurt'
<1>0. /\ pc \in [Workers -> {"new", "check", "take", "step", "done", "panicked"}]
      /\ item \in [Workers -> ItemType]
  BY DEF Typed, WorkersTyped
<1>1. PICK v \in Workers :
          item[v].kind \in {"error", "panic"} \/ partial[v].error \/ pc[v] = "panicked"
  BY DEF Hurt
<1>2. CASE IdleStep
  BY <1>1, <1>2, IdleIs DEF Hurt
<1>3. ASSUME NEW w \in Workers, NEW t \in open, TakeChunk(w, t), open' # open \ {t}
      PROVE  Hurt'
  <2>1. item[w].kind = "none" /\ \A x \in Workers \ {w} : item'[x] = item[x]
    BY <1>3, HandsAre
  <2>2. partial' = partial /\ pc[w] = "take" /\ pc' = [pc EXCEPT ![w] = "step"]
    BY <1>3, HandsAre DEF TakeChunk
  <2> QED
    BY <1>0, <1>1, <2>1, <2>2 DEF Hurt
<1>4. ASSUME NEW w \in Workers, NEW t \in open, SourceFails(w, t)
      PROVE  Hurt'
  BY <1>4, LastIs DEF Hurt
<1>5. ASSUME NEW w \in Workers, StepFails(w)
      PROVE  Hurt'
  BY <1>5, FailsIs DEF Hurt
<1>6. ASSUME NEW w \in Workers, StepPanics(w)
      PROVE  Hurt'
  BY <1>0, <1>6 DEF Hurt, StepPanics
<1>7. ASSUME NEW w \in Workers, Step(w)
      PROVE  Hurt'
  <2>1. /\ item[w].kind = "chunk" /\ pc[w] = "step"
        /\ item' = [item EXCEPT ![w] = NoItem] /\ pc' = [pc EXCEPT ![w] = "check"]
    BY <1>7 DEF Step
  <2>2. \A x \in Workers : partial'[x].error = partial[x].error
    BY <1>7, StepIs
  <2> QED
    BY <1>0, <1>1, <2>1, <2>2 DEF Hurt
<1> QED
  BY <1>2, <1>3, <1>4, <1>5, <1>6, <1>7, HoldingsAre

\* The first bad feature of a chunk exists, if there is a bad one.
LEMMA FirstBadIs ==
  ASSUME Typed, NEW S, S \subseteq AllFeatures
  PROVE  /\ FirstBad(S) = {} => \A f \in S : KindOf(f) = "ok"
         /\ \A f \in FirstBad(S) : f \in S /\ KindOf(f) \in {"xml", "panic"}
<1>1. \A f \in S : f[3] \in Nat /\ KindOf(f) \in FeatureKinds
  <2> SUFFICES ASSUME NEW f \in S PROVE f[3] \in Nat /\ KindOf(f) \in FeatureKinds
    OBVIOUS
  <2>1. /\ f[1] \in 1 .. Len(inp) /\ f[2] \in 1 .. Len(inp[f[1]].chunks)
        /\ f[3] \in 1 .. Len(inp[f[1]].chunks[f[2]]) /\ f[3] \in Nat
    BY FeatureIs DEF Typed
  <2> QED
    BY <2>1, SourcesAre DEF Typed, KindOf
<1>2. ASSUME NEW g \in S, KindOf(g) # "ok" PROVE FirstBad(S) # {}
  <2> DEFINE B == {f \in S : KindOf(f) # "ok"}
             T == {f[3] : f \in B}
  <2>1. T \in SUBSET Nat /\ T # {}
    BY <1>1, <1>2
  <2>2. PICK m \in T : \A n \in T : m <= n
    <3> HIDE DEF T
    <3> QED
      BY <2>1, Least
  <2>3. PICK f \in B : m = f[3]
    BY <2>2
  <2>4. f \in FirstBad(S)
    BY <2>2, <2>3 DEF FirstBad
  <2> QED
    BY <2>4
<1> QED
  BY <1>1, <1>2 DEF FirstBad, FeatureKinds

\* What the causes of an outcome are: a source read to its end, or a wanted feature.
LEMMA CausesAre ==
  ASSUME NEW kind \in {"error", "panic"}
  PROVE  /\ \A s \in ReadToEnd : inp[s].last \in {"fail", "unlisted"} => "error" \in Causes
         /\ \A s \in ReadToEnd : inp[s].last = "panic" => "panic" \in Causes
         /\ \A f \in Wanted : KindOf(f) = "xml" => "error" \in Causes
         /\ \A f \in Wanted : KindOf(f) = "panic" => "panic" \in Causes
         /\ kind \in Causes =>
             \/ \E s \in ReadToEnd : /\ kind = "error" => inp[s].last \in {"fail", "unlisted"}
                                     /\ kind = "panic" => inp[s].last = "panic"
             \/ \E f \in Wanted : KindOf(f) = IF kind = "error" THEN "xml" ELSE "panic"
BY DEF Causes

\* Every step keeps this: what hurt a worker is a cause of the input's.
LEMMA CausesStayKnown ==
  ASSUME Typed, Streams, BudgetsKept, TakenOnce, CausesKnown, [Next]_vars
  PROVE  CausesKnown'
<1>0. /\ pc \in [Workers -> {"new", "check", "take", "step", "done", "panicked"}]
      /\ item \in [Workers -> ItemType] /\ Causes' = Causes
  BY InputKept, OfTheSameInput DEF Typed, WorkersTyped
<1>1. CASE IdleStep
  BY <1>0, <1>1, IdleIs DEF CausesKnown
<1>2. ASSUME NEW w \in Workers, NEW t \in open, TakeChunk(w, t), open' # open \ {t}
      PROVE  CausesKnown'
  <2>1. item'[w].kind = "chunk" /\ \A x \in Workers \ {w} : item'[x] = item[x]
    BY <1>2, HandsAre
  <2>2. partial' = partial /\ pc' = [pc EXCEPT ![w] = "step"]
    BY <1>2, HandsAre DEF TakeChunk
  <2> QED
    BY <1>0, <2>1, <2>2 DEF CausesKnown
<1>3. ASSUME NEW w \in Workers, NEW t \in open, SourceFails(w, t)
      PROVE  CausesKnown'
  <2>1. /\ \A v \in Workers \ {w} : item'[v] = item[v]
        /\ item'[w].kind \in {"error", "panic"}
        /\ item'[w].kind = "error" => t.state = "Failed" \/ inp[t.source].last = "fail"
        /\ item'[w].kind = "panic" => inp[t.source].last = "panic"
        /\ pc' = [pc EXCEPT ![w] = "step"] /\ partial' = partial
    BY <1>3, LastIs DEF SourceFails
  <2>2. t.source \in ReadToEnd
    BY <1>3, FailsAtEnd
  <2>3. item'[w].kind \in Causes
    BY <2>1, <2>2, CausesAre DEF Streams
  <2> QED
    BY <1>0, <2>1, <2>3 DEF CausesKnown
<1>4. ASSUME NEW w \in Workers, StepFails(w) \/ StepPanics(w)
      PROVE  CausesKnown'
  <2>1. item' = [item EXCEPT ![w] = NoItem]
    BY <1>4 DEF StepFails, StepPanics
  <2>2. item[w].features \subseteq AllFeatures /\ item[w].features \subseteq Wanted
    BY <1>0 DEF ItemType, TakenOnce, Taken
  <2>3. \A f \in FirstBad(item[w].features) : f \in Wanted /\ KindOf(f) \in {"xml", "panic"}
    BY <2>2, FirstBadIs
  <2>4. StepFails(w) => "error" \in Causes
    <3>1. StepFails(w) => item[w].kind = "error" \/ \E f \in Wanted : KindOf(f) = "xml"
      <4>1. item[w].kind # "xml"
        BY <1>0 DEF ItemType
      <4> QED
        BY <2>3, <4>1 DEF StepFails, Finds
    <3> QED
      BY <3>1, CausesAre DEF CausesKnown
  <2>5. StepPanics(w) => "panic" \in Causes
    <3>1. StepPanics(w) => item[w].kind = "panic" \/ \E f \in Wanted : KindOf(f) = "panic"
      BY <2>3 DEF StepPanics, Finds
    <3> QED
      BY <3>1, CausesAre DEF CausesKnown
  <2>6. CASE StepFails(w)
    <3>1. /\ \A v \in Workers \ {w} : partial'[v] = partial[v]
          /\ pc' = [pc EXCEPT ![w] = "done"]
      BY <2>6, FailsIs
    <3> QED
      BY <1>0, <2>1, <2>4, <2>6, <3>1, NoItemIs DEF CausesKnown
  <2>7. CASE StepPanics(w)
    <3>1. partial' = partial /\ pc' = [pc EXCEPT ![w] = "panicked"]
      BY <2>7 DEF StepPanics
    <3> QED
      BY <1>0, <2>1, <2>5, <2>7, <3>1, NoItemIs DEF CausesKnown
  <2> QED
    BY <1>4, <2>6, <2>7
<1>5. ASSUME NEW w \in Workers, Step(w)
      PROVE  CausesKnown'
  <2>1. /\ item' = [item EXCEPT ![w] = NoItem] /\ pc' = [pc EXCEPT ![w] = "check"]
        /\ \A x \in Workers : partial'[x].error = partial[x].error
    BY <1>5, StepIs
  <2> QED
    BY <1>0, <2>1, NoItemIs DEF CausesKnown
<1> QED
  BY <1>1, <1>2, <1>3, <1>4, <1>5, HoldingsAre

\* Sources that are exhausted stay so.
LEMMA ExhaustedStays ==
  ASSUME Exhausted, [Next]_vars
  PROVE  Exhausted'
<1>1. inp' = inp
  BY InputKept DEF SameInput
<1>2. ASSUME NEW w \in Workers PROVE ~SourceStep(w)
  BY DEF SourceStep, NextStream, Exhausted
<1>3. UNCHANGED sourceVars
  BY <1>2, StepsAre, OthersKeepSources
<1> QED
  BY <1>1, <1>3 DEF Exhausted, sourceVars

\* The workers leave the caller alone, and taking leaves the flag alone.
LEMMA WorkersKeepCaller ==
  ASSUME NEW w \in Workers, SourceStep(w) \/ OtherStep(w)
  PROVE  caller' = caller /\ (SourceStep(w) => stop' = stop)
<1>1. ASSUME SourceStep(w) PROVE caller' = caller /\ stop' = stop
  <2>1. ASSUME NEW t \in open, OpenSource(w, t) \/ TakeChunk(w, t) \/ SourceEnds(w, t) \/ SourceFails(w, t)
        PROVE  caller' = caller /\ stop' = stop
    BY <2>1 DEF OpenSource, TakeChunk, SourceEnds, SourceFails, workerVars
  <2>2. NextStream(w) => caller' = caller /\ stop' = stop
    BY DEF NextStream, workerVars
  <2> QED
    BY <1>1, <2>1, <2>2 DEF SourceStep
<1>2. OtherStep(w) => caller' = caller
  BY DEF OtherStep, CheckStop, TakeNone, StepFails, StepPanics, Step, Spawn
<1> QED
  BY <1>1, <1>2

\* Every step keeps this: workers end, unhurt, only when the sources are exhausted.
LEMMA EndsStayWell ==
  ASSUME Typed, Streams, EndsWell, [Next]_vars
  PROVE  EndsWell'
<1>0. pc \in [Workers -> {"new", "check", "take", "step", "done", "panicked"}]
  BY DEF Typed, WorkersTyped
<1>1. inputEnded' => Hurt'
  <2>1. ASSUME NEW w \in Workers, NEW t \in open, SourceFails(w, t) PROVE Hurt'
    BY <2>1, LastIs DEF Hurt
  <2>2. ASSUME NEW w \in Workers, SourceStep(w), ~\E t \in open : SourceFails(w, t)
        PROVE  inputEnded' = inputEnded
    BY <2>2 DEF SourceStep, NextStream, OpenSource, TakeChunk, SourceEnds
  <2>3. CASE UNCHANGED sourceVars
    BY <2>3, HurtStays DEF EndsWell, sourceVars
  <2> QED
    BY <2>1, <2>2, <2>3, StepsAre, OthersKeepSources, HurtStays DEF EndsWell
<1>2. ASSUME NEW w \in Workers, StepFails(w) \/ StepPanics(w) PROVE Hurt'
  <2>1. StepFails(w) => Hurt'
    BY FailsIs DEF Hurt
  <2>2. StepPanics(w) => Hurt'
    BY <1>0 DEF Hurt, StepPanics
  <2> QED
    BY <1>2, <2>1, <2>2
<1>3. ASSUME caller' \notin {"leave", "spawn error"}
      PROVE  /\ stop' => Hurt'
             /\ Hurt' \/ Exhausted' \/ \A w \in Workers : pc'[w] # "done"
  <2>1. caller \notin {"leave", "spawn error"}
    <3>1. \A w \in Workers : SourceStep(w) \/ OtherStep(w) => caller' = caller
      BY WorkersKeepCaller
    <3>2. CallStep => caller = "spawn" \/ caller' = "spawn error"
      BY DEF CallStep, SpawnFails, Leave, Join
    <3>3. UNCHANGED vars => caller' = caller
      BY DEF vars
    <3> QED
      BY <1>3, <3>1, <3>2, <3>3, StepsAre
  <2>2. stop => Hurt
    BY <2>1 DEF EndsWell
  <2>3. CASE Hurt \/ Exhausted
    <3>1. Hurt' \/ Exhausted'
      BY <2>3, HurtStays, ExhaustedStays
    <3>2. stop' => stop \/ Hurt'
      <4>1. \A w \in Workers : SourceStep(w) => stop' = stop
        BY WorkersKeepCaller
      <4>2. \A w \in Workers : OtherStep(w) => stop' = stop \/ StepFails(w) \/ StepPanics(w)
        BY DEF OtherStep, CheckStop, TakeNone, Step, Spawn
      <4>3. CallStep => stop' = stop \/ caller' = "leave"
        BY DEF CallStep, SpawnFails, Leave, Join, workerVars
      <4>4. UNCHANGED vars => stop' = stop
        BY DEF vars, workerVars
      <4> QED
        BY <1>2, <1>3, <4>1, <4>2, <4>3, <4>4, StepsAre
    <3> QED
      BY <2>2, <3>1, <3>2, HurtStays
  <2>4. CASE ~Hurt /\ ~Exhausted
    <3>1. /\ ~stop /\ ~inputEnded /\ \A w \in Workers : pc[w] # "done"
      BY <2>1, <2>2, <2>4 DEF EndsWell
    <3>2. ASSUME NEW w \in Workers, SourceStep(w)
          PROVE  stop' = stop /\ \A v \in Workers : pc'[v] # "done"
      <4>1. ASSUME NEW t \in open, OpenSource(w, t) \/ SourceEnds(w, t)
            PROVE  UNCHANGED <<stop, pc>>
        BY <4>1 DEF OpenSource, SourceEnds, workerVars
      <4>2. ASSUME NEW t \in open, TakeChunk(w, t)
            PROVE  stop' = stop /\ (pc' = pc \/ pc' = [pc EXCEPT ![w] = "step"])
        BY <4>2 DEF TakeChunk
      <4>3. ASSUME NEW t \in open, SourceFails(w, t)
            PROVE  stop' = stop /\ pc' = [pc EXCEPT ![w] = "step"]
        BY <4>3, LastIs DEF SourceFails
      <4>4. NextStream(w) => UNCHANGED <<stop, pc>>
        BY DEF NextStream, workerVars
      <4>5. stop' = stop /\ (pc' = pc \/ pc' = [pc EXCEPT ![w] = "step"])
        BY <3>2, <4>1, <4>2, <4>3, <4>4 DEF SourceStep
      <4> QED
        BY <1>0, <3>1, <4>5
    <3>3. ASSUME NEW w \in Workers, OtherStep(w)
          PROVE  Hurt' \/ (stop' = stop /\ \A v \in Workers : pc'[v] # "done")
      <4>1. ~TakeNone(w)
        BY <2>4, <3>1 DEF TakeNone, Exhausted
      <4>2. CheckStop(w) \/ Spawn(w) \/ Step(w) =>
                stop' = stop /\ \E p \in {"check", "take"} : pc' = [pc EXCEPT ![w] = p]
        BY <3>1 DEF CheckStop, Spawn, Step
      <4> QED
        BY <1>0, <1>2, <3>1, <3>3, <4>1, <4>2 DEF OtherStep
    <3>4. CallStep \/ UNCHANGED vars =>
              stop' = stop /\ \A v \in Workers : pc'[v] # "done"
      BY <1>3, <3>1 DEF CallStep, SpawnFails, Leave, Join, vars, workerVars
    <3> QED
      BY <3>1, <3>2, <3>3, <3>4, StepsAre
  <2> QED
    BY <2>3, <2>4
<1> QED
  BY <1>1, <1>3 DEF EndsWell

\* Every step keeps what was returned to the result of workers that have all ended.
LEMMA ReturnsStays ==
  ASSUME Typed, Returns, [Next]_vars
  PROVE  Returns'
<1>1. ASSUME UNCHANGED <<pc, partial, opened>> PROVE Result' = Result
  BY <1>1 DEF Result, Skipped
<1>2. CASE Join
  <2>1. UNCHANGED <<pc, partial, opened>> /\ caller' = Result
        /\ \A w \in Workers : pc[w] \in {"done", "panicked"}
    BY <1>2 DEF Join, sourceVars, workerVars
  <2> QED
    BY <1>1, <2>1 DEF Returns
<1>3. CASE UNCHANGED vars
  <2>1. UNCHANGED <<pc, partial, opened, caller>>
    BY <1>3 DEF vars, sourceVars, workerVars
  <2> QED
    BY <1>1, <2>1 DEF Returns
<1>4. CASE SpawnFails \/ Leave
  BY <1>4 DEF SpawnFails, Leave, Returns, Returned
<1>5. ASSUME NEW w \in Workers, SourceStep(w) \/ OtherStep(w) PROVE Returns'
  <2>1. caller' = caller
    BY <1>5, WorkersKeepCaller
  <2>2. pc[w] \in {"check", "take", "step"} \/ caller = "spawn"
    BY <1>5 DEF SourceStep, OtherStep, NextStream, OpenSource, TakeChunk, SourceEnds, SourceFails,
                CheckStop, TakeNone, StepFails, StepPanics, Step, Spawn
  <2>3. caller \notin Returned \ {"spawn error"}
    BY <2>2 DEF Returns, Returned
  <2> QED
    BY <2>1, <2>3 DEF Returns
<1> QED
  BY <1>2, <1>3, <1>4, <1>5, StepsAre DEF CallStep

-----------------------------------------------------------------------------
\* What is taken.

\* Taken, the hands and the partial observations of the next state.
LEMMA TakenThenIs ==
  /\ \A f : f \in Taken <=> \E w \in Workers : f \in partial[w].features \/ f \in item[w].features
  /\ \A f : f \in Taken' <=> \E w \in Workers : f \in partial'[w].features \/ f \in item'[w].features
BY DEF Taken

\* Every step keeps this: the wanted features that were split are each with one worker.
LEMMA TakenStaysOnce ==
  ASSUME Typed, Streams, BudgetsKept, TakenOnce, Counted, [Next]_vars
  PROVE  TakenOnce'
<1>0. SameInput /\ Wanted' = Wanted /\ AllFeatures' = AllFeatures
  BY InputKept, OfTheSameInput
<1>1. Hurt => Hurt'
  BY HurtStays
<1>2. ASSUME Taken' = Taken, SplitSet \subseteq SplitSet', Wanted \cap SplitSet' \subseteq SplitSet
      PROVE  /\ Taken' \subseteq Wanted' \cap SplitSet'
             /\ Hurt' \/ Wanted' \cap SplitSet' \subseteq Taken'
  BY <1>0, <1>1, <1>2 DEF TakenOnce
<1>3. ASSUME UNCHANGED <<next, open>> PROVE SplitSet' = SplitSet
  BY <1>0, <1>3 DEF SplitSet
<1>4. CASE IdleStep
  <2>1. UNCHANGED <<item, partial>>
    BY <1>4, IdleIs
  <2>2. Taken' = Taken /\ Apart'
    BY <2>1 DEF Taken, Apart, TakenOnce
  <2>3. SplitSet \subseteq SplitSet' /\ Wanted \cap SplitSet' \subseteq SplitSet
    <3>1. CASE \E w \in Workers :
                \/ NextStream(w)
                \/ \E t \in open : \/ OpenSource(w, t) \/ SourceEnds(w, t)
                                   \/ TakeChunk(w, t) /\ open' = open \ {t}
      BY <3>1, OnlyTakenIsWanted
    <3>2. CASE \/ \E w \in Workers : CheckStop(w) \/ TakeNone(w) \/ Spawn(w)
               \/ CallStep \/ UNCHANGED vars
      <4>1. UNCHANGED sourceVars
        BY <3>2, OthersKeepSources DEF OtherStep
      <4> QED
        BY <1>3, <4>1 DEF sourceVars
    <3> QED
      BY <1>4, <3>1, <3>2 DEF IdleStep
  <2> QED
    BY <1>2, <2>2, <2>3 DEF TakenOnce
<1>5. ASSUME NEW w \in Workers, NEW t \in open, TakeChunk(w, t), open' # open \ {t}
      PROVE  TakenOnce'
  <2>0. PICK F : F = Features(t.source, t.given + 1, ShareOf(t))
    OBVIOUS
  <2>1. /\ F \subseteq SplitSet' /\ F \cap SplitSet = {} /\ F \subseteq Wanted
        /\ SplitSet \subseteq SplitSet'
        /\ Wanted \cap SplitSet' \subseteq SplitSet \cup F
    BY <1>5, <2>0, ShareIsWanted
  <2>2. /\ item[w].features = {} /\ item'[w].features = F
        /\ \A v \in Workers \ {w} : item'[v] = item[v]
        /\ partial' = partial
    BY <1>5, <2>0, HandsAre DEF Counted, TakeChunk
  <2>3. Taken' = Taken \cup F
    <3>1. ASSUME NEW f PROVE f \in Taken' <=> f \in Taken \/ f \in F
      BY <2>2, TakenThenIs
    <3> QED
      BY <3>1
  <2>4. F \cap Taken = {}
    BY <2>1 DEF TakenOnce
  <2>5. \A v \in Workers : F \cap partial[v].features = {} /\ F \cap item[v].features = {}
    BY <2>4 DEF Taken
  <2>6. Apart'
    <3>1. \A v, x \in Workers : v # x =>
            /\ partial'[v].features \cap partial'[x].features = {}
            /\ item'[v].features \cap item'[x].features = {}
      BY <2>2, <2>5 DEF TakenOnce, Apart
    <3>2. \A v, x \in Workers : partial'[v].features \cap item'[x].features = {}
      BY <2>2, <2>5 DEF TakenOnce, Apart
    <3> QED
      BY <3>1, <3>2 DEF Apart
  <2>7. Taken' \subseteq Wanted' \cap SplitSet'
    BY <1>0, <2>1, <2>3 DEF TakenOnce
  <2>8. Hurt' \/ Wanted' \cap SplitSet' \subseteq Taken'
    BY <1>0, <1>1, <2>1, <2>3 DEF TakenOnce
  <2> QED
    BY <2>6, <2>7, <2>8 DEF TakenOnce
<1>6. ASSUME NEW w \in Workers, NEW t \in open, SourceFails(w, t)
      PROVE  TakenOnce'
  <2>1. /\ \A v \in Workers \ {w} : item'[v] = item[v]
        /\ item'[w].features = {} /\ item[w].features = {}
        /\ partial' = partial
    <3>1. item[w].kind = "none"
      BY <1>6 DEF SourceFails, Typed, WorkersTyped
    <3> QED
      BY <1>6, <3>1, LastIs DEF SourceFails, Counted
  <2>2. \A v \in Workers : item'[v].features = item[v].features
    BY <2>1
  <2>3. Taken' = Taken /\ Apart'
    <3>1. \A f : f \in Taken' <=> f \in Taken
      BY <2>1, <2>2, TakenThenIs
    <3>2. Apart'
      BY <2>1, <2>2 DEF TakenOnce, Apart
    <3> QED
      BY <3>1, <3>2
  <2>4. SplitSet \subseteq SplitSet' /\ Wanted \cap SplitSet' \subseteq SplitSet
    BY <1>6, OnlyTakenIsWanted
  <2> QED
    BY <1>2, <2>3, <2>4 DEF TakenOnce
<1>7. ASSUME NEW w \in Workers, StepFails(w) \/ StepPanics(w)
      PROVE  TakenOnce'
  <2>1. /\ \A v \in Workers : partial'[v].features = partial[v].features
        /\ \A v \in Workers \ {w} : item'[v] = item[v]
        /\ item'[w].features = {}
    <3>1. item' = [item EXCEPT ![w] = NoItem] /\ item \in [Workers -> ItemType]
      BY <1>7 DEF StepFails, StepPanics, Typed, WorkersTyped
    <3>2. \A v \in Workers : partial'[v].features = partial[v].features
      BY <1>7, FailsIs DEF StepPanics
    <3> QED
      BY <3>1, <3>2, NoItemIs
  <2>2. Hurt'
    <3>1. StepFails(w) => Hurt'
      BY FailsIs DEF Hurt
    <3>2. StepPanics(w) => Hurt'
      BY DEF Hurt, StepPanics, Typed, WorkersTyped
    <3> QED
      BY <1>7, <3>1, <3>2
  <2>3. UNCHANGED <<next, open>>
    BY <1>7 DEF StepFails, StepPanics, sourceVars
  <2>4. Taken' \subseteq Taken
    BY <2>1, TakenThenIs
  <2>5. Apart'
    BY <2>1 DEF TakenOnce, Apart
  <2> QED
    BY <1>0, <1>3, <2>2, <2>3, <2>4, <2>5 DEF TakenOnce
<1>8. ASSUME NEW w \in Workers, Step(w)
      PROVE  TakenOnce'
  <2>1. /\ \A v \in Workers \ {w} : partial'[v] = partial[v]
        /\ partial'[w].features = partial[w].features \cup item[w].features
        /\ \A v \in Workers \ {w} : item'[v] = item[v]
        /\ item'[w].features = {}
    <3>1. item' = [item EXCEPT ![w] = NoItem] /\ item \in [Workers -> ItemType]
      BY <1>8 DEF Step, Typed, WorkersTyped
    <3> QED
      BY <1>8, <3>1, StepIs, NoItemIs
  <2>2. Taken' = Taken
    <3>1. \A f : f \in Taken' <=> f \in Taken
      BY <2>1, TakenThenIs
    <3> QED
      BY <3>1
  <2>3. UNCHANGED <<next, open>>
    BY <1>8 DEF Step, sourceVars
  <2>4. Apart'
    <3>1. \A v, x \in Workers : v # x =>
            /\ partial'[v].features \cap partial'[x].features = {}
            /\ item'[v].features \cap item'[x].features = {}
      BY <2>1 DEF TakenOnce, Apart
    <3>2. \A v, x \in Workers : partial'[v].features \cap item'[x].features = {}
      BY <2>1 DEF TakenOnce, Apart
    <3> QED
      BY <3>1, <3>2 DEF Apart
  <2> QED
    BY <1>2, <1>3, <2>2, <2>3, <2>4 DEF TakenOnce
<1> QED
  BY <1>4, <1>5, <1>6, <1>7, <1>8, HoldingsAre

\* Every step keeps a partial's count to its features.
LEMMA CountsStay ==
  ASSUME Typed, Streams, TakenOnce, Counted, [Next]_vars
  PROVE  Counted'
<1>0. \A f : KindOf(f)' = KindOf(f)
  BY InputKept, OfTheSameInput
<1>1. item \in [Workers -> ItemType] /\ partial \in [Workers -> PartialType]
  BY DEF Typed, WorkersTyped
<1>2. CASE IdleStep
  BY <1>0, <1>2, IdleIs DEF Counted
<1>3. ASSUME NEW w \in Workers, NEW t \in open, TakeChunk(w, t), open' # open \ {t}
      PROVE  Counted'
  <2>1. item'[w].kind = "chunk" /\ \A v \in Workers \ {w} : item'[v] = item[v]
    BY <1>3, HandsAre
  <2>2. partial' = partial
    BY <1>3 DEF TakeChunk
  <2> QED
    BY <1>0, <2>1, <2>2 DEF Counted
<1>4. ASSUME NEW w \in Workers, NEW t \in open, SourceFails(w, t)
      PROVE  Counted'
  <2>1. partial' = partial
    BY <1>4 DEF SourceFails
  <2>2. item'[w].kind \in {"error", "panic"} /\ \A v \in Workers \ {w} : item'[v] = item[v]
    BY <1>4, LastIs
  <2> QED
    BY <1>0, <2>1, <2>2 DEF Counted
<1>5. ASSUME NEW w \in Workers, StepFails(w) \/ StepPanics(w)
      PROVE  Counted'
  <2>1. item' = [item EXCEPT ![w] = NoItem]
    BY <1>5 DEF StepFails, StepPanics
  <2>2. \A v \in Workers : partial'[v].features = partial[v].features /\ partial'[v].count = partial[v].count
    BY <1>5, FailsIs DEF StepPanics
  <2> QED
    BY <1>0, <1>1, <2>1, <2>2, NoItemIs DEF Counted
<1>6. ASSUME NEW w \in Workers, Step(w)
      PROVE  Counted'
  <2>1. /\ \A v \in Workers \ {w} : partial'[v] = partial[v]
        /\ partial'[w].features = partial[w].features \cup item[w].features
        /\ partial'[w].count = partial[w].count + Cardinality(item[w].features)
        /\ item' = [item EXCEPT ![w] = NoItem]
    BY <1>6, StepIs
  <2>2. item[w].features \subseteq AllFeatures /\ partial[w].features \subseteq AllFeatures
    BY <1>1 DEF ItemType, PartialType
  <2>3. \A f \in item[w].features : KindOf(f) = "ok"
    BY <1>6, <2>2, FirstBadIs DEF Step
  <2>4. Cardinality(partial[w].features \cup item[w].features) = partial[w].count + Cardinality(item[w].features)
    <3>1. IsFiniteSet(item[w].features) /\ IsFiniteSet(partial[w].features)
      <4>1. IsFiniteSet(AllFeatures)
        BY FiniteInput DEF Typed
      <4> QED
        BY <2>2, <4>1, SizeOfSubset
    <3>2. \A A, B : IsFiniteSet(A) /\ IsFiniteSet(B) =>
              Cardinality(A \cup B) = Cardinality(A) + Cardinality(B) - Cardinality(A \cap B)
      BY FS_Union
    <3>3. partial[w].features \cap item[w].features = {}
      BY DEF TakenOnce, Apart
    <3>4. Cardinality(partial[w].features \cup item[w].features)
            = Cardinality(partial[w].features) + Cardinality(item[w].features) - Cardinality({})
      BY <3>1, <3>2, <3>3
    <3>5. Cardinality({}) = 0 /\ Cardinality(item[w].features) \in Nat
          /\ Cardinality(partial[w].features) \in Nat
      BY <3>1, FS_EmptySet, FS_CardinalityType
    <3>6. partial[w].count = Cardinality(partial[w].features)
      BY DEF Counted
    <3> QED
      BY <3>4, <3>5, <3>6
  <2>5. partial'[w].count = Cardinality(partial'[w].features)
    BY <2>1, <2>4
  <2>6. \A f \in partial'[w].features : KindOf(f) = "ok"
    BY <2>1, <2>3 DEF Counted
  <2>7. \A v \in Workers : item'[v].kind = "none" => item'[v].features = {}
    BY <1>1, <2>1, NoItemIs DEF Counted
  <2> QED
    BY <1>0, <2>1, <2>5, <2>6, <2>7 DEF Counted
<1> QED
  BY <1>2, <1>3, <1>4, <1>5, <1>6, HoldingsAre

-----------------------------------------------------------------------------
\* The invariant holds.

\* The types hold before anything is taken.
LEMMA BeginsTyped ==
  ASSUME Init
  PROVE  Typed
<1>1. inp \in Inputs /\ extent \in Extents
  BY DEF Init
<1>2. Len(inp) \in Nat /\ extent.max \in Nat /\ MaxOpen \in Nat
  BY <1>1, SourcesAre, ExtentIs, MaxOpenIs
<1>3. SourcesTyped
  <2>1. next \in 0 .. Len(inp) /\ opened \in Seq(OpenedType)
    BY <1>2, EmptySeq DEF Init
  <2>2. IsFiniteSet(open) /\ Cardinality(open) <= MaxOpen
    <3>1. IsFiniteSet({}) /\ Cardinality({}) = 0
      BY FS_EmptySet
    <3> QED
      BY <1>2, <3>1 DEF Init
  <2>3. left \in [0 .. Len(inp) -> 0 .. extent.max]
    BY <1>2 DEF Init
  <2>4. usedUp \in [0 .. Len(inp) -> BOOLEAN]
    BY DEF Init
  <2> QED
    BY <2>1, <2>2, <2>3, <2>4 DEF Init, SourcesTyped
<1>4. WorkersTyped
  <2>1. item \in [Workers -> ItemType] /\ \A w \in Workers : item[w].kind = "none"
    BY NoItemIs DEF Init
  <2>2. partial \in [Workers -> PartialType]
    <3> DEFINE p == [features |-> {}, count |-> 0, ids |-> {}, error |-> FALSE]
    <3>1. {} \in SUBSET AllFeatures /\ {} \in SUBSET (Nat \X Nat)
      OBVIOUS
    <3>2. p \in PartialType
      BY <3>1 DEF PartialType
    <3>3. partial = [w \in Workers |-> p]
      BY DEF Init
    <3> HIDE DEF p
    <3> QED
      BY <3>2, <3>3
  <2> QED
    BY <2>1, <2>2 DEF Init, WorkersTyped
<1> QED
  BY <1>1, <1>3, <1>4 DEF Typed

\* The invariant holds before anything is taken.
LEMMA InitInv ==
  ASSUME Init
  PROVE  Inv
<1>1. Typed
  BY BeginsTyped
<1>2. next = 0 /\ open = {} /\ 1 .. next = {}
  BY DEF Init
<1>3. SplitSet = {}
  <2>1. \A f \in AllFeatures : ~(f[1] <= next)
    <3>1. \A f \in AllFeatures : f[1] \in 1 .. Len(inp)
      BY <1>1, FeatureIs DEF Typed
    <3>2. Len(inp) \in Nat
      BY <1>1, SourcesAre DEF Typed
    <3> QED
      BY <1>2, <3>1, <3>2
  <2> QED
    BY <2>1 DEF SplitSet
<1>4. Streams
  BY <1>2 DEF Streams
<1>5. BudgetsKept
  <2>1. \A b \in 0 .. Len(inp) : ~usedUp[b] /\ left[b] = extent.max
    BY DEF Init
  <2>2. \A b : Cardinality(SplitOf(b)) = 0
    BY <1>3, FS_EmptySet DEF SplitOf
  <2>3. extent.max \in Nat
    BY <1>1, ExtentIs DEF Typed
  <2>4. \A b \in Budgets : b \in 0 .. Len(inp)
    BY DEF Budgets
  <2>5. ~sampled
    BY DEF Init
  <2> QED
    BY <1>2, <2>1, <2>2, <2>3, <2>4, <2>5 DEF BudgetsKept
<1>6. ClosedWell
  BY <1>2 DEF ClosedWell
<1>7. \A w \in Workers :
        /\ partial[w].features = {} /\ partial[w].count = 0 /\ partial[w].ids = {}
        /\ ~partial[w].error /\ pc[w] = "new"
        /\ item[w].kind = "none" /\ item[w].features = {}
  BY NoItemIs DEF Init
<1>8. Listing
  <2>1. Len(opened) = 0
    BY EmptySeq DEF Init
  <2> QED
    BY <1>2, <1>7, <2>1 DEF Listing, ListedSources, IdsKnown
<1>9. TakenOnce /\ Counted
  <2>1. Taken = {}
    BY <1>7 DEF Taken
  <2>2. Apart
    BY <1>7 DEF Apart
  <2>3. Counted
    BY <1>7, FS_EmptySet DEF Counted
  <2> QED
    BY <1>3, <2>1, <2>2, <2>3 DEF TakenOnce
<1>10. CausesKnown
  BY <1>7 DEF CausesKnown
<1>11. EndsWell /\ Returns
  BY <1>7 DEF Init, EndsWell, Returns, Returned
<1> QED
  BY <1>1, <1>4, <1>5, <1>6, <1>8, <1>9, <1>10, <1>11 DEF Inv

\* A scan's streams, budgets, entries, workers and causes stay in step with what was split
\* (Scanner::run and SourceScan; module Scan).
THEOREM ScanInvariant == Spec => []Inv
<1>1. Init => Inv
  BY InitInv
<1>2. Inv /\ [Next]_vars => Inv'
  <2> SUFFICES ASSUME Inv, [Next]_vars
               PROVE  Inv'
    OBVIOUS
  <2> USE DEF Inv
  <2>1. Typed'
    BY StaysTyped
  <2>2. Streams' /\ BudgetsKept'
    BY StreamsKept, BudgetsStay
  <2>3. ClosedWell' /\ Listing'
    BY ClosedStaysWell, ListingStays
  <2>4. TakenOnce' /\ Counted'
    BY TakenStaysOnce, CountsStay
  <2>5. CausesKnown' /\ EndsWell' /\ Returns'
    BY CausesStayKnown, EndsStayWell, ReturnsStays
  <2> QED
    BY <2>1, <2>2, <2>3, <2>4, <2>5
<1> QED
  BY <1>1, <1>2, PTL DEF Spec

\* The type invariant: what run, fold and SourceScan keep stays of its type (module Scan).
THEOREM ScanTypes == Spec => []TypeOK
<1>1. Inv => TypeOK
  BY TypesKeptApart DEF Inv
<1> QED
  BY <1>1, ScanInvariant, PTL

-----------------------------------------------------------------------------
\* The sum of the workers' counts.

FeaturesOf(S) == UNION {partial[w].features : w \in S}
Sums == [s \in SUBSET Workers |-> Cardinality(FeaturesOf(s))]
AnyOf(s) == CHOOSE x \in s : TRUE
IsSum(h) ==
    h = [s \in SUBSET Workers |-> IF s = {} THEN 0
                                  ELSE partial[AnyOf(s)].count + h[s \ {AnyOf(s)}]]

\* The sums of the counts, over the sets of workers, are sums.
LEMMA SumsAreSums ==
  ASSUME Typed, TakenOnce, Counted
  PROVE  IsSum(Sums)
<1>1. FeaturesOf({}) = {} /\ Cardinality({}) = 0
  BY FS_EmptySet DEF FeaturesOf
<1>2. ASSUME NEW s \in SUBSET Workers, s # {}
      PROVE  Cardinality(FeaturesOf(s)) =
                partial[AnyOf(s)].count + Cardinality(FeaturesOf(s \ {AnyOf(s)}))
  <2>1. PICK x \in s : x = AnyOf(s)
    BY <1>2 DEF AnyOf
  <2> DEFINE A == partial[x].features
             B == FeaturesOf(s \ {x})
  <2>2. FeaturesOf(s) = A \cup B
    BY DEF FeaturesOf
  <2>3. A \cap B = {}
    BY DEF FeaturesOf, TakenOnce, Apart
  <2>4. A \subseteq AllFeatures /\ B \subseteq AllFeatures
    BY DEF Typed, WorkersTyped, PartialType, FeaturesOf
  <2>5. partial[x].count = Cardinality(A)
    BY DEF Counted
  <2> HIDE DEF A, B
  <2>6. IsFiniteSet(A) /\ IsFiniteSet(B) /\ Cardinality(A) \in Nat /\ Cardinality(B) \in Nat
    BY <2>4, FiniteInput, SizeOfSubset DEF Typed
  <2>7. Cardinality(A \cup B) = Cardinality(A) + Cardinality(B) - Cardinality({})
    <3>1. Cardinality(A \cup B) = Cardinality(A) + Cardinality(B) - Cardinality(A \cap B)
      BY <2>6, FS_Union
    <3> QED
      BY <2>3, <3>1
  <2>8. Cardinality(A \cup B) = Cardinality(A) + Cardinality(B)
    <3>1. Cardinality({}) = 0
      BY FS_EmptySet
    <3> QED
      BY <2>6, <2>7, <3>1
  <2> QED
    BY <2>1, <2>2, <2>5, <2>8 DEF B
<1>3. \A s \in SUBSET Workers : s \ {AnyOf(s)} \in SUBSET Workers
  OBVIOUS
<1>4. \A s \in SUBSET Workers : s # {} => Sums[s \ {AnyOf(s)}] = Cardinality(FeaturesOf(s \ {AnyOf(s)}))
  BY <1>3 DEF Sums
<1>5. \A s \in SUBSET Workers : Cardinality(FeaturesOf(s)) =
          IF s = {} THEN 0 ELSE partial[AnyOf(s)].count + Sums[s \ {AnyOf(s)}]
  BY <1>1, <1>2, <1>4
<1> QED
  BY <1>5 DEF IsSum, Sums

\* Two sums over the workers are the same number.
LEMMA OnlyOneSum ==
  ASSUME NEW g, NEW h, IsSum(g), IsSum(h)
  PROVE  g[Workers] = h[Workers]
<1> DEFINE Good == {n \in Nat : \A s \in SUBSET Workers : Cardinality(s) = n => g[s] = h[s]}
<1>1. IsFiniteSet(Workers)
  BY ScanAssumption
<1>2. \A s \in SUBSET Workers : IsFiniteSet(s) /\ Cardinality(s) \in Nat
  BY <1>1, SizeOfSubset
<1>3. \A s \in SUBSET Workers :
        /\ g[s] = IF s = {} THEN 0 ELSE partial[AnyOf(s)].count + g[s \ {AnyOf(s)}]
        /\ h[s] = IF s = {} THEN 0 ELSE partial[AnyOf(s)].count + h[s \ {AnyOf(s)}]
  BY DEF IsSum
<1>4. 0 \in Good
  <2>1. \A s \in SUBSET Workers : Cardinality(s) = 0 => s = {}
    BY <1>2, FS_EmptySet
  <2> QED
    BY <1>3, <2>1
<1>5. ASSUME NEW n \in Good PROVE n + 1 \in Good
  <2>1. ASSUME NEW s \in SUBSET Workers, Cardinality(s) = n + 1 PROVE g[s] = h[s]
    <3>1. s # {}
      <4>1. Cardinality({}) = 0 /\ n + 1 # 0
        BY FS_EmptySet
      <4> QED
        BY <2>1, <4>1
    <3>2. PICK x \in s : x = AnyOf(s)
      BY <3>1 DEF AnyOf
    <3>3. Cardinality(s \ {x}) = n
      BY <1>2, <2>1, FS_RemoveElement
    <3>4. s \ {x} \in SUBSET Workers
      OBVIOUS
    <3>5. g[s \ {x}] = h[s \ {x}]
      BY <3>3, <3>4
    <3> QED
      BY <1>3, <3>1, <3>2, <3>5
  <2> QED
    BY <2>1
<1>6. Good = Nat
  <2>1. Good \in SUBSET Nat
    OBVIOUS
  <2> HIDE DEF Good
  <2> QED
    BY <1>4, <1>5, <2>1, Induction
<1> HIDE DEF Good
<1>7. Cardinality(Workers) \in Good
  BY <1>2, <1>6
<1> QED
  BY <1>7 DEF Good

\* The counts of all the partials add up to the features in them.
LEMMA CountsAddUp ==
  ASSUME Typed, TakenOnce, Counted
  PROVE  MapThenSumSet(LAMBDA w : partial[w].count, Workers) = Cardinality(FeaturesOf(Workers))
<1>1. MapThenSumSet(LAMBDA w : partial[w].count, Workers)
        = MapThenFoldSet(+, 0, LAMBDA w : partial[w].count, LAMBDA s : CHOOSE x \in s : TRUE, Workers)
  BY Zenon DEF MapThenSumSet
<1>2. MapThenFoldSet(+, 0, LAMBDA w : partial[w].count, LAMBDA s : CHOOSE x \in s : TRUE, Workers)
        = (CHOOSE it : it = [s \in SUBSET Workers |->
              IF s = {} THEN 0
              ELSE partial[CHOOSE x \in s : TRUE].count + it[s \ {CHOOSE x \in s : TRUE}]])[Workers]
  BY DEF MapThenFoldSet
<1>3. (CHOOSE it : it = [s \in SUBSET Workers |->
          IF s = {} THEN 0
          ELSE partial[CHOOSE x \in s : TRUE].count + it[s \ {CHOOSE x \in s : TRUE}]])
        = CHOOSE it : IsSum(it)
  BY DEF IsSum, AnyOf
<1>4. IsSum(Sums) /\ IsSum(CHOOSE it : IsSum(it))
  BY SumsAreSums
<1>5. (CHOOSE it : IsSum(it))[Workers] = Sums[Workers]
  BY <1>4, OnlyOneSum
<1>6. Sums[Workers] = Cardinality(FeaturesOf(Workers))
  BY DEF Sums
<1> QED
  BY <1>1, <1>2, <1>3, <1>5, <1>6

-----------------------------------------------------------------------------
\* What the invariant says when the scan returns.

\* The numbers the arguments below compare are natural.
LEMMA NumbersAre ==
  ASSUME Typed
  PROVE  /\ Len(inp) \in Nat /\ DOMAIN inp = 1 .. Len(inp) /\ 0 \in 0 .. Len(inp)
         /\ next \in Nat /\ next <= Len(inp) /\ extent.max \in Nat
<1>1. Len(inp) \in Nat /\ DOMAIN inp = 1 .. Len(inp) /\ extent.max \in Nat
  BY SourcesAre, ExtentIs DEF Typed
<1>2. next \in 0 .. Len(inp)
  BY DEF Typed, SourcesTyped
<1> QED
  BY <1>1, <1>2

Ended == Inv /\ caller \in Returned \ {"spawn error"}

\* Once run returned, nothing is in a worker's hands, and what was taken is in the partials.
LEMMA EndedIs ==
  ASSUME Ended
  PROVE  /\ \A w \in Workers : pc[w] \in {"done", "panicked"} /\ item[w].kind = "none"
                               /\ item[w].features = {}
         /\ caller = Result
         /\ Taken = FeaturesOf(Workers)
         /\ Hurt <=> \E w \in Workers : partial[w].error \/ pc[w] = "panicked"
<1>1. /\ \A w \in Workers : pc[w] \in {"done", "panicked"}
      /\ caller = Result
  BY DEF Ended, Inv, Returns
<1>2. \A w \in Workers : item[w].kind = "none"
  BY <1>1 DEF Ended, Inv, Typed, WorkersTyped
<1>3. \A w \in Workers : item[w].features = {}
  BY <1>2 DEF Ended, Inv, Counted
<1>4. Taken = FeaturesOf(Workers)
  BY <1>3 DEF Taken, FeaturesOf
<1> QED
  BY <1>1, <1>2, <1>3, <1>4 DEF Hurt

\* A worker that was hurt met a cause of the input.
LEMMA HurtTells ==
  ASSUME Ended, Hurt
  PROVE  caller \in {"error", "panic"} /\ caller \in Causes
<1>1. PICK w \in Workers : partial[w].error \/ pc[w] = "panicked"
  BY EndedIs
<1>2. caller = Result
  BY EndedIs
<1>3. \A v \in Workers : /\ partial[v].error => "error" \in Causes
                         /\ pc[v] = "panicked" => "panic" \in Causes
  BY DEF Ended, Inv, CausesKnown
<1>4. CASE \E v \in Workers : pc[v] = "panicked"
  BY <1>2, <1>3, <1>4 DEF Result
<1>5. CASE ~\E v \in Workers : pc[v] = "panicked"
  BY <1>1, <1>2, <1>3, <1>5 DEF Result
<1> QED
  BY <1>4, <1>5

\* With none hurt, the sources were exhausted.
LEMMA ScannedAll ==
  ASSUME Ended, ~Hurt
  PROVE  /\ open = {} /\ ~inputEnded
         /\ 1 .. next = Listed /\ Wanted \subseteq SplitSet
         /\ FeaturesOf(Workers) = Wanted
<1>0. Typed /\ BudgetsKept /\ TakenOnce /\ EndsWell /\ Returns
  BY DEF Ended, Inv
<1>1. Exhausted /\ ~inputEnded
  <2>1. \A w \in Workers : pc[w] = "done"
    BY EndedIs
  <2>2. \E w \in Workers : TRUE
    BY ScanAssumption
  <2>3. caller \notin {"leave", "spawn error"}
    BY DEF Ended, Returned
  <2> QED
    BY <1>0, <2>1, <2>2, <2>3 DEF EndsWell
<1>2. open = {} /\ (next = Len(inp) \/ usedUp[0])
  BY <1>1 DEF Exhausted
<1>d. DOMAIN inp = 1 .. Len(inp) /\ 0 \in 0 .. Len(inp)
  BY <1>0, NumbersAre
<1>3. Len(inp) \in Nat /\ next \in Nat /\ next <= Len(inp) /\ extent.max \in Nat
  BY <1>0, NumbersAre
<1>4. ASSUME next # Len(inp)
      PROVE  /\ extent.kind = "Sample" /\ Sampled /\ SplitOf(0) = Upto(next)
             /\ Cardinality(Upto(next)) > extent.max
  <2>1. 0 \in Budgets
    BY <1>0, <1>2, <1>d, <1>4 DEF BudgetsKept
  <2>2. extent.kind = "Sample" /\ Sampled
    BY <2>1 DEF Budgets
  <2>3. SplitOf(0) = Upto(next)
    BY <1>0, <1>2, ScopeIs DEF SplitOf, SplitSet, Upto, Typed
  <2> QED
    BY <1>0, <1>2, <1>4, <2>1, <2>2, <2>3 DEF BudgetsKept
<1>5. 1 .. next = Listed
  <2>1. 1 .. next \subseteq Listed
    BY <1>0 DEF BudgetsKept
  <2>2. ASSUME NEW s \in Listed PROVE s \in 1 .. next
    <3>1. s \in 1 .. Len(inp)
      BY <1>d DEF Listed
    <3>2. CASE next = Len(inp)
      BY <3>1, <3>2
    <3>3. CASE next # Len(inp) /\ s > next
      <4>1. Upto(next) \subseteq Upto(s - 1)
        <5>1. \A f \in AllFeatures : f[1] \in Nat
          BY <1>0, FeatureIs DEF Typed
        <5>2. s \in Nat
          BY <1>3, <3>1
        <5>3. next <= s - 1
          BY <1>3, <3>3, <5>2
        <5>4. \A f \in AllFeatures : f[1] <= next => f[1] <= s - 1
          BY <1>3, <5>1, <5>2, <5>3
        <5> QED
          BY <5>4 DEF Upto
      <4>2. IsFiniteSet(Upto(s - 1))
        <5>1. Upto(s - 1) \subseteq AllFeatures
          BY DEF Upto
        <5> QED
          BY <5>1, FiniteInput, SizeOfSubset, <1>0 DEF Typed
      <4>3. /\ Cardinality(Upto(next)) <= Cardinality(Upto(s - 1))
            /\ Cardinality(Upto(next)) \in Nat /\ Cardinality(Upto(s - 1)) \in Nat
        BY <4>1, <4>2, SizeOfSubset
      <4>4. Cardinality(Upto(s - 1)) > extent.max
        BY <1>3, <1>4, <3>3, <4>3
      <4>5. Cardinality(Upto(s - 1)) <= extent.max
        BY <1>4, <3>3 DEF Listed
      <4> QED
        BY <1>3, <4>3, <4>4, <4>5
    <3> QED
      BY <1>3, <3>1, <3>2, <3>3
  <2> QED
    BY <2>1, <2>2
<1>6. Wanted \subseteq AllFeatures
  BY <1>0, WantedIs DEF Typed
<1>7. ASSUME NEW f \in Wanted PROVE f \in SplitSet
  <2>1. f \in AllFeatures /\ f[1] \in 1 .. Len(inp) /\ f[1] \in Nat
    BY <1>0, <1>6, FeatureIs DEF Typed
  <2>2. f[1] <= next
    <3>1. CASE next = Len(inp)
      BY <1>3, <2>1, <3>1
    <3>2. CASE next # Len(inp) /\ f[1] > next
      <4>1. \A g \in Upto(next) : Before(g, f)
        <5>1. \A g \in Upto(next) : g[1] \in Nat /\ g[1] <= next
          BY <1>0, FeatureIs DEF Typed, Upto
        <5> QED
          BY <1>3, <2>1, <3>2, <5>1 DEF Before
      <4>2. BudgetOf(f[1]) = 0 /\ Upto(next) \subseteq Scope(0)
        BY <1>4, <3>2 DEF BudgetOf, SplitOf
      <4>3. Cardinality(Upto(next)) < extent.max
        BY <1>4, <3>2, <4>1, <4>2, <1>0, NotWantedBehind DEF Typed
      <4>4. Cardinality(Upto(next)) \in Nat
        <5>1. Upto(next) \subseteq AllFeatures
          BY DEF Upto
        <5> QED
          BY <5>1, FiniteInput, SizeOfSubset, <1>0 DEF Typed
      <4> QED
        BY <1>3, <1>4, <3>2, <4>3, <4>4
    <3> QED
      BY <1>3, <2>1, <3>1, <3>2
  <2> QED
    BY <1>0, <1>2, <2>1, <2>2, SplitIs
<1>8. FeaturesOf(Workers) = Wanted
  <2>1. Taken \subseteq Wanted /\ Wanted \cap SplitSet \subseteq Taken
    BY <1>0 DEF TakenOnce
  <2> QED
    BY <1>7, <2>1, EndedIs
<1> QED
  BY <1>1, <1>2, <1>5, <1>7, <1>8

\* A scan no worker was hurt in had no cause to fail.
LEMMA NoCauses ==
  ASSUME Ended, ~Hurt
  PROVE  Causes = {}
<1>1. open = {} /\ ~inputEnded /\ 1 .. next = Listed /\ FeaturesOf(Workers) = Wanted
  BY ScannedAll
<1>2. next \in Nat
  BY NumbersAre DEF Ended, Inv
<1>3. \A s \in ReadToEnd : inp[s].last \in Fine
  <2>1. ReadToEnd \subseteq 1 .. next
    BY <1>1 DEF ReadToEnd
  <2>2. \A s \in 1 .. next : Closed(s)
    BY <1>1, <1>2 DEF Closed
  <2> QED
    BY <1>1, <2>1, <2>2 DEF Ended, Inv, ClosedWell
<1>4. \A f \in Wanted : KindOf(f) = "ok"
  BY <1>1 DEF Ended, Inv, Counted, FeaturesOf
<1> QED
  BY <1>3, <1>4 DEF Causes, Fine

\* The entries are those of the sources listed.
LEMMA EntriesAre ==
  ASSUME Ended, ~Hurt
  PROVE  /\ DOMAIN opened = Listed
         /\ \A s \in Listed : opened[s] = [name |-> s, status |-> FinalStatus(s)]
         /\ \A w \in Workers : \A p \in partial[w].ids : p[1] \in Listed /\ p[2] = p[1]
<1>1. open = {} /\ ~inputEnded /\ 1 .. next = Listed
  BY ScannedAll
<1>2. next \in Nat /\ opened \in Seq(OpenedType)
  BY NumbersAre DEF Ended, Inv, Typed, SourcesTyped
<1>3. \A s \in 1 .. next : Closed(s)
  BY <1>1, <1>2 DEF Closed
<1>4. AllListed
  BY <1>1, <1>3 DEF Ended, Inv, ClosedWell, AllListed
<1>5. ListedSources /\ IdsKnown
  BY <1>4 DEF Ended, Inv, Listing
<1>6. DOMAIN opened = 1 .. next
  BY <1>2, <1>5, LenProperties DEF ListedSources
<1>7. ASSUME NEW s \in 1 .. next
      PROVE  opened[s] = [name |-> s, status |-> FinalStatus(s)]
  <2>1. opened[s] \in OpenedType
    BY <1>2, <1>5, ElementOfSeq DEF ListedSources
  <2>2. opened[s].name = s /\ opened[s].status = FinalStatus(s)
    BY <1>1, <1>3, <1>5 DEF ListedSources
  <2> QED
    BY <2>1, <2>2 DEF OpenedType
<1>8. \A w \in Workers : \A p \in partial[w].ids : p[1] \in 1 .. next /\ p[2] = p[1]
  BY <1>5 DEF IdsKnown, Known
<1> QED
  BY <1>1, <1>6, <1>7, <1>8

\* The invariant gives each part of OutcomeOfTheInput.
LEMMA OutcomeIs ==
  ASSUME Inv
  PROVE  OutcomeOfTheInput
<1> SUFFICES ASSUME Ended PROVE caller \in Expected
  BY DEF OutcomeOfTheInput, Ended
<1>1. CASE Hurt
  BY <1>1, HurtTells DEF Expected
<1>2. CASE ~Hurt
  <2>1. Causes = {}
    BY <1>2, NoCauses
  <2>2. /\ DOMAIN opened = Listed
        /\ \A s \in Listed : opened[s].status = FinalStatus(s)
    BY <1>2, EntriesAre
  <2>3. \A w \in Workers : pc[w] # "panicked" /\ ~partial[w].error
    BY <1>2, EndedIs
  <2>4. caller = IF (\A n \in DOMAIN opened : opened[n].status # "Read") /\ Skipped # {}
                 THEN "no features" ELSE "ok"
    BY <2>3, EndedIs DEF Result
  <2>5. (\A n \in DOMAIN opened : opened[n].status # "Read") <=> \A s \in Listed : HasNothing(s)
    BY <2>2 DEF FinalStatus
  <2>6. (\A s \in Listed : HasNothing(s)) => (Skipped # {} <=> Listed # {})
    BY <2>2 DEF Skipped, FinalStatus
  <2> QED
    BY <2>1, <2>4, <2>5, <2>6 DEF Expected
<1> QED
  BY <1>1, <1>2

\* A scan that returned an observation hurt no worker.
LEMMA OkIsNotHurt ==
  ASSUME Inv, caller = "ok"
  PROVE  Ended /\ ~Hurt
<1>1. Ended
  BY DEF Ended, Returned
<1> QED
  BY <1>1, HurtTells

\* The invariant gives each part of ScansTheExtent.
LEMMA ExtentIsScanned ==
  ASSUME Inv
  PROVE  ScansTheExtent
<1> SUFFICES ASSUME caller = "ok"
             PROVE  /\ UNION {partial[w].features : w \in Workers} = Wanted
                    /\ MapThenSumSet(LAMBDA w : partial[w].count, Workers) = Cardinality(Wanted)
  BY Zenon DEF ScansTheExtent
<1>1. FeaturesOf(Workers) = Wanted
  BY OkIsNotHurt, ScannedAll
<1>2. UNION {partial[w].features : w \in Workers} = Wanted
  BY <1>1 DEF FeaturesOf
<1>3. MapThenSumSet(LAMBDA w : partial[w].count, Workers) = Cardinality(FeaturesOf(Workers))
  BY CountsAddUp DEF Inv
<1> QED
  BY <1>1, <1>2, <1>3

\* The invariant gives SampledIfLeftOut.
LEMMA SampledTells ==
  ASSUME Inv
  PROVE  SampledIfLeftOut
<1> SUFFICES ASSUME caller = "ok", ~sampled PROVE Wanted = AllFeatures
  BY DEF SampledIfLeftOut, Inv, BudgetsKept
<1> USE DEF Inv
<1>1. Wanted \subseteq AllFeatures
  BY WantedIs DEF Typed
<1>2. Exhausted
  <2>1. open = {} /\ \A w \in Workers : pc[w] = "done"
    BY OkIsNotHurt, ScannedAll, EndedIs
  <2>2. \E w \in Workers : TRUE
    BY ScanAssumption
  <2> QED
    BY <2>1, <2>2, OkIsNotHurt DEF EndsWell
<1>3. \A b \in 0 .. Len(inp) : ~usedUp[b]
  BY DEF BudgetsKept
<1>4. open = {} /\ next = Len(inp)
  <2>1. 0 \in 0 .. Len(inp)
    BY NumbersAre
  <2> QED
    BY <1>2, <1>3, <2>1 DEF Exhausted
<1>5. SplitSet = AllFeatures
  <2>1. \A f \in AllFeatures : f[1] \in 1 .. Len(inp)
    BY FeatureIs DEF Typed
  <2>2. Len(inp) \in Nat
    BY SourcesAre DEF Typed
  <2>3. \A f \in AllFeatures : f[1] <= next
    BY <1>4, <2>1, <2>2
  <2> QED
    BY <1>4, <2>3 DEF SplitSet
<1>6. ASSUME NEW f \in AllFeatures PROVE f \in Wanted
  <2>1. CASE ~Sampled
    BY <2>1, WantedIs DEF Typed
  <2>2. CASE Sampled
    <3>1. PICK b : b = BudgetOf(f[1])
      OBVIOUS
    <3>2. b \in Budgets /\ b \in 0 .. Len(inp)
      BY <2>2, <3>1, FeatureIs, BudgetIs DEF Typed, Budgets
    <3>3. left[b] + Cardinality(SplitOf(b)) = extent.max
      BY <1>3, <3>2 DEF BudgetsKept
    <3>4. SplitOf(b) = Scope(b)
      BY <1>5, ScopeIs DEF SplitOf, Typed
    <3>5. left[b] \in 0 .. extent.max /\ extent.max \in Nat
      BY <3>2, ExtentIs DEF Typed, SourcesTyped
    <3>6. Cardinality(Scope(b)) \in Nat /\ left[b] \in Nat
      BY <3>5, ScopeIs, FS_CardinalityType DEF Typed
    <3>7. Cardinality(Scope(b)) <= extent.max
      BY <3>3, <3>4, <3>5, <3>6
    <3> QED
      BY <3>1, <3>7, WantedIfEnough DEF Typed
  <2> QED
    BY <2>1, <2>2
<1> QED
  BY <1>1, <1>6

\* The invariant gives each part of SourcesAccounted.
LEMMA EntriesAccounted ==
  ASSUME Inv
  PROVE  SourcesAccounted
<1> SUFFICES ASSUME caller = "ok"
             PROVE  /\ DOMAIN opened = Listed
                    /\ \A s \in Listed : opened[s] = [name |-> s, status |-> FinalStatus(s)]
                    /\ \A w \in Workers : \A id \in partial[w].ids : opened[id[2]].name = id[1]
  BY DEF SourcesAccounted, FinalStatus
<1>1. /\ DOMAIN opened = Listed
      /\ \A s \in Listed : opened[s] = [name |-> s, status |-> FinalStatus(s)]
      /\ \A w \in Workers : \A p \in partial[w].ids : p[1] \in Listed /\ p[2] = p[1]
  BY OkIsNotHurt, EntriesAre
<1> QED
  BY <1>1

-----------------------------------------------------------------------------
\* The properties of a scan.

\* Whether a scan succeeds, finds no features or fails is decided by the input and the extent, not
\* by the number of workers or their interleaving; and it fails with an error or a panic only if
\* one lies within the extent (Scanner::run on fold; module Scan).
THEOREM ScanOutcome == Spec => []OutcomeOfTheInput
BY OutcomeIs, ScanInvariant, PTL

\* A scan that succeeds saw each feature of its extent exactly once, and its workers' counts add
\* up to them (SourceScan::next and share; module Scan).
THEOREM ScanExtent == Spec => []ScansTheExtent
BY ExtentIsScanned, ScanInvariant, PTL

\* DatasetObservation::sampled says exactly whether features were left out (SourceScan::share;
\* module Scan).
THEOREM ScanSampled == Spec => []SampledIfLeftOut
BY SampledTells, ScanInvariant, PTL

\* Every source the scan came to has its entry at the index of its id, with its final status
\* (ScanShared::opened; module Scan).
THEOREM ScanSources == Spec => []SourcesAccounted
BY EntriesAccounted, ScanInvariant, PTL

=============================================================================
