-------------------------- MODULE LayerReadProofs --------------------------
(***************************************************************************)
(* What LayerRead promises, proved for every input, number of open         *)
(* sources, number of items in flight, budget and kind of error handling:  *)
(* the rows come in order (RowsInOrder), a read that ends without an error *)
(* gave them all (EndsWithEverything), and a sample that is called         *)
(* complete is the whole layer (CompleteSample).                           *)
(*                                                                         *)
(* The argument follows the chunks.  Until the workers start, those of the *)
(* sample and those left in the streams are, one after the other, those of *)
(* the input (SampleInv); then each is either taken or left, in order if   *)
(* the read is ordered (TakenInv); the rows given, ready and buffered are  *)
(* those of some of the chunks taken (GivenInv), all of them at the end of *)
(* a read without an error (EndInv).                                       *)
(***************************************************************************)
EXTENDS LayerRead, SequenceLemmas

-----------------------------------------------------------------------------
\* Chunks, rows and batches as sets and functions.

Ids == {id \in (DOMAIN inp) \X Nat : id[2] \in DOMAIN inp[id[1]].chunks}
Others == {SourceError, NoFeatures}
Distinct == {p \in Ids \X Ids : p[1] # p[2]}

RowType == Nat \X Nat \X Nat
InSequence == {p \in RowType \X RowType :
                  p[1][1] = p[2][1] /\ p[1][2] = p[2][2] => p[1][3] < p[2][3]}
RowsIn == [id \in Ids |-> Rows(id)]
Bad == {item \in Ids \cup Others : ErrorIn(item)}

CauseType == Nat \X Nat
BatchType == [ok : {TRUE}, rows : Seq(RowType)] \cup [ok : {FALSE}, rows : Seq(CauseType)]
PartOf == [b \in BatchType |-> IF b.ok THEN b.rows ELSE <<>>]

StreamType == [source : {NoStream} \cup DOMAIN inp, chunks : Seq(Ids)]
ChunksIn == [st \in StreamType |-> st.chunks]
Left == Mapped(ChunksIn, streams)

-----------------------------------------------------------------------------
\* The inductive invariant.

Typed ==
  /\ inp \in Inputs /\ onError \in OnFeatureErrors /\ ordered \in BOOLEAN
  /\ phase \in {"sample", "after", "scan", "read", "failed"}
  /\ streams \in Seq(StreamType)
  /\ current \in BOOLEAN /\ ended \in BOOLEAN
  /\ read \in Nat /\ skipped \subseteq DOMAIN inp
  /\ sample \in [chunks : Seq(Ids), features : Nat, bytes : Nat, complete : BOOLEAN,
                 after : Seq(Ids)]
  /\ taken \in Seq(Ids \cup Others)
  /\ working \subseteq DOMAIN taken /\ done \subseteq DOMAIN taken /\ working \cap done = {}
  /\ stopped \in BOOLEAN /\ report \in Nat
  /\ open \in BOOLEAN /\ buffered \in Seq(RowType)
  /\ ready \in Seq(BatchType) /\ out \in Seq(BatchType)
  /\ caller \in {"idle", "asking", "ended", "failed", "dropped"}

\* Nothing is taken or given before the workers start.
NotBefore ==
  phase # "read" =>
    /\ taken = <<>> /\ ~stopped /\ report = 0
    /\ open /\ buffered = <<>> /\ ready = <<>> /\ caller = "idle" /\ out = <<>>

EndedSource(s) == \A i \in DOMAIN streams : streams[i].source # s

\* The counts of SourceShared are those of the sources ended, and what ends the input is noted.
SourcesInv ==
  /\ \A i, j \in DOMAIN streams :
        streams[i].source = streams[j].source => i = j \/ streams[i].source = NoStream
  /\ read # 0 <=> \E s \in DOMAIN inp : EndedSource(s) /\ inp[s].last = "read"
  /\ skipped = {s \in DOMAIN inp : EndedSource(s) /\ inp[s].last = "skipped"}
  /\ \A s \in DOMAIN inp :
        EndedSource(s) /\ Fails(s) => phase = "failed" \/ SourceError \in ToSet(taken)
  /\ ended => /\ \A s \in DOMAIN inp : EndedSource(s)
              /\ phase # "failed" => ~AllSkipped
  /\ SourceError \in ToSet(taken) => stopped
  /\ NoFeatures \in ToSet(taken) =>
        SourceError \notin ToSet(taken) /\ stopped /\ streams = <<>> /\ AllSkipped
  /\ stopped => \/ SourceError \in ToSet(taken)
                \/ streams = <<>> /\ (~AllSkipped \/ NoFeatures \in ToSet(taken))

\* The sample and what is left of the streams are the chunks of the input.
SampleInv ==
  /\ phase \in {"sample", "after", "scan"} =>
        /\ (sample.chunks \o sample.after) \o Left = AllChunks
        /\ current => streams # <<>>
  /\ Sampling => sample.after = <<>> /\ ~sample.complete /\ sample.features <= Budget /\ ~ended
  /\ phase = "scan" =>
        /\ sample.complete => streams = <<>> /\ sample.after = <<>> /\ sample.features <= Budget
        /\ ~sample.complete => sample.features > Budget \/ sample.after # <<>>

\* The chunks taken, cs, and those left are the chunks of the input, each once; an item that is
\* no chunk is the last one taken.
TakenAs(cs) ==
  /\ taken = cs \/ (stopped /\ \E e \in Others : taken = Append(cs, e))
  /\ Rising(cs \o Left, Distinct)
  /\ ToSet(cs \o Left) = Ids
  /\ ordered => cs \o Left = AllChunks

TakenInv == phase = "read" => \E cs \in Seq(Ids) : TakenAs(cs)

Consumed == (DOMAIN taken) \ (working \cup done)
AllOk == \A n \in DOMAIN ready : ready[n].ok
\* No error has ended the read.
Sound == open \/ (caller \in {"idle", "asking", "ended"} /\ AllOk)
Given == (Mapped(PartOf, out) \o Mapped(PartOf, ready)) \o buffered

\* The rows given, ready and buffered are those of the chunks gs, but for the rest of the last
\* one if an error was met in it; gs are all the chunks consumed, unless there was an error.
GivenAs(gs, rest) ==
  /\ Rising(gs, Distinct)
  /\ \A n \in DOMAIN gs : \E m \in Consumed : taken[m] = gs[n]
  /\ Mapped(RowsIn, gs) = Given \o rest
  /\ Sound => /\ rest = <<>>
              /\ \A m \in Consumed : taken[m] \in ToSet(gs) /\ taken[m] \notin Bad
  /\ ordered /\ open => /\ working \cup done = Len(gs) + 1 .. Len(taken)
                        /\ Len(gs) <= Len(taken) /\ \A n \in 1 .. Len(gs) : taken[n] = gs[n]
  /\ ordered => \E r \in Seq(Ids) : AllChunks = gs \o r

GivenInv == \E gs \in Seq(Ids), rest \in Seq(RowType) : GivenAs(gs, rest)

EndInv ==
  /\ open => AllOk
  /\ ~open /\ Sound => stopped /\ working \cup done = {} /\ buffered = <<>>
  /\ caller = "ended" => ~open /\ ready = <<>>

Reported ==
  {row \in RowType : \E n \in (DOMAIN taken) \ working :
                        taken[n] \notin Bad /\ row \in ToSet(RowsIn[taken[n]])}
ReportInv == IsFiniteSet(Reported) /\ report = Cardinality(Reported)

LayerInv ==
  /\ Typed /\ NotBefore /\ SourcesInv /\ SampleInv
  /\ TakenInv /\ GivenInv /\ EndInv /\ ReportInv

-----------------------------------------------------------------------------
\* The input.

LEMMA InputFacts ==
  ASSUME inp \in Inputs
  PROVE  /\ inp \in Seq(SourceType) /\ Len(inp) \in Nat /\ DOMAIN inp = 1 .. Len(inp)
         /\ \A s \in DOMAIN inp : inp[s] \in SourceType /\ inp[s].chunks \in Seq(ChunkType)
         /\ \A s \in DOMAIN inp : inp[s].last = "skipped" => inp[s].chunks = <<>>
         /\ \A s \in DOMAIN inp : s \in Nat /\ s # NoStream
<1>1. inp \in Seq(SourceType)
  BY LayerAssumption
<1>2. Len(inp) \in Nat /\ DOMAIN inp = 1 .. Len(inp) /\ \A s \in 1 .. Len(inp) : inp[s] \in SourceType
  BY <1>1, LenProperties, ElementOfSeq
<1>3. \A s \in DOMAIN inp : inp[s].last = "skipped" => inp[s].chunks = <<>>
  BY LayerAssumption
<1> QED
  BY <1>1, <1>2, <1>3 DEF SourceType, NoStream

LEMMA NoIdIsOther ==
  ASSUME inp \in Inputs
  PROVE  /\ Ids \cap Others = {} /\ SourceError # NoFeatures
         /\ \A id \in Ids : /\ id[1] \in DOMAIN inp /\ id[2] \in Nat
                            /\ id[2] \in DOMAIN inp[id[1]].chunks /\ id = <<id[1], id[2]>>
<1>1. \A id \in Ids : id[1] \in DOMAIN inp /\ id[2] \in Nat /\ id[2] \in DOMAIN inp[id[1]].chunks
                      /\ id = <<id[1], id[2]>>
  BY DEF Ids
<1>2. \A id \in Ids : id[1] # 0
  BY <1>1, InputFacts DEF NoStream
<1>3. SourceError[1] = 0 /\ NoFeatures[1] = 0 /\ SourceError # NoFeatures
  BY DEF SourceError, NoFeatures
<1> QED
  BY <1>1, <1>2, <1>3 DEF Others

\* The chunks of a source, and of them all.
SourceChunks == [s \in DOMAIN inp |-> ChunksOf(s)]
Sources == [s \in DOMAIN inp |-> s]
Apart == {p \in (DOMAIN inp) \X (DOMAIN inp) : p[1] # p[2]}

LEMMA ChunksOfFacts ==
  ASSUME inp \in Inputs, NEW s \in DOMAIN inp
  PROVE  /\ ChunksOf(s) \in Seq(Ids) /\ Rising(ChunksOf(s), Distinct)
         /\ ToSet(ChunksOf(s)) = {id \in Ids : id[1] = s}
<1> DEFINE n == Len(inp[s].chunks)
<1>1. n \in Nat /\ DOMAIN inp[s].chunks = 1 .. n
  BY InputFacts, LenProperties
<1>2. ChunksOf(s) = [k \in 1 .. n |-> <<s, k>>]
  BY <1>1 DEF ChunksOf
<1>3. \A k \in 1 .. n : <<s, k>> \in Ids
  BY <1>1 DEF Ids
<1> HIDE DEF n
<1>4. ChunksOf(s) \in [1 .. n -> Ids]
  BY <1>2, <1>3
<1>5. ChunksOf(s) \in Seq(Ids)
  BY <1>1, <1>4, FunctionIsSeq
<1>6. Rising(ChunksOf(s), Distinct)
  <2> SUFFICES ASSUME NEW a \in 1 .. n, NEW b \in 1 .. n, a < b
               PROVE  <<ChunksOf(s)[a], ChunksOf(s)[b]>> \in Distinct
    BY <1>2 DEF Rising
  <2>1. ChunksOf(s)[a] = <<s, a>> /\ ChunksOf(s)[b] = <<s, b>>
    BY <1>2
  <2>2. <<s, a>> # <<s, b>> /\ <<s, a>> \in Ids /\ <<s, b>> \in Ids
    BY <1>1, <1>3
  <2> QED
    BY <2>1, <2>2 DEF Distinct
<1>7. ToSet(ChunksOf(s)) = {id \in Ids : id[1] = s}
  <2>1. ASSUME NEW id \in Ids, id[1] = s PROVE id \in ToSet(ChunksOf(s))
    <3>1. id = <<s, id[2]>> /\ id[2] \in 1 .. n
      BY <1>1, <2>1, NoIdIsOther DEF n
    <3> QED
      BY <1>2, <3>1 DEF ToSet
  <2>2. ASSUME NEW id \in ToSet(ChunksOf(s)) PROVE id \in Ids /\ id[1] = s
    <3>1. PICK k \in 1 .. n : id = <<s, k>>
      BY <1>2 DEF ToSet
    <3> QED
      BY <1>3, <3>1
  <2> QED
    BY <2>1, <2>2
<1> QED
  BY <1>5, <1>6, <1>7

LEMMA AllChunksFacts ==
  ASSUME inp \in Inputs
  PROVE  AllChunks \in Seq(Ids) /\ Rising(AllChunks, Distinct) /\ ToSet(AllChunks) = Ids
<1>1. Len(inp) \in Nat /\ DOMAIN inp = 1 .. Len(inp)
  BY InputFacts
<1>2. Sources \in Seq(DOMAIN inp) /\ DOMAIN Sources = DOMAIN inp
  <2>1. Sources \in [1 .. Len(inp) -> DOMAIN inp]
    BY <1>1 DEF Sources
  <2> QED
    BY <1>1, <2>1, FunctionIsSeq
<1>3. IsMap(SourceChunks, DOMAIN inp, Ids)
  BY ChunksOfFacts DEF IsMap, SourceChunks
<1>4. AllChunks = Mapped(SourceChunks, Sources)
  <2>1. Parts(SourceChunks, Sources) = [s \in DOMAIN inp |-> ChunksOf(s)]
    BY <1>2 DEF Parts, SourceChunks, Sources
  <2> QED
    BY <2>1 DEF AllChunks, Mapped
<1>5. AllChunks \in Seq(Ids)
  BY <1>2, <1>3, <1>4, MappedTyped
<1>6. Rising(AllChunks, Distinct)
  <2>1. \A c \in DOMAIN inp : Rising(SourceChunks[c], Distinct)
    BY ChunksOfFacts DEF SourceChunks
  <2>2. \A c, d \in DOMAIN inp : <<c, d>> \in Apart =>
           \A x \in ToSet(SourceChunks[c]), y \in ToSet(SourceChunks[d]) : <<x, y>> \in Distinct
    <3>1. \A c \in DOMAIN inp : \A x \in ToSet(SourceChunks[c]) : x \in Ids /\ x[1] = c
      BY ChunksOfFacts DEF SourceChunks
    <3>2. \A c, d \in DOMAIN inp : <<c, d>> \in Apart => c # d
      BY DEF Apart
    <3>3. \A x, y \in Ids : x[1] # y[1] => <<x, y>> \in Distinct
      BY DEF Distinct
    <3> QED
      BY <3>1, <3>2, <3>3
  <2>3. Rising(Sources, Apart)
    BY <1>1, <1>2 DEF Rising, Sources, Apart
  <2> QED
    BY <1>2, <1>3, <1>4, <2>1, <2>2, <2>3, RisingMapped
<1>7. ASSUME NEW id \in Ids PROVE id \in ToSet(AllChunks)
  <2>1. id[1] \in DOMAIN inp
    BY NoIdIsOther
  <2>2. id \in ToSet(SourceChunks[id[1]])
    BY <2>1, ChunksOfFacts DEF SourceChunks
  <2>3. id[1] \in ToSet(Sources)
    BY <1>2, <2>1 DEF ToSet, Sources
  <2> QED
    BY <1>2, <1>3, <1>4, <2>2, <2>3, MappedElements
<1>8. ToSet(AllChunks) \subseteq Ids
  BY <1>5, ElementsTyped
<1> QED
  BY <1>5, <1>6, <1>7, <1>8

-----------------------------------------------------------------------------
\* The rows of a chunk.

RowOf(id) == [f \in DOMAIN Chunk(id).features |->
                 IF Outcome(Chunk(id).features[f]) = "row" THEN <<Features(id)[f]>> ELSE <<>>]
Numbers(n) == [k \in 1 .. n |-> k]
Lower == {p \in Nat \X Nat : p[1] < p[2]}

LEMMA RowsOfChunk ==
  ASSUME inp \in Inputs, NEW id \in Ids
  PROVE  /\ Rows(id) \in Seq(RowType) /\ Rising(Rows(id), InSequence)
         /\ \A x \in ToSet(Rows(id)) : x \in RowType /\ x[1] = id[1] /\ x[2] = id[2]
<1> DEFINE chunk == inp[id[1]].chunks[id[2]]
           n == Len(chunk.features)
           D == 1 .. n
           R == RowOf(id)
<1>1. id[1] \in DOMAIN inp /\ id[1] \in Nat /\ id[2] \in Nat /\ id[2] \in DOMAIN inp[id[1]].chunks
  BY NoIdIsOther, InputFacts
<1>2. chunk \in ChunkType
  BY <1>1, InputFacts, LenProperties, ElementOfSeq
<1>3. n \in Nat /\ DOMAIN chunk.features = D
  BY <1>2, LenProperties DEF ChunkType
<1>4. Chunk(id) = chunk
  BY DEF Chunk
<1>5. R = [f \in D |-> IF Outcome(chunk.features[f]) = "row" THEN << <<id[1], id[2], f>> >> ELSE <<>>]
  BY <1>3, <1>4 DEF RowOf, Features
<1>6. Rows(id) = Mapped(R, Numbers(n))
  <2>1. DOMAIN Numbers(n) = D /\ \A f \in D : Numbers(n)[f] = f
    BY DEF Numbers
  <2>2. Parts(R, Numbers(n)) = [f \in D |-> R[f]]
    BY <2>1 DEF Parts
  <2>3. Parts(R, Numbers(n)) = [f \in DOMAIN Chunk(id).features |->
                 IF Outcome(Chunk(id).features[f]) = "row" THEN <<Features(id)[f]>> ELSE <<>>]
    BY <1>3, <1>4, <2>2 DEF RowOf
  <2> QED
    BY <2>3 DEF Rows, Mapped
<1> HIDE DEF chunk, n, R
<1>7. ASSUME NEW f \in D
      PROVE  /\ R[f] \in Seq(RowType) /\ Rising(R[f], InSequence)
             /\ \A x \in ToSet(R[f]) : x = <<id[1], id[2], f>>
  <2> DEFINE row == <<id[1], id[2], f>>
  <2>1. row \in RowType
    BY <1>1, <1>3 DEF RowType
  <2>2. R[f] = <<row>> \/ R[f] = <<>>
    BY <1>5
  <2> HIDE DEF row
  <2>3. <<row>> \in Seq(RowType) /\ <<>> \in Seq(RowType) /\ ToSet(<<row>>) = {row} /\ ToSet(<<>>) = {}
    BY <2>1 DEF ToSet
  <2>4. R[f] \in Seq(RowType) /\ \A x \in ToSet(R[f]) : x = row
    BY <2>2, <2>3
  <2>5. Rising(R[f], InSequence)
    BY <2>2, RisingSingle, RisingEmpty
  <2> QED
    BY <2>4, <2>5 DEF row
<1>8. IsMap(R, D, RowType)
  BY <1>5, <1>7 DEF IsMap
<1>9. Numbers(n) \in Seq(D)
  <2>1. Numbers(n) \in [1 .. n -> D]
    BY DEF Numbers
  <2> QED
    BY <1>3, <2>1, FunctionIsSeq
<1>10. Rows(id) \in Seq(RowType)
  <2> HIDE DEF D
  <2> QED
    BY <1>6, <1>8, <1>9, MappedTyped
<1>11. Rising(Rows(id), InSequence)
  <2>1. \A c \in D : Rising(R[c], InSequence)
    BY <1>7
  <2>2. \A c, d \in D : <<c, d>> \in Lower =>
           \A x \in ToSet(R[c]), y \in ToSet(R[d]) : <<x, y>> \in InSequence
    <3> SUFFICES ASSUME NEW c \in D, NEW d \in D, <<c, d>> \in Lower,
                        NEW x \in ToSet(R[c]), NEW y \in ToSet(R[d])
                 PROVE  <<x, y>> \in InSequence
      OBVIOUS
    <3>1. x = <<id[1], id[2], c>> /\ y = <<id[1], id[2], d>>
      BY <1>7
    <3>2. c < d /\ c \in Nat /\ d \in Nat
      BY <1>3 DEF Lower
    <3>3. x \in RowType /\ y \in RowType /\ x[3] < y[3]
      BY <1>1, <3>1, <3>2 DEF RowType
    <3> QED
      BY <3>3 DEF InSequence
  <2>3. Rising(Numbers(n), Lower)
    BY <1>3 DEF Rising, Numbers, Lower
  <2> HIDE DEF D
  <2> QED
    BY <1>6, <1>8, <1>9, <2>1, <2>2, <2>3, RisingMapped
<1>12. ASSUME NEW x \in ToSet(Rows(id)) PROVE x \in RowType /\ x[1] = id[1] /\ x[2] = id[2]
  <2>1. PICK f \in ToSet(Numbers(n)) : x \in ToSet(R[f])
    <3> HIDE DEF D
    <3> QED
      BY <1>6, <1>8, <1>9, <1>12, MappedElements
  <2>2. f \in D
    <3>1. ToSet(Numbers(n)) \subseteq D
      <4> HIDE DEF D
      <4> QED
        BY <1>9, ElementsTyped
    <3> QED
      BY <3>1
  <2>3. \A g \in D : \A y \in ToSet(R[g]) : y = <<id[1], id[2], g>>
    BY <1>7
  <2>4. f \in Nat
    BY <1>3, <2>2
  <2> HIDE DEF D
  <2>5. x = <<id[1], id[2], f>>
    BY <2>1, <2>2, <2>3
  <2> QED
    BY <1>1, <2>4, <2>5 DEF RowType
<1> QED
  BY <1>10, <1>11, <1>12

LEMMA RowsInFacts ==
  ASSUME inp \in Inputs
  PROVE  /\ IsMap(RowsIn, Ids, RowType)
         /\ \A id \in Ids : RowsIn[id] = Rows(id) /\ Rising(RowsIn[id], InSequence)
         /\ \A c, d \in Ids : c # d =>
               \A x \in ToSet(RowsIn[c]), y \in ToSet(RowsIn[d]) : <<x, y>> \in InSequence /\ x # y
         /\ \A x \in RowType : <<x, x>> \notin InSequence
<1>1. IsMap(RowsIn, Ids, RowType)
  BY RowsOfChunk DEF IsMap, RowsIn
<1>2. \A id \in Ids : RowsIn[id] = Rows(id) /\ Rising(RowsIn[id], InSequence)
  BY RowsOfChunk DEF RowsIn
<1>3. ASSUME NEW c \in Ids, NEW d \in Ids, c # d, NEW x \in ToSet(RowsIn[c]), NEW y \in ToSet(RowsIn[d])
      PROVE  <<x, y>> \in InSequence /\ x # y
  <2>1. x \in RowType /\ x[1] = c[1] /\ x[2] = c[2] /\ y \in RowType /\ y[1] = d[1] /\ y[2] = d[2]
    BY RowsOfChunk DEF RowsIn
  <2>2. c[1] # d[1] \/ c[2] # d[2]
    BY <1>3, NoIdIsOther
  <2>3. ~(x[1] = y[1] /\ x[2] = y[2])
    BY <2>1, <2>2
  <2> QED
    BY <2>1, <2>3 DEF InSequence
<1>4. \A x \in RowType : <<x, x>> \notin InSequence
  BY DEF InSequence, RowType
<1> QED
  BY <1>1, <1>2, <1>3, <1>4

-----------------------------------------------------------------------------
\* Streams and batches.

LEMMA StreamFacts ==
  /\ IsMap(ChunksIn, StreamType, Ids)
  /\ \A st \in StreamType : ChunksIn[st] = st.chunks
BY DEF IsMap, ChunksIn, StreamType

LEMMA BatchFacts ==
  /\ IsMap(PartOf, BatchType, RowType)
  /\ \A b \in BatchType : PartOf[b] = IF b.ok THEN b.rows ELSE <<>>
  /\ \A rows \in Seq(RowType) : Batch(rows) \in BatchType /\ Batch(rows).ok /\ PartOf[Batch(rows)] = rows
  /\ \A c \in CauseType : Failure(c) \in BatchType /\ ~Failure(c).ok /\ PartOf[Failure(c)] = <<>>
<1>1. \A b \in BatchType : PartOf[b] = IF b.ok THEN b.rows ELSE <<>>
  BY DEF PartOf
<1>2. \A b \in BatchType : (IF b.ok THEN b.rows ELSE <<>>) \in Seq(RowType)
  <2>1. <<>> \in Seq(RowType)
    BY EmptySeq
  <2> QED
    BY <2>1 DEF BatchType
<1>3. IsMap(PartOf, BatchType, RowType)
  BY <1>2 DEF IsMap, PartOf
<1>4. \A rows \in Seq(RowType) : Batch(rows) \in BatchType /\ Batch(rows).ok /\ Batch(rows).rows = rows
  BY DEF Batch, BatchType
<1>5. \A c \in CauseType : Failure(c) \in BatchType /\ ~Failure(c).ok
  BY DEF Failure, BatchType
<1> QED
  BY <1>1, <1>3, <1>4, <1>5

\* The chunks left around a stream, when it gives a chunk and when it ends.
LEMMA LeftAround ==
  ASSUME NEW ss \in Seq(StreamType), NEW i \in 1 .. Len(ss)
  PROVE  LET before == Mapped(ChunksIn, SubSeq(ss, 1, i - 1))
             after == Mapped(ChunksIn, SubSeq(ss, i + 1, Len(ss)))
         IN  /\ before \in Seq(Ids) /\ after \in Seq(Ids)
             /\ i = 1 => before = <<>>
             /\ Mapped(ChunksIn, RemoveAt(ss, i)) = before \o after
             /\ RemoveAt(ss, i) \in Seq(StreamType)
             /\ \A st \in StreamType :
                   /\ [ss EXCEPT ![i] = st] \in Seq(StreamType)
                   /\ Mapped(ChunksIn, [ss EXCEPT ![i] = st]) = before \o (st.chunks \o after)
             /\ Mapped(ChunksIn, ss) = before \o (ss[i].chunks \o after)
<1> DEFINE a == SubSeq(ss, 1, i - 1)
           b == SubSeq(ss, i + 1, Len(ss))
<1>1. a \in Seq(StreamType) /\ b \in Seq(StreamType) /\ Len(a) = i - 1 /\ ss[i] \in StreamType
  BY Around
<1> DEFINE before == Mapped(ChunksIn, a)
           after == Mapped(ChunksIn, b)
<1>2. before \in Seq(Ids) /\ after \in Seq(Ids)
  <2>1. \A s \in Seq(StreamType) : Mapped(ChunksIn, s) \in Seq(Ids)
    BY StreamFacts, MappedTyped
  <2> QED
    BY <1>1, <2>1
<1>3. i = 1 => before = <<>>
  <2>1. i = 1 => a = <<>>
    BY <1>1, EmptySeq
  <2> QED
    BY <2>1, MappedEmpty
<1>4. ASSUME NEW st \in StreamType
      PROVE  Mapped(ChunksIn, a \o (<<st>> \o b)) = before \o (st.chunks \o after)
  <2>1. <<st>> \in Seq(StreamType)
    OBVIOUS
  <2> DEFINE one == <<st>>
  <2>2. Mapped(ChunksIn, one) = st.chunks
    <3>1. Mapped(ChunksIn, one) = ChunksIn[st]
      BY StreamFacts, MappedSingle
    <3> QED
      BY <3>1, StreamFacts
  <2>3. one \in Seq(StreamType)
    BY <2>1
  <2> HIDE DEF a, b, one
  <2>4. ASSUME NEW s \in Seq(StreamType), NEW t \in Seq(StreamType)
        PROVE  s \o t \in Seq(StreamType) /\ Mapped(ChunksIn, s \o t) = Mapped(ChunksIn, s) \o Mapped(ChunksIn, t)
    <3>1. s \o t \in Seq(StreamType)
      BY ConcatProperties
    <3>2. Mapped(ChunksIn, s \o t) = Mapped(ChunksIn, s) \o Mapped(ChunksIn, t)
      BY StreamFacts, MappedConcat
    <3> QED
      BY <3>1, <3>2
  <2>5. one \o b \in Seq(StreamType) /\ Mapped(ChunksIn, one \o b) = Mapped(ChunksIn, one) \o after
    BY <1>1, <2>3, <2>4
  <2>6. Mapped(ChunksIn, a \o (one \o b)) = before \o Mapped(ChunksIn, one \o b)
    BY <1>1, <2>4, <2>5
  <2> QED
    BY <2>2, <2>5, <2>6 DEF one
<1>5. RemoveAt(ss, i) \in Seq(StreamType) /\ Mapped(ChunksIn, RemoveAt(ss, i)) = before \o after
  <2>1. RemoveAt(ss, i) = a \o b
    BY DEF RemoveAt
  <2> HIDE DEF a, b
  <2>2. a \o b \in Seq(StreamType)
    BY <1>1, ConcatProperties
  <2>3. Mapped(ChunksIn, a \o b) = before \o after
    BY <1>1, StreamFacts, MappedConcat
  <2> QED
    BY <2>1, <2>2, <2>3
<1>6. ASSUME NEW st \in StreamType
      PROVE  /\ [ss EXCEPT ![i] = st] \in Seq(StreamType)
             /\ Mapped(ChunksIn, [ss EXCEPT ![i] = st]) = before \o (st.chunks \o after)
  <2> DEFINE t == [ss EXCEPT ![i] = st]
  <2>1. t \in Seq(StreamType) /\ Len(t) = Len(ss) /\ \A j \in 1 .. Len(ss) : t[j] = IF j = i THEN st ELSE ss[j]
    BY ExceptSeq
  <2>2. t[i] = st
    BY <2>1
  <2> HIDE DEF t
  <2>3. t = a \o (<<t[i]>> \o b)
    BY <2>1, SplitAt
  <2>4. Mapped(ChunksIn, t) = before \o (st.chunks \o after)
    <3> HIDE DEF a, b, before, after
    <3> QED
      BY <1>4, <2>2, <2>3
  <2> QED
    BY <2>1, <2>4 DEF t
<1>7. Mapped(ChunksIn, ss) = before \o (ss[i].chunks \o after)
  <2>1. ss = a \o (<<ss[i]>> \o b)
    BY SplitAt
  <2> HIDE DEF a, b, before, after
  <2> QED
    BY <1>1, <1>4, <2>1
<1> QED
  BY <1>2, <1>3, <1>5, <1>6, <1>7

\* What depends on the input alone does not change.
LEMMA SameInput ==
  ASSUME UNCHANGED inputVars
  PROVE  /\ inp' = inp /\ onError' = onError /\ ordered' = ordered
         /\ Ids' = Ids /\ Distinct' = Distinct /\ RowsIn' = RowsIn /\ Bad' = Bad
         /\ StreamType' = StreamType /\ ChunksIn' = ChunksIn /\ AllChunks' = AllChunks
<1>1. inp' = inp /\ onError' = onError /\ ordered' = ordered
  BY DEF inputVars
<1>2. Ids' = Ids
  BY <1>1 DEF Ids
<1>3. Distinct' = Distinct
  BY <1>2 DEF Distinct
<1>4. RowsIn' = RowsIn
  BY <1>1, <1>2 DEF RowsIn, Rows, Chunk, Features, Outcome
<1>5. Bad' = Bad
  BY <1>1, <1>2 DEF Bad, ErrorIn, Chunk, Outcome
<1>6. StreamType' = StreamType
  BY <1>1, <1>2 DEF StreamType
<1>7. ChunksIn' = ChunksIn
  BY <1>6 DEF ChunksIn
<1>8. AllChunks' = AllChunks
  BY <1>1 DEF AllChunks, ChunksOf
<1> QED
  BY <1>1, <1>2, <1>3, <1>4, <1>5, <1>6, <1>7, <1>8

-----------------------------------------------------------------------------
\* The initial states.

LEMMA InitLayerInv == Init => LayerInv
<1> SUFFICES ASSUME Init PROVE LayerInv
  OBVIOUS
<1>1. /\ inp \in Inputs /\ onError \in OnFeatureErrors /\ ordered \in BOOLEAN
      /\ phase \in {"sample", "read"} /\ current = FALSE /\ ended = FALSE
      /\ streams = [s \in DOMAIN inp |-> [source |-> s, chunks |-> ChunksOf(s)]]
      /\ read = 0 /\ skipped = {}
      /\ sample = [chunks |-> <<>>, features |-> 0, bytes |-> 0, complete |-> FALSE, after |-> <<>>]
      /\ taken = <<>> /\ working = {} /\ done = {} /\ stopped = FALSE
      /\ report = 0
      /\ open = TRUE /\ buffered = <<>> /\ ready = <<>>
      /\ caller = "idle" /\ out = <<>>
  BY LayerAssumption DEF Init
<1>2. Len(inp) \in Nat /\ DOMAIN inp = 1 .. Len(inp)
  BY <1>1, InputFacts
<1>3. \A s \in DOMAIN inp : [source |-> s, chunks |-> ChunksOf(s)] \in StreamType
  BY <1>1, ChunksOfFacts DEF StreamType
<1>4. streams \in Seq(StreamType) /\ DOMAIN streams = DOMAIN inp
  <2>1. streams \in [1 .. Len(inp) -> StreamType]
    BY <1>1, <1>2, <1>3
  <2> QED
    BY <1>2, <2>1, FunctionIsSeq
<1>5. Left = AllChunks
  <2>1. Parts(ChunksIn, streams) = [s \in DOMAIN inp |-> ChunksOf(s)]
    <3>1. \A s \in DOMAIN inp : streams[s] \in StreamType /\ streams[s].chunks = ChunksOf(s)
      BY <1>1, <1>3
    <3>2. \A s \in DOMAIN inp : ChunksIn[streams[s]] = ChunksOf(s)
      BY <3>1, StreamFacts
    <3> QED
      BY <1>4, <3>2 DEF Parts
  <2> QED
    BY <2>1 DEF Left, Mapped, AllChunks
<1>6. /\ <<>> \in Seq(Ids) /\ <<>> \in Seq(RowType) /\ <<>> \in Seq(BatchType) /\ <<>> \in Seq(Ids \cup Others)
      /\ DOMAIN <<>> = {} /\ ToSet(<<>>) = {} /\ Len(<<>>) = 0
  BY EmptySeq DEF ToSet
<1>7. Typed
  BY <1>1, <1>4, <1>6 DEF Typed
<1>8. NotBefore
  BY <1>1 DEF NotBefore
<1>9. SourcesInv
  <2>1. \A s \in DOMAIN inp : streams[s].source = s /\ ~EndedSource(s)
    BY <1>1, <1>4 DEF EndedSource
  <2> QED
    BY <1>1, <1>4, <1>6, <2>1 DEF SourcesInv
<1>10. AllChunks \in Seq(Ids) /\ Rising(AllChunks, Distinct) /\ ToSet(AllChunks) = Ids
  BY <1>1, AllChunksFacts
<1>11. <<>> \o AllChunks = AllChunks /\ <<>> \o <<>> = <<>>
  BY <1>10, ConcatEmptySeq, <1>6
<1>12. SampleInv
  BY <1>1, <1>5, <1>11, LayerAssumption DEF SampleInv, Sampling
<1>13. TakenInv
  <2>1. TakenAs(<<>>)
    BY <1>1, <1>5, <1>10, <1>11 DEF TakenAs
  <2> QED
    BY <1>6, <2>1 DEF TakenInv
<1>14. GivenInv
  <2>1. Mapped(RowsIn, <<>>) = <<>> /\ Mapped(PartOf, <<>>) = <<>>
    BY MappedEmpty
  <2>2. Given \o <<>> = <<>>
    BY <1>1, <1>11, <2>1 DEF Given
  <2>3. Consumed = {}
    BY <1>1, <1>6 DEF Consumed
  <2>4. 1 .. 0 = {} /\ 0 + 1 = 1
    OBVIOUS
  <2>5. GivenAs(<<>>, <<>>)
    BY <1>1, <1>6, <1>10, <1>11, <2>1, <2>2, <2>3, <2>4, RisingEmpty DEF GivenAs
  <2> QED
    BY <1>6, <2>5 DEF GivenInv
<1>15. EndInv
  BY <1>1, <1>6 DEF EndInv, AllOk
<1>16. ReportInv
  <2>1. Reported = {}
    BY <1>1, <1>6 DEF Reported
  <2> QED
    BY <1>1, <2>1, FS_EmptySet DEF ReportInv
<1> QED
  BY <1>7, <1>8, <1>9, <1>12, <1>13, <1>14, <1>15, <1>16 DEF LayerInv

-----------------------------------------------------------------------------
\* What a step leaves alone.

LEMMA KeepGiven ==
  ASSUME GivenInv, UNCHANGED <<inputVars, taken>>, working' \cup done' = working \cup done,
         Sound' => Sound, open' => open, Given' = Given
  PROVE  GivenInv'
<1>1. /\ Ids' = Ids /\ Distinct' = Distinct /\ RowsIn' = RowsIn /\ Bad' = Bad /\ ordered' = ordered
      /\ AllChunks' = AllChunks
  BY SameInput
<1>2. taken' = taken
  OBVIOUS
<1>3. Consumed' = Consumed
  BY <1>2 DEF Consumed
<1>4. PICK gs \in Seq(Ids), rest \in Seq(RowType) : GivenAs(gs, rest)
  BY DEF GivenInv
<1>5. GivenAs(gs, rest)'
  <2>1. /\ Rising(gs, Distinct)'
        /\ (\A n \in DOMAIN gs : \E m \in Consumed : taken[m] = gs[n])'
        /\ (ordered => \E r \in Seq(Ids) : AllChunks = gs \o r)'
    BY <1>1, <1>2, <1>3, <1>4 DEF GivenAs
  <2>2. (Mapped(RowsIn, gs) = Given \o rest)'
    BY <1>1, <1>4 DEF GivenAs
  <2>3. (Sound => /\ rest = <<>>
                  /\ \A m \in Consumed : taken[m] \in ToSet(gs) /\ taken[m] \notin Bad)'
    BY <1>1, <1>2, <1>3, <1>4 DEF GivenAs
  <2>4. (ordered /\ open =>
           /\ working \cup done = Len(gs) + 1 .. Len(taken)
           /\ Len(gs) <= Len(taken) /\ \A n \in 1 .. Len(gs) : taken[n] = gs[n])'
    BY <1>1, <1>2, <1>4 DEF GivenAs
  <2> QED
    BY <2>1, <2>2, <2>3, <2>4 DEF GivenAs
<1> QED
  BY <1>1, <1>4, <1>5 DEF GivenInv

LEMMA KeepTaken ==
  ASSUME TakenInv, UNCHANGED <<inputVars, phase, streams, taken, stopped>>
  PROVE  TakenInv'
<1>1. /\ Ids' = Ids /\ Distinct' = Distinct /\ ChunksIn' = ChunksIn /\ ordered' = ordered
      /\ AllChunks' = AllChunks /\ Left' = Left
  BY SameInput DEF Left
<1>2. phase' = phase /\ taken' = taken /\ stopped' = stopped
  OBVIOUS
<1>3. SUFFICES ASSUME phase = "read" PROVE \E cs \in Seq(Ids) : TakenAs(cs)'
  BY <1>1, <1>2 DEF TakenInv
<1>4. PICK cs \in Seq(Ids) : TakenAs(cs)
  BY <1>3 DEF TakenInv
<1>5. TakenAs(cs)'
  BY <1>1, <1>2, <1>4 DEF TakenAs
<1> QED
  BY <1>4, <1>5

LEMMA KeepSources ==
  ASSUME SourcesInv, UNCHANGED <<inp, phase, streams, ended, read, skipped, taken, stopped>>
  PROVE  SourcesInv'
BY DEF SourcesInv, EndedSource, Fails, AllSkipped

LEMMA KeepSample ==
  ASSUME SampleInv, UNCHANGED <<inputVars, phase, streams, current, ended, sample>>
  PROVE  SampleInv'
<1>1. AllChunks' = AllChunks /\ Left' = Left
  BY SameInput DEF Left
<1> QED
  BY <1>1 DEF SampleInv, Sampling

LEMMA KeepEnd ==
  ASSUME EndInv, UNCHANGED <<open, caller, ready, stopped, working, done, buffered>>
  PROVE  EndInv'
BY DEF EndInv, AllOk, Sound

LEMMA KeepReport ==
  ASSUME ReportInv, UNCHANGED <<inputVars, taken, working, report>>
  PROVE  ReportInv'
<1>1. RowsIn' = RowsIn /\ Bad' = Bad
  BY SameInput
<1>2. Reported' = Reported
  BY <1>1 DEF Reported
<1> QED
  BY <1>2 DEF ReportInv

\* The steps of the sample leave the workers and the batches alone.
LEMMA KeepRest ==
  ASSUME LayerInv, UNCHANGED <<inputVars, poolVars, batchVars>>
  PROVE  GivenInv' /\ EndInv' /\ ReportInv'
<1>1. GivenInv /\ EndInv /\ ReportInv
  BY DEF LayerInv
<1>2. UNCHANGED <<inputVars, taken, working, done, open, caller, ready, out, buffered, stopped, report>>
  BY DEF poolVars, batchVars
<1>3. GivenInv'
  <2>1. Sound' = Sound /\ Given' = Given
    BY <1>2 DEF Sound, AllOk, Given
  <2> QED
    BY <1>1, <1>2, <2>1, KeepGiven
<1>4. EndInv'
  BY <1>1, <1>2, KeepEnd
<1>5. ReportInv'
  BY <1>1, <1>2, KeepReport
<1> QED
  BY <1>3, <1>4, <1>5

-----------------------------------------------------------------------------
\* A stream gives a chunk, and a stream ends.

LEMMA LeftTyped == Typed => Left \in Seq(Ids)
BY StreamFacts, MappedTyped DEF Typed, Left

LEMMA StreamGives ==
  ASSUME Typed, UNCHANGED inputVars, NEW i \in 1 .. Len(streams), streams[i].chunks # <<>>,
         streams' = [streams EXCEPT ![i].chunks = Tail(@)]
  PROVE  /\ Head(streams[i].chunks) \in Ids
         /\ streams' \in Seq(StreamType) /\ Len(streams') = Len(streams)
         /\ \A j \in 1 .. Len(streams) : streams'[j].source = streams[j].source
         /\ \E a, b \in Seq(Ids) : /\ Left = a \o (<<Head(streams[i].chunks)>> \o b)
                                   /\ Left' = a \o b
                                   /\ i = 1 => a = <<>>
<1> DEFINE st == streams[i]
           id == Head(st.chunks)
           tail == Tail(st.chunks)
           new == [source |-> st.source, chunks |-> tail]
<1>1. streams \in Seq(StreamType) /\ st \in StreamType
  BY ElementOfSeq DEF Typed
<1>2. st.chunks \in Seq(Ids) /\ st.source \in {NoStream} \cup DOMAIN inp
      /\ st = [source |-> st.source, chunks |-> st.chunks]
  BY <1>1 DEF StreamType
<1>3. st.chunks = <<id>> \o tail /\ id \in Ids /\ tail \in Seq(Ids)
  BY <1>2, HeadAndTail
<1>4. new \in StreamType /\ new.chunks = tail /\ new.source = st.source
  BY <1>2, <1>3 DEF StreamType
<1>5. streams' = [streams EXCEPT ![i] = new]
  <2>1. ASSUME NEW u, NEW v, NEW w
        PROVE  [[source |-> u, chunks |-> v] EXCEPT !.chunks = w] = [source |-> u, chunks |-> w]
    OBVIOUS
  <2> DEFINE rec == [source |-> st.source, chunks |-> st.chunks]
  <2>2. [rec EXCEPT !.chunks = tail] = new
    BY <2>1
  <2>3. streams[i] = rec
    BY <1>2
  <2> HIDE DEF rec
  <2>4. [streams[i] EXCEPT !.chunks = tail] = new
    BY <2>2, <2>3, Zenon
  <2> QED
    BY <2>4
<1> HIDE DEF new, tail, id
<1>6. /\ streams' \in Seq(StreamType) /\ Len(streams') = Len(streams)
      /\ \A j \in 1 .. Len(streams) : streams'[j] = IF j = i THEN new ELSE streams[j]
  <2>1. ASSUME NEW x \in StreamType
        PROVE  /\ [streams EXCEPT ![i] = x] \in Seq(StreamType)
               /\ Len([streams EXCEPT ![i] = x]) = Len(streams)
               /\ \A j \in 1 .. Len(streams) :
                     [streams EXCEPT ![i] = x][j] = IF j = i THEN x ELSE streams[j]
    BY <1>1, ExceptSeq
  <2>2. /\ [streams EXCEPT ![i] = new] \in Seq(StreamType)
        /\ Len([streams EXCEPT ![i] = new]) = Len(streams)
    BY <1>4, <2>1
  <2>3. ASSUME NEW j \in 1 .. Len(streams)
        PROVE  [streams EXCEPT ![i] = new][j] = IF j = i THEN new ELSE streams[j]
    BY <1>4, <2>1
  <2> QED
    BY <1>5, <2>2, <2>3, Zenon
<1> DEFINE before == Mapped(ChunksIn, SubSeq(streams, 1, i - 1))
           after == Mapped(ChunksIn, SubSeq(streams, i + 1, Len(streams)))
<1>7. /\ before \in Seq(Ids) /\ after \in Seq(Ids)
      /\ i = 1 => before = <<>>
      /\ \A s \in StreamType :
            Mapped(ChunksIn, [streams EXCEPT ![i] = s]) = before \o (s.chunks \o after)
      /\ Left = before \o (st.chunks \o after)
  BY <1>1, LeftAround DEF Left
<1>8. ChunksIn' = ChunksIn
  BY SameInput
<1> HIDE DEF before, after, st
<1>9. Left' = before \o (tail \o after)
  BY <1>4, <1>5, <1>7, <1>8 DEF Left
<1> DEFINE b == tail \o after
<1>10. b \in Seq(Ids)
  BY <1>3, <1>7, ConcatProperties
<1>11. st.chunks \o after = <<id>> \o b
  <2>1. \A x, y, z \in Seq(Ids) : (x \o y) \o z = x \o (y \o z)
    BY ConcatAssociative
  <2>2. <<id>> \in Seq(Ids)
    BY <1>3
  <2> QED
    BY <1>3, <1>7, <2>1, <2>2
<1>12. Left = before \o (<<id>> \o b) /\ Left' = before \o b
  BY <1>7, <1>9, <1>11
<1> HIDE DEF b
<1>13. \E x, y \in Seq(Ids) : Left = x \o (<<id>> \o y) /\ Left' = x \o y /\ (i = 1 => x = <<>>)
  BY <1>7, <1>10, <1>12
<1>14. \A j \in 1 .. Len(streams) : streams'[j].source = streams[j].source
  BY <1>4, <1>6 DEF st
<1> QED
  BY <1>3, <1>6, <1>13, <1>14 DEF id, st

LEMMA TailIsRemoveAt ==
  ASSUME NEW S, NEW s \in Seq(S), s # <<>>
  PROVE  Tail(s) = RemoveAt(s, 1)
<1>1. Len(s) \in Nat \ {0} /\ 1 \in 1 .. Len(s) /\ Len(s) \in 1 .. Len(s)
  <2>1. Len(s) \in Nat \ {0}
    BY EmptySeq
  <2> QED
    BY <2>1
<1>2. SubSeq(s, 1, 1 - 1) = <<>> /\ SubSeq(s, 1 + 1, Len(s)) \in Seq(S)
  <2>1. /\ SubSeq(s, 1, 1 - 1) \in Seq(S) /\ Len(SubSeq(s, 1, 1 - 1)) = 1 - 1
        /\ SubSeq(s, 1 + 1, Len(s)) \in Seq(S)
    BY <1>1, Around
  <2> QED
    BY <2>1, EmptySeq
<1>3. Tail(SubSeq(s, 1, Len(s))) = SubSeq(s, 1 + 1, Len(s))
  BY <1>1, HeadTailOfSubSeq
<1>4. SubSeq(s, 1, Len(s)) = s
  BY SubSeqFull
<1>5. <<>> \o SubSeq(s, 1 + 1, Len(s)) = SubSeq(s, 1 + 1, Len(s))
  BY <1>2, ConcatEmptySeq
<1> QED
  BY <1>2, <1>3, <1>4, <1>5 DEF RemoveAt

LEMMA StreamGone ==
  ASSUME Typed, UNCHANGED inputVars, NEW i \in 1 .. Len(streams), streams[i].chunks = <<>>,
         streams' = RemoveAt(streams, i)
  PROVE  /\ streams' \in Seq(StreamType) /\ Len(streams') = Len(streams) - 1 /\ Left' = Left
         /\ \A j \in 1 .. Len(streams') : streams'[j] = streams[IF j < i THEN j ELSE j + 1]
<1> DEFINE a == SubSeq(streams, 1, i - 1)
           b == SubSeq(streams, i + 1, Len(streams))
           n == Len(streams)
<1>1. streams \in Seq(StreamType) /\ n \in Nat
  BY LenProperties DEF Typed
<1>2. /\ a \in Seq(StreamType) /\ b \in Seq(StreamType) /\ Len(a) = i - 1 /\ Len(b) = n - i
      /\ \A j \in 1 .. i - 1 : a[j] = streams[j]
      /\ \A j \in 1 .. n - i : b[j] = streams[i + j]
  BY <1>1, Around
<1>3. streams' = a \o b
  BY DEF RemoveAt
<1>4. ChunksIn' = ChunksIn
  BY SameInput
<1>5. Left' = Left /\ streams' \in Seq(StreamType)
  <2> DEFINE before == Mapped(ChunksIn, a)
             after == Mapped(ChunksIn, b)
  <2>1. /\ before \in Seq(Ids) /\ after \in Seq(Ids)
        /\ Mapped(ChunksIn, streams') = before \o after
        /\ streams' \in Seq(StreamType)
        /\ Left = before \o (streams[i].chunks \o after)
    BY <1>1, LeftAround DEF Left
  <2>2. streams[i].chunks \o after = after
    <3>1. <<>> \o after = after
      BY <2>1, ConcatEmptySeq
    <3> QED
      BY <3>1
  <2> QED
    BY <1>4, <2>1, <2>2 DEF Left
<1> HIDE DEF a, b
<1>6. /\ Len(a \o b) = Len(a) + Len(b)
      /\ \A j \in 1 .. Len(a) + Len(b) : (a \o b)[j] = IF j <= Len(a) THEN a[j] ELSE b[j - Len(a)]
  BY <1>2, ConcatProperties
<1>7. Len(a) + Len(b) = n - 1
  BY <1>1, <1>2
<1> HIDE DEF n
<1>8. ASSUME NEW j \in 1 .. n - 1 PROVE (a \o b)[j] = streams[IF j < i THEN j ELSE j + 1]
  <2>1. (a \o b)[j] = IF j <= i - 1 THEN a[j] ELSE b[j - (i - 1)]
    BY <1>2, <1>6, <1>7
  <2>2. i \in 1 .. n
    BY DEF n
  <2>3. CASE j < i
    <3>1. j <= i - 1 /\ j \in 1 .. i - 1
      BY <1>1, <2>2, <2>3
    <3> QED
      BY <1>2, <2>1, <2>3, <3>1
  <2>4. CASE ~(j < i)
    <3> DEFINE k == j - (i - 1)
    <3>1. ~(j <= i - 1) /\ k \in 1 .. n - i /\ i + k = j + 1
      BY <1>1, <2>2, <2>4
    <3> HIDE DEF k
    <3>2. b[k] = streams[j + 1]
      BY <1>2, <3>1
    <3>3. (a \o b)[j] = b[k]
      BY <2>1, <3>1 DEF k
    <3> QED
      BY <2>4, <3>2, <3>3
  <2> QED
    BY <2>3, <2>4
<1> QED
  BY <1>3, <1>5, <1>6, <1>7, <1>8 DEF n

LEMMA SourcesLess ==
  ASSUME Typed, SourcesInv, UNCHANGED inputVars, NEW i \in 1 .. Len(streams),
         streams[i].chunks = <<>>, streams' = RemoveAt(streams, i), CountEnd(streams[i].source)
  PROVE  /\ \A j, k \in DOMAIN streams' :
               streams'[j].source = streams'[k].source => j = k \/ streams'[j].source = NoStream
         /\ \A s \in DOMAIN inp : EndedSource(s)' <=> EndedSource(s) \/ s = streams[i].source
         /\ read' # 0 <=> \E s \in DOMAIN inp : EndedSource(s)' /\ inp[s].last = "read"
         /\ skipped' = {s \in DOMAIN inp : EndedSource(s)' /\ inp[s].last = "skipped"}
         /\ read' \in Nat /\ skipped' \subseteq DOMAIN inp
<1> DEFINE src == streams[i].source
           n == Len(streams)
           F(j) == IF j < i THEN j ELSE j + 1
<1>1. streams \in Seq(StreamType) /\ n \in Nat /\ DOMAIN streams = 1 .. n
      /\ src \in {NoStream} \cup DOMAIN inp
  <2>1. streams \in Seq(StreamType) /\ n \in Nat /\ DOMAIN streams = 1 .. n
    BY LenProperties DEF Typed
  <2>2. streams[i] \in StreamType
    BY <2>1, ElementOfSeq
  <2> QED
    BY <2>1, <2>2 DEF StreamType
<1>2. /\ streams' \in Seq(StreamType) /\ Len(streams') = n - 1
      /\ \A j \in 1 .. Len(streams') : streams'[j] = streams[F(j)]
  BY StreamGone
<1>3. DOMAIN streams' = 1 .. n - 1
  BY <1>2, LenProperties
<1>4. /\ \A j \in 1 .. n - 1 : F(j) \in 1 .. n /\ F(j) # i
      /\ \A j, k \in 1 .. n - 1 : F(j) = F(k) => j = k
      /\ \A k \in 1 .. n : k # i => \E j \in 1 .. n - 1 : F(j) = k
  <2>1. i \in 1 .. n
    OBVIOUS
  <2>2. \A j \in 1 .. n - 1 : F(j) \in 1 .. n /\ F(j) # i
    BY <1>1, <2>1
  <2>3. \A j, k \in 1 .. n - 1 : F(j) = F(k) => j = k
    BY <1>1, <2>1
  <2>4. ASSUME NEW k \in 1 .. n, k # i PROVE \E j \in 1 .. n - 1 : F(j) = k
    <3>1. CASE k < i
      <4>1. k \in 1 .. n - 1 /\ F(k) = k
        BY <1>1, <2>1, <3>1
      <4> QED
        BY <4>1
    <3>2. CASE k > i
      <4>1. k - 1 \in 1 .. n - 1 /\ F(k - 1) = k
        BY <1>1, <2>1, <3>2
      <4> QED
        BY <4>1
    <3> QED
      BY <1>1, <2>1, <2>4, <3>1, <3>2
  <2> QED
    BY <2>2, <2>3, <2>4
<1>5. \A j, k \in 1 .. n : streams[j].source = streams[k].source => j = k \/ streams[j].source = NoStream
  BY <1>1 DEF SourcesInv
<1> HIDE DEF F, n
<1>6. \A j, k \in DOMAIN streams' :
         streams'[j].source = streams'[k].source => j = k \/ streams'[j].source = NoStream
  <2> SUFFICES ASSUME NEW j \in 1 .. n - 1, NEW k \in 1 .. n - 1,
                      streams'[j].source = streams'[k].source
               PROVE  j = k \/ streams'[j].source = NoStream
    BY <1>3
  <2>1. streams'[j] = streams[F(j)] /\ streams'[k] = streams[F(k)]
    BY <1>2
  <2>2. F(j) \in 1 .. n /\ F(k) \in 1 .. n /\ (F(j) = F(k) => j = k)
    BY <1>4
  <2>3. F(j) = F(k) \/ streams[F(j)].source = NoStream
    BY <1>5, <2>1, <2>2
  <2> QED
    BY <2>1, <2>2, <2>3
<1>7. \A s : EndedSource(s)' <=> \A j \in 1 .. n - 1 : streams[F(j)].source # s
  BY <1>2, <1>3 DEF EndedSource, n
<1>8. ASSUME NEW s \in DOMAIN inp PROVE EndedSource(s)' <=> EndedSource(s) \/ s = src
  <2>1. EndedSource(s) <=> \A k \in 1 .. n : streams[k].source # s
    BY <1>1 DEF EndedSource, n
  <2>2. ASSUME EndedSource(s) PROVE EndedSource(s)'
    BY <1>4, <1>7, <2>1, <2>2
  <2>3. ASSUME s = src PROVE EndedSource(s)'
    <3>1. s # NoStream
      BY InputFacts DEF Typed
    <3>2. i \in 1 .. n
      BY DEF n
    <3>3. \A k \in 1 .. n : k # i => streams[k].source # s
      BY <1>5, <2>3, <3>1, <3>2
    <3> QED
      BY <1>4, <1>7, <3>3
  <2>4. ASSUME EndedSource(s)', s # src PROVE EndedSource(s)
    <3> SUFFICES ASSUME NEW k \in 1 .. n PROVE streams[k].source # s
      BY <2>1
    <3>1. CASE k = i
      BY <2>4, <3>1
    <3>2. CASE k # i
      BY <1>4, <1>7, <2>4, <3>2
    <3> QED
      BY <3>1, <3>2
  <2> QED
    BY <2>2, <2>3, <2>4
<1>9. /\ read \in Nat /\ skipped \subseteq DOMAIN inp
      /\ read # 0 <=> \E s \in DOMAIN inp : EndedSource(s) /\ inp[s].last = "read"
      /\ skipped = {s \in DOMAIN inp : EndedSource(s) /\ inp[s].last = "skipped"}
  BY DEF Typed, SourcesInv
<1>10. src # NoStream <=> src \in DOMAIN inp
  BY <1>1, InputFacts DEF Typed
<1>11. /\ read' = IF src # NoStream /\ inp[src].last = "read" THEN read + 1 ELSE read
       /\ skipped' = IF src # NoStream /\ inp[src].last = "skipped" THEN skipped \cup {src} ELSE skipped
  BY DEF CountEnd
<1> HIDE DEF src
<1>12. read' # 0 <=> \E s \in DOMAIN inp : EndedSource(s)' /\ inp[s].last = "read"
  <2>1. CASE src \in DOMAIN inp /\ inp[src].last = "read"
    <3>1. read' # 0
      BY <1>9, <1>10, <1>11, <2>1
    <3>2. \A s \in DOMAIN inp : s = src => EndedSource(s)'
      BY <1>8
    <3>3. \E s \in DOMAIN inp : EndedSource(s)' /\ inp[s].last = "read"
      BY <2>1, <3>2
    <3> QED
      BY <3>1, <3>3
  <2>2. CASE ~(src \in DOMAIN inp /\ inp[src].last = "read")
    <3>1. read' = read
      BY <1>10, <1>11, <2>2
    <3>2. \A s \in DOMAIN inp : inp[s].last = "read" => (EndedSource(s)' <=> EndedSource(s))
      BY <1>8, <2>2
    <3> QED
      BY <1>9, <3>1, <3>2
  <2> QED
    BY <2>1, <2>2
<1>13. ASSUME NEW s
       PROVE  s \in skipped' <=> s \in DOMAIN inp /\ EndedSource(s)' /\ inp[s].last = "skipped"
  BY <1>8, <1>9, <1>10, <1>11
<1>14. skipped' = {s \in DOMAIN inp : EndedSource(s)' /\ inp[s].last = "skipped"}
  BY <1>13
<1>15. read' \in Nat /\ skipped' \subseteq DOMAIN inp
  BY <1>9, <1>10, <1>11
<1> QED
  BY <1>6, <1>8, <1>12, <1>14, <1>15 DEF src

-----------------------------------------------------------------------------
\* The steps of the sample.

LEMMA SampleStep ==
  ASSUME LayerInv, UNCHANGED <<inputVars, poolVars, batchVars>>, phase # "read", phase' # "read",
         Typed', SourcesInv', SampleInv'
  PROVE  LayerInv'
<1>1. GivenInv' /\ EndInv' /\ ReportInv'
  BY KeepRest
<1>2. NotBefore'
  BY DEF LayerInv, NotBefore, poolVars, batchVars
<1>3. TakenInv'
  BY DEF TakenInv
<1> QED
  BY <1>1, <1>2, <1>3 DEF LayerInv

\* What holds before the workers start.
LEMMA WhileSampling ==
  ASSUME LayerInv, Sampling
  PROVE  /\ phase # "read" /\ phase # "scan" /\ phase # "failed" /\ phase \in {"sample", "after"}
         /\ taken = <<>> /\ ~stopped /\ ToSet(taken) = {} /\ ~ended
         /\ sample.after = <<>> /\ ~sample.complete /\ sample.features <= Budget
         /\ (sample.chunks \o sample.after) \o Left = AllChunks
         /\ current => streams # <<>>
         /\ \A s \in DOMAIN inp : ~(EndedSource(s) /\ Fails(s))
<1>1. phase \in {"sample", "after"}
  BY DEF Sampling
<1>2. taken = <<>> /\ ~stopped
  BY <1>1 DEF LayerInv, NotBefore
<1>3. ToSet(taken) = {}
  BY <1>2 DEF ToSet
<1>4. \A s \in DOMAIN inp : ~(EndedSource(s) /\ Fails(s))
  BY <1>1, <1>3 DEF LayerInv, SourcesInv
<1>5. /\ sample.after = <<>> /\ ~sample.complete /\ sample.features <= Budget /\ ~ended
      /\ (sample.chunks \o sample.after) \o Left = AllChunks
      /\ current => streams # <<>>
  BY <1>1 DEF LayerInv, SampleInv, Sampling
<1> QED
  BY <1>1, <1>2, <1>3, <1>4, <1>5

LEMMA SampleOpenInv == ASSUME LayerInv, SampleOpen PROVE LayerInv'
<1>1. /\ Typed /\ SourcesInv /\ SampleInv
      /\ UNCHANGED <<inputVars, phase, streams, ended, read, skipped, sample, poolVars, batchVars>>
      /\ current' = TRUE /\ streams # <<>>
  BY DEF LayerInv, SampleOpen
<1>2. phase # "read" /\ phase # "scan"
  BY WhileSampling DEF SampleOpen
<1>3. Typed'
  BY <1>1 DEF Typed, StreamType, BatchType, Ids, inputVars, poolVars, batchVars
<1>4. SourcesInv'
  <2>1. UNCHANGED <<inp, phase, streams, ended, read, skipped, taken, stopped>>
    BY <1>1 DEF inputVars, poolVars
  <2> QED
    BY <1>1, <2>1, KeepSources
<1>5. SampleInv'
  <2>1. AllChunks' = AllChunks /\ Left' = Left
    BY <1>1, SameInput DEF Left
  <2> QED
    BY <1>1, <2>1 DEF SampleInv, Sampling
<1> QED
  BY <1>1, <1>2, <1>3, <1>4, <1>5, SampleStep

LEMMA Associative ==
  ASSUME NEW S, NEW x \in Seq(S), NEW y \in Seq(S), NEW z \in Seq(S)
  PROVE  (x \o y) \o z = x \o (y \o z)
BY ConcatAssociative

LEMMA IdsAssociative ==
  ASSUME NEW x \in Seq(Ids), NEW y \in Seq(Ids), NEW z \in Seq(Ids)
  PROVE  SameEitherWay(x, y, z)
BY Associative DEF SameEitherWay

LEMMA SampleChunkInv == ASSUME LayerInv, SampleChunk PROVE LayerInv'
<1> DEFINE id == Head(streams[1].chunks)
           features == sample.features + Len(Chunk(id).features)
           bytes == sample.bytes + Chunk(id).bytes
<1>1. /\ Sampling /\ current /\ streams[1].chunks # <<>>
      /\ streams' = [streams EXCEPT ![1].chunks = Tail(@)]
      /\ \/ /\ phase = "sample"
            /\ sample' = [sample EXCEPT !.chunks = Append(@, id), !.features = features,
                                        !.bytes = bytes]
            /\ phase' = WhereNext(features, bytes)
         \/ /\ phase = "after"
            /\ sample' = [sample EXCEPT !.after = <<id>>]
            /\ phase' = "scan"
      /\ UNCHANGED <<inputVars, current, ended, read, skipped, poolVars, batchVars>>
  BY DEF SampleChunk
<1>2. Typed /\ SourcesInv
  BY DEF LayerInv
<1>3. /\ phase # "read" /\ phase # "failed" /\ taken = <<>> /\ ~stopped /\ ToSet(taken) = {} /\ ~ended
      /\ sample.after = <<>> /\ ~sample.complete /\ sample.features <= Budget
      /\ (sample.chunks \o sample.after) \o Left = AllChunks
      /\ streams # <<>>
  BY <1>1, WhileSampling
<1>4. 1 \in 1 .. Len(streams)
  <2>1. streams \in Seq(StreamType) /\ Len(streams) \in Nat
    BY <1>2, LenProperties DEF Typed
  <2>2. Len(streams) # 0
    BY <1>3, <2>1, EmptySeq
  <2> QED
    BY <2>1, <2>2
<1>5. UNCHANGED inputVars
  BY <1>1
<1>6. /\ id \in Ids
      /\ streams' \in Seq(StreamType) /\ Len(streams') = Len(streams)
      /\ \A j \in 1 .. Len(streams) : streams'[j].source = streams[j].source
      /\ \E a, b \in Seq(Ids) : Left = a \o (<<id>> \o b) /\ Left' = a \o b /\ a = <<>>
  BY <1>1, <1>2, <1>4, <1>5, StreamGives
<1>7. PICK b \in Seq(Ids) : Left = <<id>> \o b /\ Left' = b
  <2>1. PICK a \in Seq(Ids), b \in Seq(Ids) : Left = a \o (<<id>> \o b) /\ Left' = a \o b /\ a = <<>>
    BY <1>6
  <2>2. \A s \in Seq(Ids) : <<>> \o s = s
    BY ConcatEmptySeq
  <2>3. <<id>> \o b \in Seq(Ids)
    <3>1. <<id>> \in Seq(Ids)
      BY <1>6
    <3> QED
      BY <3>1, ConcatProperties
  <2> QED
    BY <2>1, <2>2, <2>3
<1>8. Chunk(id) \in ChunkType
  <2>1. inp \in Inputs
    BY <1>2 DEF Typed
  <2>2. id[1] \in DOMAIN inp /\ id[2] \in DOMAIN inp[id[1]].chunks
    BY <1>6, <2>1, NoIdIsOther
  <2>3. inp[id[1]].chunks \in Seq(ChunkType)
    BY <2>1, <2>2, InputFacts
  <2> HIDE DEF id
  <2> QED
    BY <2>2, <2>3, LenProperties, ElementOfSeq DEF Chunk
<1>9. /\ sample \in [chunks : Seq(Ids), features : Nat, bytes : Nat, complete : BOOLEAN,
                     after : Seq(Ids)]
      /\ features \in Nat /\ bytes \in Nat /\ sample.chunks \in Seq(Ids)
  <2>1. Len(Chunk(id).features) \in Nat /\ Chunk(id).bytes \in Nat
    <3> HIDE DEF id
    <3> QED
      BY <1>8, LenProperties DEF ChunkType
  <2>2. sample \in [chunks : Seq(Ids), features : Nat, bytes : Nat, complete : BOOLEAN,
                    after : Seq(Ids)]
    BY <1>2 DEF Typed
  <2>3. sample.features \in Nat /\ sample.bytes \in Nat /\ sample.chunks \in Seq(Ids)
    BY <2>2
  <2> QED
    BY <2>1, <2>2, <2>3
<1> HIDE DEF id, features, bytes
<1>10. Append(sample.chunks, id) \in Seq(Ids) /\ <<id>> \in Seq(Ids) /\ <<id>> # <<>>
  BY <1>6, <1>9, AppendProperties
<1> DEFINE Good ==
             /\ phase' \in {"sample", "after", "scan"}
             /\ sample' \in [chunks : Seq(Ids), features : Nat, bytes : Nat, complete : BOOLEAN,
                             after : Seq(Ids)]
             /\ (sample'.chunks \o sample'.after) \o Left' = AllChunks
             /\ ~sample'.complete
             /\ phase' = "scan" => sample'.features > Budget \/ sample'.after # <<>>
             /\ phase' # "scan" => sample'.after = <<>> /\ sample'.features <= Budget
<1>11. ASSUME phase = "sample" PROVE Good
  <2>1. /\ sample' = [sample EXCEPT !.chunks = Append(@, id), !.features = features, !.bytes = bytes]
        /\ phase' = WhereNext(features, bytes)
    BY <1>1, <1>11
  <2>2. /\ sample' \in [chunks : Seq(Ids), features : Nat, bytes : Nat, complete : BOOLEAN,
                        after : Seq(Ids)]
        /\ sample'.chunks = Append(sample.chunks, id) /\ sample'.features = features
        /\ sample'.after = <<>> /\ ~sample'.complete
    BY <1>3, <1>9, <1>10, <2>1
  <2>3. /\ phase' \in {"sample", "after", "scan"}
        /\ phase' = "scan" => features > Budget
        /\ phase' # "scan" => features <= Budget
    BY <1>9, <2>1, LayerAssumption DEF WhereNext
  <2>4. Append(sample.chunks, id) \o <<>> = Append(sample.chunks, id) /\ sample.chunks \o <<>> = sample.chunks
    BY <1>9, <1>10, ConcatEmptySeq
  <2>5. Append(sample.chunks, id) \o b = sample.chunks \o (<<id>> \o b)
    <3>1. Append(sample.chunks, id) = sample.chunks \o <<id>>
      BY <1>6, <1>9, AppendIsConcat
    <3>2. (sample.chunks \o <<id>>) \o b = sample.chunks \o (<<id>> \o b)
      BY <1>9, <1>10, Associative
    <3> QED
      BY <3>1, <3>2
  <2>6. (sample'.chunks \o sample'.after) \o Left' = AllChunks
    BY <1>3, <1>7, <2>2, <2>4, <2>5
  <2> QED
    BY <1>9, <2>2, <2>3, <2>6, LayerAssumption
<1>12. ASSUME phase = "after" PROVE Good
  <2>1. sample' = [sample EXCEPT !.after = <<id>>] /\ phase' = "scan"
    BY <1>1, <1>12
  <2>2. /\ sample' \in [chunks : Seq(Ids), features : Nat, bytes : Nat, complete : BOOLEAN,
                        after : Seq(Ids)]
        /\ sample'.chunks = sample.chunks /\ sample'.after = <<id>> /\ ~sample'.complete
    BY <1>3, <1>9, <1>10, <2>1
  <2>3. (sample.chunks \o <<id>>) \o b = sample.chunks \o (<<id>> \o b)
    BY <1>9, <1>10, Associative
  <2>4. sample.chunks \o <<>> = sample.chunks
    BY <1>9, ConcatEmptySeq
  <2>5. (sample'.chunks \o sample'.after) \o Left' = AllChunks
    BY <1>3, <1>7, <2>2, <2>3, <2>4
  <2> QED
    BY <1>10, <2>1, <2>2, <2>5
<1>13. Good
  <2>1. phase = "sample" \/ phase = "after"
    BY <1>1 DEF Sampling
  <2> QED
    BY <1>11, <1>12, <2>1
<1>14. /\ Ids' = Ids /\ StreamType' = StreamType /\ AllChunks' = AllChunks /\ ordered' = ordered
       /\ inp' = inp /\ onError' = onError
  BY <1>5, SameInput
<1>15. UNCHANGED <<current, ended, read, skipped, taken, working, done, stopped, report,
                   open, buffered, ready, caller, out>>
  BY <1>1 DEF poolVars, batchVars
<1>16. Typed'
  BY <1>2, <1>6, <1>13, <1>14, <1>15 DEF Typed, BatchType
<1>17. SourcesInv'
  <2>1. DOMAIN streams' = DOMAIN streams
    BY <1>2, <1>6, LenProperties DEF Typed
  <2>2. DOMAIN streams = 1 .. Len(streams)
    BY <1>2, LenProperties DEF Typed
  <2>3. \A s : EndedSource(s)' <=> EndedSource(s)
    BY <1>6, <2>1, <2>2 DEF EndedSource
  <2>4. \A i, j \in DOMAIN streams' :
           streams'[i].source = streams'[j].source => i = j \/ streams'[i].source = NoStream
    BY <1>2, <1>6, <2>1, <2>2 DEF SourcesInv
  <2>5. ToSet(taken') = {} /\ ~ended' /\ ~stopped' /\ read' = read /\ skipped' = skipped
    BY <1>3, <1>15
  <2>6. \A s \in DOMAIN inp : ~(EndedSource(s) /\ Fails(s))
    BY <1>1, WhileSampling
  <2>7. \A s : Fails(s)' <=> Fails(s)
    BY <1>14 DEF Fails
  <2> QED
    BY <1>2, <1>14, <2>3, <2>4, <2>5, <2>6, <2>7 DEF SourcesInv
<1>18. SampleInv'
  <2>1. streams' # <<>>
    BY <1>2, <1>4, <1>6, EmptySeq
  <2> QED
    BY <1>3, <1>13, <1>14, <1>15, <2>1 DEF SampleInv, Sampling
<1>19. phase' # "read"
  BY <1>13
<1> QED
  BY <1>1, <1>3, <1>16, <1>17, <1>18, <1>19, SampleStep

LEMMA SampleSourceEndsInv == ASSUME LayerInv, SampleSourceEnds PROVE LayerInv'
<1> DEFINE source == streams[1].source
<1>1. /\ Sampling /\ current /\ streams[1].chunks = <<>>
      /\ streams' = Tail(streams)
      /\ current' = FALSE
      /\ CountEnd(source)
      /\ phase' = IF Fails(source) THEN "failed" ELSE phase
      /\ UNCHANGED <<inputVars, ended, sample, poolVars, batchVars>>
  BY DEF SampleSourceEnds
<1>2. Typed /\ SourcesInv
  BY DEF LayerInv
<1>3. /\ phase # "read" /\ phase # "scan" /\ phase # "failed" /\ phase \in {"sample", "after"}
      /\ taken = <<>> /\ ~stopped /\ ToSet(taken) = {} /\ ~ended
      /\ sample.after = <<>> /\ ~sample.complete /\ sample.features <= Budget
      /\ (sample.chunks \o sample.after) \o Left = AllChunks
      /\ streams # <<>>
      /\ \A s \in DOMAIN inp : ~(EndedSource(s) /\ Fails(s))
  BY <1>1, WhileSampling
<1>4. streams \in Seq(StreamType)
  BY <1>2 DEF Typed
<1>5. 1 \in 1 .. Len(streams)
  <2>1. Len(streams) \in Nat /\ Len(streams) # 0
    BY <1>3, <1>4, EmptySeq, LenProperties
  <2> QED
    BY <2>1
<1>6. streams' = RemoveAt(streams, 1)
  BY <1>1, <1>3, <1>4, TailIsRemoveAt
<1>7. UNCHANGED inputVars
  BY <1>1
<1>8. streams' \in Seq(StreamType) /\ Left' = Left
  BY <1>1, <1>2, <1>5, <1>6, <1>7, StreamGone
<1>9. /\ \A j, k \in DOMAIN streams' :
            streams'[j].source = streams'[k].source => j = k \/ streams'[j].source = NoStream
      /\ \A s \in DOMAIN inp : EndedSource(s)' <=> EndedSource(s) \/ s = source
      /\ read' # 0 <=> \E s \in DOMAIN inp : EndedSource(s)' /\ inp[s].last = "read"
      /\ skipped' = {s \in DOMAIN inp : EndedSource(s)' /\ inp[s].last = "skipped"}
      /\ read' \in Nat /\ skipped' \subseteq DOMAIN inp
  BY <1>1, <1>2, <1>5, <1>6, <1>7, SourcesLess
<1> HIDE DEF source
<1>10. /\ Ids' = Ids /\ StreamType' = StreamType /\ AllChunks' = AllChunks /\ ordered' = ordered
       /\ inp' = inp /\ onError' = onError
  BY <1>7, SameInput
<1>11. UNCHANGED <<ended, sample, taken, working, done, stopped, report, open, buffered, ready,
                   caller, out>>
  BY <1>1 DEF poolVars, batchVars
<1>12. phase' = "failed" \/ (phase' = phase /\ ~Fails(source))
  BY <1>1
<1>13. Typed'
  BY <1>1, <1>2, <1>8, <1>9, <1>10, <1>11, <1>12 DEF Typed, BatchType
<1>14. SourcesInv'
  <2>1. \A s : Fails(s)' <=> Fails(s)
    BY <1>10 DEF Fails
  <2>2. ToSet(taken') = {} /\ ~ended' /\ ~stopped'
    BY <1>3, <1>11
  <2>3. \A s \in DOMAIN inp' : EndedSource(s)' /\ Fails(s)' => phase' = "failed"
    BY <1>3, <1>9, <1>10, <1>12, <2>1
  <2> QED
    BY <1>9, <1>10, <2>2, <2>3 DEF SourcesInv
<1>15. SampleInv'
  BY <1>1, <1>3, <1>8, <1>10, <1>11, <1>12 DEF SampleInv, Sampling
<1>16. phase' # "read"
  BY <1>3, <1>12
<1> QED
  BY <1>1, <1>3, <1>13, <1>14, <1>15, <1>16, SampleStep

LEMMA SampleEndsInv == ASSUME LayerInv, SampleEnds PROVE LayerInv'
<1>1. /\ Sampling /\ ~current /\ streams = <<>> /\ ended' = TRUE
      /\ \/ AllSkipped /\ phase' = "failed" /\ UNCHANGED sample
         \/ /\ ~AllSkipped
            /\ phase' = "scan"
            /\ sample' = [sample EXCEPT !.complete = TRUE]
      /\ UNCHANGED <<inputVars, streams, current, read, skipped, poolVars, batchVars>>
  BY DEF SampleEnds
<1>2. Typed /\ SourcesInv
  BY DEF LayerInv
<1>3. /\ phase # "read" /\ phase # "scan" /\ phase # "failed"
      /\ taken = <<>> /\ ~stopped /\ ToSet(taken) = {}
      /\ sample.after = <<>> /\ sample.features <= Budget
      /\ (sample.chunks \o sample.after) \o Left = AllChunks
      /\ \A s \in DOMAIN inp : ~(EndedSource(s) /\ Fails(s))
  BY <1>1, WhileSampling
<1>4. /\ Ids' = Ids /\ StreamType' = StreamType /\ AllChunks' = AllChunks /\ ordered' = ordered
      /\ inp' = inp /\ onError' = onError /\ Left' = Left
  BY <1>1, SameInput DEF Left
<1>5. UNCHANGED <<streams, current, read, skipped, taken, working, done, stopped, report, open,
                  buffered, ready, caller, out>>
  BY <1>1 DEF poolVars, batchVars
<1>6. sample \in [chunks : Seq(Ids), features : Nat, bytes : Nat, complete : BOOLEAN, after : Seq(Ids)]
  BY <1>2 DEF Typed
<1>7. /\ sample' \in [chunks : Seq(Ids), features : Nat, bytes : Nat, complete : BOOLEAN,
                      after : Seq(Ids)]
      /\ sample'.chunks = sample.chunks /\ sample'.after = sample.after
      /\ sample'.features = sample.features /\ (phase' = "scan" => sample'.complete)
  BY <1>1, <1>6
<1>8. phase' = "failed" \/ (phase' = "scan" /\ ~AllSkipped)
  BY <1>1
<1>9. Typed'
  BY <1>1, <1>2, <1>4, <1>5, <1>7, <1>8 DEF Typed, BatchType
<1>10. SourcesInv'
  <2>1. \A s : EndedSource(s)' /\ EndedSource(s)
    BY <1>1, EmptySeq DEF EndedSource
  <2>2. /\ \A s : Fails(s)' <=> Fails(s)
        /\ AllSkipped' <=> AllSkipped
    BY <1>4, <1>5 DEF Fails, AllSkipped
  <2>3. ToSet(taken') = {} /\ ~stopped'
    BY <1>3, <1>5
  <2>4. /\ \A i, j \in DOMAIN streams' :
             streams'[i].source = streams'[j].source => i = j \/ streams'[i].source = NoStream
        /\ read' # 0 <=> \E s \in DOMAIN inp' : EndedSource(s)' /\ inp'[s].last = "read"
        /\ skipped' = {s \in DOMAIN inp' : EndedSource(s)' /\ inp'[s].last = "skipped"}
    BY <1>2, <1>4, <1>5, <2>1 DEF SourcesInv
  <2>5. ended' => /\ \A s \in DOMAIN inp' : EndedSource(s)'
                  /\ phase' # "failed" => ~AllSkipped'
    BY <1>8, <2>1, <2>2
  <2> QED
    BY <1>3, <1>4, <2>1, <2>2, <2>3, <2>4, <2>5 DEF SourcesInv
<1>11. SampleInv'
  BY <1>1, <1>3, <1>4, <1>5, <1>7, <1>8 DEF SampleInv, Sampling
<1>12. phase' # "read"
  BY <1>8
<1> QED
  BY <1>1, <1>3, <1>9, <1>10, <1>11, <1>12, SampleStep

\* What is left after the sample: its chunks, then what the streams still have.
LEMMA RestLeft ==
  ASSUME Typed, UNCHANGED inputVars, current => streams # <<>>,
         \A i, j \in DOMAIN streams :
            streams[i].source = streams[j].source => i = j \/ streams[i].source = NoStream,
         NEW cs \in Seq(Ids), streams' = Rest(cs)
  PROVE  /\ streams' \in Seq(StreamType) /\ Left' = cs \o Left
         /\ \A s \in DOMAIN inp : EndedSource(s)' <=> EndedSource(s)
         /\ \A i, j \in DOMAIN streams' :
               streams'[i].source = streams'[j].source => i = j \/ streams'[i].source = NoStream
<1>1. streams \in Seq(StreamType) /\ Len(streams) \in Nat /\ DOMAIN streams = 1 .. Len(streams)
  BY LenProperties DEF Typed
<1>2. ChunksIn' = ChunksIn
  BY SameInput
<1>3. Left \in Seq(Ids)
  BY LeftTyped
<1>4. \A s \in DOMAIN inp : s # NoStream
  BY InputFacts DEF Typed
<1>5. CASE current
  <2> DEFINE st == streams[1]
             new == [source |-> st.source, chunks |-> cs \o st.chunks]
             after == Mapped(ChunksIn, SubSeq(streams, 1 + 1, Len(streams)))
  <2>1. 1 \in 1 .. Len(streams)
    <3>1. Len(streams) # 0
      BY <1>1, <1>5, EmptySeq
    <3> QED
      BY <1>1, <3>1
  <2>2. st \in StreamType
    BY <1>1, <2>1, ElementOfSeq
  <2>3. st.chunks \in Seq(Ids) /\ st = [source |-> st.source, chunks |-> st.chunks]
        /\ st.source \in {NoStream} \cup DOMAIN inp
    BY <2>2 DEF StreamType
  <2>4. cs \o st.chunks \in Seq(Ids)
    <3> HIDE DEF st
    <3> QED
      BY <2>3, ConcatProperties
  <2>5. new \in StreamType /\ new.source = st.source /\ new.chunks = cs \o st.chunks
    BY <2>3, <2>4 DEF StreamType
  <2>6. streams' = [streams EXCEPT ![1] = new]
    <3>1. ASSUME NEW u, NEW v, NEW w
          PROVE  [[source |-> u, chunks |-> v] EXCEPT !.chunks = w] = [source |-> u, chunks |-> w]
      OBVIOUS
    <3>2. streams' = [streams EXCEPT ![1].chunks = cs \o st.chunks]
      BY <1>5 DEF Rest
    <3> DEFINE rec == [source |-> st.source, chunks |-> st.chunks]
    <3>3. [rec EXCEPT !.chunks = cs \o st.chunks] = new
      BY <3>1
    <3>4. streams[1] = rec
      BY <2>3
    <3> HIDE DEF rec
    <3>5. [streams[1] EXCEPT !.chunks = cs \o st.chunks] = new
      BY <3>3, <3>4, Zenon
    <3> QED
      BY <3>2, <3>5
  <2> HIDE DEF new
  <2>7. /\ streams' \in Seq(StreamType) /\ Len(streams') = Len(streams)
        /\ \A j \in 1 .. Len(streams) : streams'[j] = IF j = 1 THEN new ELSE streams[j]
    <3>1. ASSUME NEW x \in StreamType
          PROVE  /\ [streams EXCEPT ![1] = x] \in Seq(StreamType)
                 /\ Len([streams EXCEPT ![1] = x]) = Len(streams)
                 /\ \A j \in 1 .. Len(streams) :
                       [streams EXCEPT ![1] = x][j] = IF j = 1 THEN x ELSE streams[j]
      BY <1>1, <2>1, ExceptSeq
    <3>2. /\ [streams EXCEPT ![1] = new] \in Seq(StreamType)
          /\ Len([streams EXCEPT ![1] = new]) = Len(streams)
      BY <2>5, <3>1
    <3>3. ASSUME NEW j \in 1 .. Len(streams)
          PROVE  [streams EXCEPT ![1] = new][j] = IF j = 1 THEN new ELSE streams[j]
      BY <2>5, <3>1
    <3> QED
      BY <2>6, <3>2, <3>3, Zenon
  <2>8. /\ after \in Seq(Ids)
        /\ Mapped(ChunksIn, [streams EXCEPT ![1] = new]) = new.chunks \o after
        /\ Left = st.chunks \o after
    <3> DEFINE before == Mapped(ChunksIn, SubSeq(streams, 1, 1 - 1))
    <3>1. /\ before \in Seq(Ids) /\ after \in Seq(Ids) /\ before = <<>>
          /\ \A s \in StreamType :
               Mapped(ChunksIn, [streams EXCEPT ![1] = s]) = before \o (s.chunks \o after)
          /\ Left = before \o (st.chunks \o after)
      BY <1>1, <2>1, LeftAround DEF Left
    <3> HIDE DEF before, after, st
    <3>2. new.chunks \o after \in Seq(Ids) /\ st.chunks \o after \in Seq(Ids)
      BY <2>3, <2>4, <2>5, <3>1, ConcatProperties
    <3>3. <<>> \o (new.chunks \o after) = new.chunks \o after /\ <<>> \o (st.chunks \o after) = st.chunks \o after
      BY <3>2, ConcatEmptySeq
    <3> QED
      BY <2>5, <3>1, <3>3
  <2>9. Left' = cs \o Left
    <3>1. Left' = (cs \o st.chunks) \o after
      BY <1>2, <2>5, <2>6, <2>8 DEF Left
    <3> HIDE DEF after, st
    <3>2. (cs \o st.chunks) \o after = cs \o (st.chunks \o after)
      BY <2>3, <2>8, Associative
    <3> QED
      BY <2>8, <3>1, <3>2
  <2>10. DOMAIN streams' = 1 .. Len(streams)
    BY <2>7, LenProperties
  <2>11. \A j \in 1 .. Len(streams) : streams'[j].source = streams[j].source
    BY <2>5, <2>7
  <2>12. \A s \in DOMAIN inp : EndedSource(s)' <=> EndedSource(s)
    BY <1>1, <2>10, <2>11 DEF EndedSource
  <2> QED
    BY <1>1, <2>7, <2>9, <2>10, <2>11, <2>12
<1>6. CASE ~current /\ cs # <<>>
  <2> DEFINE new == [source |-> NoStream, chunks |-> cs]
  <2>1. new \in StreamType /\ new.source = NoStream /\ new.chunks = cs
    BY DEF StreamType
  <2>2. streams' = <<new>> \o streams
    BY <1>6 DEF Rest
  <2> HIDE DEF new
  <2>3. <<new>> \in Seq(StreamType) /\ Len(<<new>>) = 1 /\ <<new>>[1] = new
    BY <2>1
  <2>4. /\ <<new>> \o streams \in Seq(StreamType)
        /\ Len(<<new>> \o streams) = Len(<<new>>) + Len(streams)
        /\ \A j \in 1 .. Len(<<new>>) + Len(streams) :
              (<<new>> \o streams)[j] = IF j <= Len(<<new>>) THEN <<new>>[j]
                                        ELSE streams[j - Len(<<new>>)]
    BY <1>1, <2>3, ConcatProperties
  <2>5. streams' \in Seq(StreamType) /\ Len(streams') = 1 + Len(streams)
    BY <2>2, <2>3, <2>4
  <2>6. ASSUME NEW j \in 1 .. 1 + Len(streams)
        PROVE  streams'[j] = IF j <= 1 THEN new ELSE streams[j - 1]
    <3>1. j <= 1 => j = 1
      BY <1>1
    <3> QED
      BY <2>2, <2>3, <2>4, <3>1
  <2>7. DOMAIN streams' = 1 .. 1 + Len(streams)
    BY <2>5, LenProperties
  <2>8. Left' = cs \o Left
    <3>1. Mapped(ChunksIn, <<new>> \o streams) = Mapped(ChunksIn, <<new>>) \o Left
      <4>1. ASSUME NEW s \in Seq(StreamType), NEW t \in Seq(StreamType)
            PROVE  Mapped(ChunksIn, s \o t) = Mapped(ChunksIn, s) \o Mapped(ChunksIn, t)
        BY StreamFacts, MappedConcat
      <4> DEFINE one == <<new>>
      <4>2. one \in Seq(StreamType)
        BY <2>3
      <4> HIDE DEF one
      <4>3. Mapped(ChunksIn, one \o streams) = Mapped(ChunksIn, one) \o Mapped(ChunksIn, streams)
        BY <1>1, <4>1, <4>2
      <4> QED
        BY <4>3 DEF one, Left
    <3>2. Mapped(ChunksIn, <<new>>) = ChunksIn[new]
      BY <2>1, StreamFacts, MappedSingle
    <3> QED
      BY <1>2, <2>1, <2>2, <3>1, <3>2, StreamFacts DEF Left
  <2>9. ASSUME NEW s \in DOMAIN inp PROVE EndedSource(s)' <=> EndedSource(s)
    <3>1. EndedSource(s)' <=> \A j \in 1 .. 1 + Len(streams) : streams'[j].source # s
      BY <2>7 DEF EndedSource
    <3>2. EndedSource(s) <=> \A j \in 1 .. Len(streams) : streams[j].source # s
      BY <1>1 DEF EndedSource
    <3>3. ASSUME EndedSource(s), NEW j \in 1 .. 1 + Len(streams) PROVE streams'[j].source # s
      <4>1. CASE j <= 1
        BY <1>4, <2>1, <2>6, <4>1
      <4>2. CASE ~(j <= 1)
        <5>1. j - 1 \in 1 .. Len(streams)
          BY <1>1, <4>2
        <5> QED
          BY <2>6, <3>2, <3>3, <4>2, <5>1
      <4> QED
        BY <4>1, <4>2
    <3>4. ASSUME EndedSource(s)', NEW j \in 1 .. Len(streams) PROVE streams[j].source # s
      <4>1. j + 1 \in 1 .. 1 + Len(streams) /\ ~(j + 1 <= 1) /\ (j + 1) - 1 = j
        BY <1>1
      <4>2. streams'[j + 1] = streams[j]
        BY <2>6, <4>1
      <4> QED
        BY <3>1, <3>4, <4>1, <4>2
    <3> QED
      BY <3>1, <3>2, <3>3, <3>4
  <2>10. ASSUME NEW i \in 1 .. 1 + Len(streams), NEW j \in 1 .. 1 + Len(streams),
                streams'[i].source = streams'[j].source, streams'[i].source # NoStream
         PROVE  i = j
    <3>1. ~(i <= 1) /\ ~(j <= 1)
      BY <2>1, <2>6, <2>10
    <3>2. i - 1 \in 1 .. Len(streams) /\ j - 1 \in 1 .. Len(streams)
      BY <1>1, <3>1
    <3>3. streams'[i] = streams[i - 1] /\ streams'[j] = streams[j - 1]
      BY <2>6, <3>1
    <3>4. i - 1 = j - 1
      BY <1>1, <2>10, <3>2, <3>3
    <3> QED
      BY <3>4
  <2> QED
    BY <2>5, <2>7, <2>8, <2>9, <2>10
<1>7. CASE ~current /\ cs = <<>>
  <2>1. streams' = streams
    BY <1>7 DEF Rest
  <2>2. Left' = Left
    BY <1>2, <2>1 DEF Left
  <2>3. <<>> \o Left = Left
    BY <1>3, ConcatEmptySeq
  <2> QED
    BY <1>1, <1>7, <2>1, <2>2, <2>3 DEF EndedSource
<1> QED
  BY <1>5, <1>6, <1>7

LEMMA ScanInv == ASSUME LayerInv, Scan PROVE LayerInv'
<1>1. /\ phase = "scan"
      /\ \/ phase' = "failed" /\ UNCHANGED streams
         \/ phase' = "read" /\ streams' = Rest(sample.chunks \o sample.after)
      /\ UNCHANGED <<inputVars, current, ended, read, skipped, sample, poolVars, batchVars>>
  BY DEF Scan
<1>2. /\ Typed /\ SourcesInv /\ UNCHANGED inputVars
      /\ \A i, j \in DOMAIN streams :
            streams[i].source = streams[j].source => i = j \/ streams[i].source = NoStream
  BY <1>1 DEF LayerInv, SourcesInv
<1>3. /\ taken = <<>> /\ ~stopped
      /\ (sample.chunks \o sample.after) \o Left = AllChunks
      /\ current => streams # <<>>
  BY <1>1 DEF LayerInv, NotBefore, SampleInv
<1>4. ToSet(taken) = {}
  BY <1>3 DEF ToSet
<1>5. \A s \in DOMAIN inp : ~(EndedSource(s) /\ Fails(s))
  BY <1>1, <1>2, <1>4 DEF SourcesInv
<1>6. /\ Ids' = Ids /\ StreamType' = StreamType /\ AllChunks' = AllChunks /\ ordered' = ordered
      /\ inp' = inp /\ onError' = onError /\ Distinct' = Distinct
  BY <1>2, SameInput
<1>7. UNCHANGED <<current, ended, read, skipped, sample, taken, working, done, stopped, report, open,
                  buffered, ready, caller, out>>
  BY <1>1 DEF poolVars, batchVars
<1>8. sample.chunks \o sample.after \in Seq(Ids)
  <2>1. sample.chunks \in Seq(Ids) /\ sample.after \in Seq(Ids)
    BY <1>2 DEF Typed
  <2> QED
    BY <2>1, ConcatProperties
<1>9. CASE phase' = "failed" /\ streams' = streams
  <2>1. Typed'
    BY <1>2, <1>6, <1>7, <1>9 DEF Typed, BatchType
  <2>2. SourcesInv'
    <3>1. /\ \A s : EndedSource(s)' <=> EndedSource(s)
          /\ \A s : Fails(s)' <=> Fails(s)
      BY <1>6, <1>9 DEF EndedSource, Fails
    <3>2. ToSet(taken') = {} /\ ~stopped' /\ UNCHANGED <<inp, streams, read, skipped, ended>>
      BY <1>3, <1>4, <1>6, <1>7, <1>9
    <3> QED
      BY <1>2, <1>9, <3>1, <3>2 DEF SourcesInv
  <2>3. SampleInv'
    BY <1>9 DEF SampleInv, Sampling
  <2> QED
    BY <1>1, <1>9, <2>1, <2>2, <2>3, SampleStep
<1>10. CASE phase' = "read" /\ streams' = Rest(sample.chunks \o sample.after)
  <2>1. /\ streams' \in Seq(StreamType) /\ Left' = (sample.chunks \o sample.after) \o Left
        /\ \A s \in DOMAIN inp : EndedSource(s)' <=> EndedSource(s)
        /\ \A i, j \in DOMAIN streams' :
              streams'[i].source = streams'[j].source => i = j \/ streams'[i].source = NoStream
    BY <1>2, <1>3, <1>8, <1>10, RestLeft
  <2>2. Typed'
    BY <1>2, <1>6, <1>7, <1>10, <2>1 DEF Typed, BatchType
  <2>3. SourcesInv'
    <3>1. /\ \A s : Fails(s)' <=> Fails(s)
          /\ AllSkipped' <=> AllSkipped
      BY <1>6, <1>7 DEF Fails, AllSkipped
    <3>2. ToSet(taken') = {} /\ ~stopped' /\ UNCHANGED <<inp, read, skipped, ended>>
      BY <1>3, <1>4, <1>6, <1>7
    <3>3. ended' => /\ \A s \in DOMAIN inp : EndedSource(s)'
                    /\ ~AllSkipped'
      BY <1>1, <1>2, <2>1, <3>1, <3>2 DEF SourcesInv
    <3> QED
      BY <1>2, <1>5, <2>1, <3>1, <3>2, <3>3 DEF SourcesInv
  <2>4. SampleInv'
    BY <1>10 DEF SampleInv, Sampling
  <2>5. TakenInv'
    <3>1. AllChunks \in Seq(Ids) /\ Rising(AllChunks, Distinct) /\ ToSet(AllChunks) = Ids
      BY <1>2, AllChunksFacts DEF Typed
    <3>2. Left' = AllChunks /\ <<>> \o AllChunks = AllChunks
      BY <1>3, <2>1, <3>1, ConcatEmptySeq
    <3>3. taken' = <<>>
      BY <1>3, <1>7
    <3>4. TakenAs(<<>>)'
      BY <1>6, <3>1, <3>2, <3>3 DEF TakenAs
    <3>5. <<>> \in Seq(Ids')
      BY EmptySeq
    <3> QED
      BY <3>4, <3>5 DEF TakenInv
  <2>6. GivenInv' /\ EndInv' /\ ReportInv'
    BY <1>1, KeepRest
  <2>7. NotBefore'
    BY <1>10 DEF NotBefore
  <2> QED
    BY <2>2, <2>3, <2>4, <2>5, <2>6, <2>7 DEF LayerInv
<1> QED
  BY <1>1, <1>9, <1>10

-----------------------------------------------------------------------------
\* The steps of the workers.

\* Each chunk is taken once.
LEMMA TakenOnce ==
  ASSUME LayerInv
  PROVE  \A m, n \in DOMAIN taken :
            m # n /\ taken[m] \in Ids /\ taken[n] \in Ids => taken[m] # taken[n]
<1>1. taken \in Seq(Ids \cup Others) /\ inp \in Inputs /\ DOMAIN taken = 1 .. Len(taken)
  BY LenProperties DEF LayerInv, Typed
<1> SUFFICES ASSUME NEW m \in DOMAIN taken, NEW n \in DOMAIN taken,
                    m # n, taken[m] \in Ids, taken[n] \in Ids
             PROVE  taken[m] # taken[n]
  OBVIOUS
<1>2. taken # <<>>
  BY <1>1, EmptySeq
<1>3. phase = "read"
  BY <1>2 DEF LayerInv, NotBefore
<1>4. PICK cs \in Seq(Ids) : TakenAs(cs)
  BY <1>3 DEF LayerInv, TakenInv
<1>5. Left \in Seq(Ids)
  BY LeftTyped DEF LayerInv
<1>6. Rising(cs, Distinct)
  BY <1>4, <1>5, RisingConcat DEF TakenAs
<1>7. Len(cs) \in Nat /\ DOMAIN cs = 1 .. Len(cs)
  BY LenProperties
<1>8. m \in DOMAIN cs /\ n \in DOMAIN cs /\ taken[m] = cs[m] /\ taken[n] = cs[n]
  <2>1. CASE taken = cs
    BY <2>1
  <2>2. ASSUME NEW e \in Others, taken = Append(cs, e) 
        PROVE  m \in DOMAIN cs /\ n \in DOMAIN cs /\ taken[m] = cs[m] /\ taken[n] = cs[n]
    <3>1. cs \in Seq(Ids \cup Others)
      BY ElementOfSeq, <1>7
    <3>2. /\ Len(Append(cs, e)) = Len(cs) + 1
          /\ Append(cs, e)[Len(cs) + 1] = e
          /\ \A k \in 1 .. Len(cs) : Append(cs, e)[k] = cs[k]
      BY <3>1, AppendProperties
    <3>3. e \notin Ids
      BY <1>1, NoIdIsOther
    <3>4. m # Len(cs) + 1 /\ n # Len(cs) + 1
      BY <2>2, <3>2, <3>3
    <3>5. m \in 1 .. Len(cs) /\ n \in 1 .. Len(cs)
      BY <1>1, <1>7, <2>2, <3>2, <3>4
    <3> QED
      BY <1>7, <2>2, <3>2, <3>5
  <2> QED
    BY <1>4, <2>1, <2>2 DEF TakenAs
<1>9. m < n \/ n < m
  BY <1>1
<1>10. <<cs[m], cs[n]>> \in Distinct \/ <<cs[n], cs[m]>> \in Distinct
  BY <1>6, <1>8, <1>9 DEF Rising
<1> QED
  BY <1>8, <1>10 DEF Distinct

\* An item is taken: it is neither given nor counted.
LEMMA Taking ==
  ASSUME LayerInv, MayTake, NEW item \in Ids \cup Others, Take(item),
         UNCHANGED <<inputVars, batchVars>>
  PROVE  /\ taken \in Seq(Ids \cup Others) /\ Len(taken) \in Nat
         /\ taken' = Append(taken, item) /\ taken' \in Seq(Ids \cup Others)
         /\ Len(taken') = Len(taken) + 1 /\ DOMAIN taken' = 1 .. Len(taken) + 1
         /\ \A m \in DOMAIN taken : taken'[m] = taken[m]
         /\ ToSet(taken') = ToSet(taken) \cup {item}
         /\ working' \subseteq DOMAIN taken' /\ done' \subseteq DOMAIN taken' /\ working' \cap done' = {}
         /\ GivenInv' /\ EndInv' /\ ReportInv'
<1>1. /\ taken \in Seq(Ids \cup Others) /\ working \subseteq DOMAIN taken /\ done \subseteq DOMAIN taken
      /\ working \cap done = {}
  BY DEF LayerInv, Typed
<1>2. Len(taken) \in Nat /\ DOMAIN taken = 1 .. Len(taken)
  BY <1>1, LenProperties
<1> DEFINE next == Len(taken) + 1
<1>3. /\ taken' = Append(taken, item) /\ working' = working \cup {next} /\ done' = done
      /\ report' = report
  BY DEF Take
<1>4. /\ Append(taken, item) \in Seq(Ids \cup Others)
      /\ Len(Append(taken, item)) = Len(taken) + 1
      /\ \A m \in 1 .. Len(taken) : Append(taken, item)[m] = taken[m]
      /\ Append(taken, item)[Len(taken) + 1] = item
  BY <1>1, AppendProperties
<1>5. DOMAIN taken' = 1 .. Len(taken) + 1
  BY <1>3, <1>4, LenProperties
<1>6. /\ DOMAIN taken' = DOMAIN taken \cup {next} /\ next \notin DOMAIN taken
      /\ \A m \in DOMAIN taken : taken'[m] = taken[m]
      /\ taken'[next] = item
  BY <1>2, <1>3, <1>4, <1>5
<1> HIDE DEF next
<1>7. ToSet(taken') = ToSet(taken) \cup {item}
  BY <1>6 DEF ToSet
<1>8. working' \subseteq DOMAIN taken' /\ done' \subseteq DOMAIN taken' /\ working' \cap done' = {}
  BY <1>1, <1>3, <1>6
<1>9. /\ Ids' = Ids /\ Distinct' = Distinct /\ RowsIn' = RowsIn /\ Bad' = Bad /\ ordered' = ordered
      /\ AllChunks' = AllChunks
  BY SameInput
<1>10. UNCHANGED <<open, caller, ready, out, buffered>>
  BY DEF batchVars
<1>11. Sound' = Sound /\ Given' = Given /\ AllOk' = AllOk
  BY <1>10 DEF Sound, AllOk, Given
<1>12. Consumed' = Consumed /\ Consumed \subseteq DOMAIN taken
  BY <1>3, <1>6 DEF Consumed
<1>13. GivenInv'
  <2>1. PICK gs \in Seq(Ids), rest \in Seq(RowType) : GivenAs(gs, rest)
    BY DEF LayerInv, GivenInv
  <2>2. GivenAs(gs, rest)'
    <3>1. /\ Rising(gs, Distinct)'
          /\ (\A n \in DOMAIN gs : \E m \in Consumed : taken[m] = gs[n])'
          /\ (ordered => \E r \in Seq(Ids) : AllChunks = gs \o r)'
      BY <1>6, <1>9, <1>12, <2>1 DEF GivenAs
    <3>2. (Mapped(RowsIn, gs) = Given \o rest)'
      BY <1>9, <1>11, <2>1 DEF GivenAs
    <3>3. (Sound => /\ rest = <<>>
                    /\ \A m \in Consumed : taken[m] \in ToSet(gs) /\ taken[m] \notin Bad)'
      BY <1>6, <1>9, <1>11, <1>12, <2>1 DEF GivenAs
    <3>4. ASSUME ordered, open
          PROVE  /\ working' \cup done' = Len(gs) + 1 .. Len(taken')
                 /\ Len(gs) <= Len(taken') /\ \A n \in 1 .. Len(gs) : taken'[n] = gs[n]
      <4>1. /\ working \cup done = Len(gs) + 1 .. Len(taken) /\ Len(gs) <= Len(taken)
            /\ \A n \in 1 .. Len(gs) : taken[n] = gs[n]
        BY <2>1, <3>4 DEF GivenAs
      <4>2. Len(gs) \in Nat /\ Len(taken') = Len(taken) + 1
        BY <1>3, <1>4, LenProperties
      <4>3. working' \cup done' = Len(gs) + 1 .. Len(taken')
        <5>1. working' \cup done' = (working \cup done) \cup {next}
          BY <1>3
        <5>2. (Len(gs) + 1 .. Len(taken)) \cup {Len(taken) + 1} = Len(gs) + 1 .. Len(taken) + 1
          BY <1>2, <4>1, <4>2
        <5> QED
          BY <4>1, <4>2, <5>1, <5>2 DEF next
      <4>4. Len(gs) <= Len(taken')
        BY <1>2, <4>1, <4>2
      <4>5. \A n \in 1 .. Len(gs) : n \in DOMAIN taken
        BY <1>2, <4>1, <4>2
      <4>6. \A n \in 1 .. Len(gs) : taken'[n] = gs[n]
        BY <1>6, <4>1, <4>5
      <4> QED
        BY <4>3, <4>4, <4>6
    <3> QED
      BY <1>9, <1>10, <3>1, <3>2, <3>3, <3>4 DEF GivenAs
  <2> QED
    BY <1>9, <2>2 DEF GivenInv
<1>14. EndInv'
  <2>1. EndInv /\ ~stopped
    BY DEF LayerInv, MayTake
  <2> QED
    BY <1>10, <1>11, <2>1 DEF EndInv
<1>15. ReportInv'
  <2>1. (DOMAIN taken') \ working' = (DOMAIN taken) \ working
    BY <1>3, <1>6
  <2>2. Reported' = Reported
    BY <1>6, <1>9, <2>1 DEF Reported
  <2> QED
    BY <1>3, <2>2 DEF LayerInv, ReportInv
<1> QED
  BY <1>1, <1>2, <1>3, <1>4, <1>5, <1>6, <1>7, <1>8, <1>13, <1>14, <1>15

\* Moving the head of what is left to the end of what is taken loses and repeats nothing.
KeptAll(cs, a, id, b) ==
  /\ Append(cs, id) \in Seq(Ids)
  /\ ToSet(Append(cs, id) \o (a \o b)) = ToSet(cs \o (a \o (<<id>> \o b)))
  /\ Rising(cs \o (a \o (<<id>> \o b)), Distinct) => Rising(Append(cs, id) \o (a \o b), Distinct)
  /\ a = <<>> => Append(cs, id) \o (a \o b) = cs \o (a \o (<<id>> \o b))

LEMMA Moved ==
  ASSUME inp \in Inputs, NEW cs \in Seq(Ids), NEW a \in Seq(Ids), NEW id \in Ids, NEW b \in Seq(Ids)
  PROVE  KeptAll(cs, a, id, b)
<1> DEFINE one == <<id>>
<1>1. one \in Seq(Ids) /\ ToSet(one) = {id} /\ Rising(one, Distinct)
  BY RisingSingle DEF ToSet
<1>2. Append(cs, id) = cs \o one
  BY AppendIsConcat
<1> HIDE DEF one
<1>3. ASSUME NEW s \in Seq(Ids), NEW t \in Seq(Ids)
      PROVE  /\ s \o t \in Seq(Ids) /\ ToSet(s \o t) = ToSet(s) \cup ToSet(t)
             /\ Rising(s \o t, Distinct) <=> /\ Rising(s, Distinct) /\ Rising(t, Distinct)
                                             /\ \A x \in ToSet(s), y \in ToSet(t) : <<x, y>> \in Distinct
  <2>1. s \o t \in Seq(Ids)
    BY ConcatProperties
  <2>2. ToSet(s \o t) = ToSet(s) \cup ToSet(t)
    BY ConcatElements
  <2>3. Rising(s \o t, Distinct) <=> /\ Rising(s, Distinct) /\ Rising(t, Distinct)
                                     /\ \A x \in ToSet(s), y \in ToSet(t) : <<x, y>> \in Distinct
    BY RisingConcat
  <2> QED
    BY <2>1, <2>2, <2>3
<1> DEFINE u == one \o b
<1>4. /\ u \in Seq(Ids) /\ ToSet(u) = ToSet(one) \cup ToSet(b)
      /\ Rising(u, Distinct) <=>
            /\ Rising(one, Distinct) /\ Rising(b, Distinct)
            /\ \A p \in ToSet(one), q \in ToSet(b) : <<p, q>> \in Distinct
  BY <1>1, <1>3
<1> HIDE DEF u
<1> DEFINE v == a \o u
<1>5. /\ v \in Seq(Ids) /\ ToSet(v) = ToSet(a) \cup ToSet(u)
      /\ Rising(v, Distinct) <=>
            /\ Rising(a, Distinct) /\ Rising(u, Distinct)
            /\ \A p \in ToSet(a), q \in ToSet(u) : <<p, q>> \in Distinct
  BY <1>1, <1>3, <1>4
<1> HIDE DEF v
<1> DEFINE w == a \o b
<1>6. /\ w \in Seq(Ids) /\ ToSet(w) = ToSet(a) \cup ToSet(b)
      /\ Rising(w, Distinct) <=>
            /\ Rising(a, Distinct) /\ Rising(b, Distinct)
            /\ \A p \in ToSet(a), q \in ToSet(b) : <<p, q>> \in Distinct
  BY <1>1, <1>3
<1> HIDE DEF w
<1> DEFINE ds == cs \o one
<1>7. /\ ds \in Seq(Ids) /\ ToSet(ds) = ToSet(cs) \cup ToSet(one)
      /\ Rising(ds, Distinct) <=>
            /\ Rising(cs, Distinct) /\ Rising(one, Distinct)
            /\ \A p \in ToSet(cs), q \in ToSet(one) : <<p, q>> \in Distinct
  BY <1>1, <1>3
<1> HIDE DEF ds
<1> DEFINE from == cs \o v
<1>8. /\ from \in Seq(Ids) /\ ToSet(from) = ToSet(cs) \cup ToSet(v)
      /\ Rising(from, Distinct) <=>
            /\ Rising(cs, Distinct) /\ Rising(v, Distinct)
            /\ \A p \in ToSet(cs), q \in ToSet(v) : <<p, q>> \in Distinct
  BY <1>1, <1>3, <1>5
<1> HIDE DEF from
<1> DEFINE to == ds \o w
<1>9. /\ to \in Seq(Ids) /\ ToSet(to) = ToSet(ds) \cup ToSet(w)
      /\ Rising(to, Distinct) <=>
            /\ Rising(ds, Distinct) /\ Rising(w, Distinct)
            /\ \A p \in ToSet(ds), q \in ToSet(w) : <<p, q>> \in Distinct
  BY <1>1, <1>3, <1>6, <1>7
<1> HIDE DEF to
<1>10. ToSet(to) = ToSet(from)
  BY <1>4, <1>5, <1>6, <1>7, <1>8, <1>9
<1>11. ASSUME Rising(from, Distinct) PROVE Rising(to, Distinct)
  <2>1. /\ Rising(cs, Distinct) /\ Rising(v, Distinct)
        /\ \A x \in ToSet(cs), y \in ToSet(v) : <<x, y>> \in Distinct
    BY <1>8, <1>11
  <2>2. /\ Rising(a, Distinct) /\ Rising(u, Distinct)
        /\ \A x \in ToSet(a), y \in ToSet(u) : <<x, y>> \in Distinct
    BY <1>5, <2>1
  <2>3. Rising(b, Distinct) /\ \A y \in ToSet(b) : <<id, y>> \in Distinct
    BY <1>1, <1>4, <2>2
  <2>4. ToSet(v) = ToSet(a) \cup ({id} \cup ToSet(b)) /\ ToSet(u) = {id} \cup ToSet(b)
    BY <1>1, <1>4, <1>5
  <2>5. \A x, y : <<x, y>> \in Distinct <=> <<y, x>> \in Distinct
    BY DEF Distinct
  <2>6. Rising(ds, Distinct)
    BY <1>1, <1>7, <2>1, <2>4
  <2>7. Rising(w, Distinct)
    BY <1>6, <2>2, <2>3, <2>4
  <2>8. ASSUME NEW x \in ToSet(ds), NEW y \in ToSet(w) PROVE <<x, y>> \in Distinct
    <3>1. (x \in ToSet(cs) \/ x = id) /\ (y \in ToSet(a) \/ y \in ToSet(b))
      BY <1>1, <1>6, <1>7
    <3>2. CASE x \in ToSet(cs)
      BY <2>1, <2>4, <3>1, <3>2
    <3>3. CASE x = id /\ y \in ToSet(a)
      BY <2>2, <2>4, <2>5, <3>3
    <3>4. CASE x = id /\ y \in ToSet(b)
      BY <2>3, <3>4
    <3> QED
      BY <3>1, <3>2, <3>3, <3>4
  <2> QED
    BY <1>9, <2>6, <2>7, <2>8
<1>12. ASSUME a = <<>> PROVE to = from
  <2>1. <<>> \o b = b /\ <<>> \o u = u
    BY <1>4, ConcatEmptySeq
  <2>2. w = b /\ v = u
    BY <1>12, <2>1 DEF w, v
  <2>3. (cs \o one) \o b = cs \o (one \o b)
    <3>1. cs \in Seq(Ids) /\ one \in Seq(Ids) /\ b \in Seq(Ids)
      BY <1>1
    <3>2. SameEitherWay(cs, one, b)
      BY <3>1, IdsAssociative, Zenon
    <3> QED
      BY <3>2 DEF SameEitherWay
  <2> QED
    BY <2>2, <2>3 DEF to, from, ds, u
<1>13. Append(cs, id) = ds
  BY <1>2 DEF ds
<1>14. to = Append(cs, id) \o (a \o b) /\ from = cs \o (a \o (<<id>> \o b))
  BY <1>13 DEF to, from, w, v, u, one
<1> QED
  BY <1>7, <1>10, <1>11, <1>12, <1>13, <1>14 DEF KeptAll

LEMMA NextTaken ==
  ASSUME UNCHANGED inputVars, NEW ds \in Seq(Ids), taken' = ds, Rising(ds \o Left', Distinct),
         ToSet(ds \o Left') = Ids, ordered => ds \o Left' = AllChunks
  PROVE  TakenInv'
<1>1. /\ Ids' = Ids /\ AllChunks' = AllChunks /\ ordered' = ordered /\ Distinct' = Distinct
  BY SameInput
<1>2. TakenAs(ds)'
  <2>1. (taken = ds)' /\ Rising(ds \o Left, Distinct)' /\ (ToSet(ds \o Left) = Ids)'
    BY <1>1
  <2>2. (ordered => ds \o Left = AllChunks)'
    BY <1>1
  <2> QED
    BY <2>1, <2>2 DEF TakenAs
<1>3. ds \in Seq(Ids')
  BY <1>1
<1> QED
  BY <1>2, <1>3 DEF TakenInv

LEMMA TakeChunkInv == ASSUME LayerInv, NEW i \in DOMAIN streams, TakeChunk(i) PROVE LayerInv'
<1> DEFINE id == Head(streams[i].chunks)
<1>1. /\ MayTake /\ i \in Window /\ streams[i].chunks # <<>> /\ Take(id)
      /\ streams' = [streams EXCEPT ![i].chunks = Tail(@)]
      /\ UNCHANGED <<inputVars, phase, current, ended, read, skipped, sample, stopped, batchVars>>
  BY DEF TakeChunk
<1>2. Typed /\ SourcesInv /\ phase = "read" /\ ~stopped
  BY <1>1 DEF LayerInv, MayTake
<1>3. streams \in Seq(StreamType) /\ Len(streams) \in Nat /\ DOMAIN streams = 1 .. Len(streams)
      /\ i \in 1 .. Len(streams)
  BY <1>2, LenProperties DEF Typed
<1>4. ordered => i = 1
  <2>1. ASSUME ordered PROVE i <= 1 /\ 1 <= i
    <3> DEFINE most == Min({1, Len(streams)})
    <3>1. i \in 1 .. most
      BY <1>1, <2>1 DEF Window
    <3>2. most <= 1 /\ most \in Nat
      BY <1>3, MinOfNats
    <3> HIDE DEF most
    <3> QED
      BY <3>1, <3>2
  <2> QED
    BY <1>3, <2>1
<1>5. UNCHANGED inputVars /\ UNCHANGED batchVars
  BY <1>1
<1>6. /\ id \in Ids /\ streams' \in Seq(StreamType) /\ Len(streams') = Len(streams)
      /\ \A j \in 1 .. Len(streams) : streams'[j].source = streams[j].source
      /\ \E a, b \in Seq(Ids) : /\ Left = a \o (<<id>> \o b) /\ Left' = a \o b
                                /\ i = 1 => a = <<>>
  BY <1>1, <1>2, <1>3, <1>5, StreamGives
<1> HIDE DEF id
<1>7. id \in Ids \cup Others
  BY <1>6
<1>8. /\ taken' = Append(taken, id) /\ taken' \in Seq(Ids \cup Others)
      /\ ToSet(taken') = ToSet(taken) \cup {id}
      /\ working' \subseteq DOMAIN taken' /\ done' \subseteq DOMAIN taken' /\ working' \cap done' = {}
      /\ GivenInv' /\ EndInv' /\ ReportInv'
  BY <1>1, <1>5, <1>7, Taking
<1>9. /\ Ids' = Ids /\ StreamType' = StreamType /\ AllChunks' = AllChunks /\ ordered' = ordered
      /\ inp' = inp /\ onError' = onError /\ Distinct' = Distinct
  BY <1>5, SameInput
<1>10. UNCHANGED <<phase, current, ended, read, skipped, sample, stopped, report, open, buffered,
                   ready, caller, out>>
  BY <1>1 DEF batchVars, Take
<1>11. Typed'
  BY <1>2, <1>6, <1>8, <1>9, <1>10 DEF Typed, BatchType
<1>12. SourcesInv'
  <2>1. DOMAIN streams' = 1 .. Len(streams)
    BY <1>6, LenProperties
  <2>2. \A s : EndedSource(s)' <=> EndedSource(s)
    BY <1>3, <1>6, <2>1 DEF EndedSource
  <2>3. \A j, k \in DOMAIN streams' :
           streams'[j].source = streams'[k].source => j = k \/ streams'[j].source = NoStream
    BY <1>2, <1>3, <1>6, <2>1 DEF SourcesInv
  <2>4. id \notin Others
    BY <1>2, <1>6, NoIdIsOther DEF Typed
  <2>5. SourceError \notin ToSet(taken') /\ NoFeatures \notin ToSet(taken') /\ ~stopped'
    BY <1>2, <1>8, <1>10, <2>4 DEF SourcesInv, Others
  <2>6. /\ \A s : Fails(s)' <=> Fails(s)
        /\ AllSkipped' <=> AllSkipped
    BY <1>9, <1>10 DEF Fails, AllSkipped
  <2>7. \A s \in DOMAIN inp : ~(EndedSource(s) /\ Fails(s))
    BY <1>2 DEF SourcesInv
  <2> QED
    BY <1>2, <1>9, <1>10, <2>2, <2>3, <2>5, <2>6, <2>7 DEF SourcesInv
<1>13. SampleInv'
  BY <1>2, <1>10 DEF SampleInv, Sampling
<1>14. TakenInv'
  <2>1. PICK cs \in Seq(Ids) : TakenAs(cs)
    BY <1>2 DEF LayerInv, TakenInv
  <2>2. /\ taken = cs /\ Rising(cs \o Left, Distinct) /\ ToSet(cs \o Left) = Ids
        /\ ordered => cs \o Left = AllChunks
    BY <1>2, <2>1 DEF TakenAs
  <2>3. PICK a \in Seq(Ids), b \in Seq(Ids) : Left = a \o (<<id>> \o b) /\ Left' = a \o b /\ (i = 1 => a = <<>>)
    BY <1>6
  <2>4. /\ Append(cs, id) \in Seq(Ids)
        /\ ToSet(Append(cs, id) \o (a \o b)) = ToSet(cs \o (a \o (<<id>> \o b)))
        /\ Rising(cs \o (a \o (<<id>> \o b)), Distinct) => Rising(Append(cs, id) \o (a \o b), Distinct)
        /\ a = <<>> => Append(cs, id) \o (a \o b) = cs \o (a \o (<<id>> \o b))
    <3>1. inp \in Inputs
      BY <1>2 DEF Typed
    <3>2. cs \in Seq(Ids) /\ a \in Seq(Ids) /\ b \in Seq(Ids) /\ id \in Ids
      BY <1>6, <2>1, <2>3
    <3> HIDE DEF id
    <3>3. KeptAll(cs, a, id, b)
      BY <3>1, <3>2, Moved, Zenon
    <3> QED
      BY <3>3 DEF KeptAll
  <2> DEFINE next == Append(cs, id)
             from == cs \o (a \o (<<id>> \o b))
             to == next \o (a \o b)
  <2>5. next \in Seq(Ids) /\ taken' = next
    BY <1>8, <2>2, <2>4
  <2>6. cs \o Left = from /\ next \o Left' = to
    BY <2>3
  <2>7. ToSet(to) = ToSet(from) /\ (Rising(from, Distinct) => Rising(to, Distinct))
        /\ (a = <<>> => to = from)
    BY <2>4
  <2> HIDE DEF from, to, next
  <2>8. Rising(to, Distinct) /\ ToSet(to) = Ids /\ (ordered => to = AllChunks)
    BY <1>4, <2>2, <2>3, <2>6, <2>7
  <2>9. /\ taken' = next /\ Rising(next \o Left', Distinct) /\ ToSet(next \o Left') = Ids
        /\ ordered => next \o Left' = AllChunks
    BY <2>5, <2>6, <2>8, Zenon
  <2>10. UNCHANGED inputVars
    BY <1>1
  <2> QED
    BY <2>5, <2>9, <2>10, NextTaken
<1>15. NotBefore'
  BY <1>2, <1>10 DEF NotBefore
<1> QED
  BY <1>8, <1>11, <1>12, <1>13, <1>14, <1>15 DEF LayerInv

\* The input ends: nothing is taken after it but an item that is no chunk.
LEMMA LastTaken ==
  ASSUME LayerInv, phase = "read", ~stopped, UNCHANGED inputVars, Left' = Left,
         \/ taken' = taken
         \/ stopped' /\ \E e \in Others : taken' = Append(taken, e)
  PROVE  TakenInv'
<1>1. /\ Ids' = Ids /\ AllChunks' = AllChunks /\ ordered' = ordered /\ Distinct' = Distinct
  BY SameInput
<1>2. PICK cs \in Seq(Ids) : TakenAs(cs)
  BY DEF LayerInv, TakenInv
<1>3. /\ taken = cs /\ Rising(cs \o Left, Distinct) /\ ToSet(cs \o Left) = Ids
      /\ ordered => cs \o Left = AllChunks
  BY <1>2 DEF TakenAs
<1>4. TakenAs(cs)'
  <2>1. Rising(cs \o Left, Distinct)' /\ (ToSet(cs \o Left) = Ids)'
    BY <1>1, <1>3
  <2>2. (ordered => cs \o Left = AllChunks)'
    BY <1>1, <1>3
  <2>3. (taken = cs \/ (stopped /\ \E e \in Others : taken = Append(cs, e)))'
    <3>1. Others' = Others
      BY DEF Others, SourceError, NoFeatures
    <3> QED
      BY <1>3, <3>1
  <2> QED
    BY <2>1, <2>2, <2>3 DEF TakenAs
<1>5. cs \in Seq(Ids')
  BY <1>1
<1> QED
  BY <1>4, <1>5 DEF TakenInv

LEMMA StreamEndsInv == ASSUME LayerInv, NEW i \in DOMAIN streams, StreamEnds(i) PROVE LayerInv'
<1> DEFINE source == streams[i].source
<1>1. /\ MayTake /\ streams[i].chunks = <<>>
      /\ streams' = RemoveAt(streams, i)
      /\ CountEnd(source)
      /\ \/ Fails(source) /\ Take(SourceError) /\ stopped' = TRUE
         \/ ~Fails(source) /\ UNCHANGED <<taken, working, done, report, stopped>>
      /\ UNCHANGED <<inputVars, phase, current, ended, sample, batchVars>>
  BY DEF StreamEnds
<1>2. Typed /\ SourcesInv /\ phase = "read" /\ ~stopped
  BY <1>1 DEF LayerInv, MayTake
<1>3. streams \in Seq(StreamType) /\ DOMAIN streams = 1 .. Len(streams) /\ i \in 1 .. Len(streams)
  BY <1>2, LenProperties DEF Typed
<1>4. UNCHANGED inputVars /\ UNCHANGED batchVars
  BY <1>1
<1>5. streams' \in Seq(StreamType) /\ Left' = Left
  BY <1>1, <1>2, <1>3, <1>4, StreamGone
<1>6. /\ \A j, k \in DOMAIN streams' :
            streams'[j].source = streams'[k].source => j = k \/ streams'[j].source = NoStream
      /\ \A s \in DOMAIN inp : EndedSource(s)' <=> EndedSource(s) \/ s = source
      /\ read' # 0 <=> \E s \in DOMAIN inp : EndedSource(s)' /\ inp[s].last = "read"
      /\ skipped' = {s \in DOMAIN inp : EndedSource(s)' /\ inp[s].last = "skipped"}
      /\ read' \in Nat /\ skipped' \subseteq DOMAIN inp
  BY <1>1, <1>2, <1>3, <1>4, SourcesLess
<1>7. source \in {NoStream} \cup DOMAIN inp
  <2>1. streams[i] \in StreamType
    BY <1>3, ElementOfSeq
  <2> QED
    BY <2>1 DEF StreamType
<1>8. ended => read' = read /\ skipped' = skipped
  <2>1. ASSUME ended PROVE source = NoStream
    <3>1. \A s \in DOMAIN inp : source # s
      BY <1>2, <2>1 DEF SourcesInv, EndedSource
    <3> QED
      BY <1>7, <3>1
  <2> QED
    BY <1>1, <2>1 DEF CountEnd
<1> HIDE DEF source
<1>9. /\ Ids' = Ids /\ StreamType' = StreamType /\ AllChunks' = AllChunks /\ ordered' = ordered
      /\ inp' = inp /\ onError' = onError /\ Distinct' = Distinct
  BY <1>4, SameInput
<1>10. UNCHANGED <<phase, current, ended, sample, report, open, buffered, ready, caller, out>>
  BY <1>1 DEF batchVars, Take
<1>11. /\ taken \in Seq(Ids \cup Others) /\ working \subseteq DOMAIN taken /\ done \subseteq DOMAIN taken
       /\ working \cap done = {} /\ SourceError \in Others
  BY <1>2 DEF Typed, Others
<1>12. /\ taken' \in Seq(Ids \cup Others)
       /\ working' \subseteq DOMAIN taken' /\ done' \subseteq DOMAIN taken' /\ working' \cap done' = {}
       /\ \/ Fails(source) /\ stopped' = TRUE /\ taken' = Append(taken, SourceError)
             /\ ToSet(taken') = ToSet(taken) \cup {SourceError}
          \/ ~Fails(source) /\ stopped' = stopped /\ taken' = taken
       /\ GivenInv' /\ EndInv' /\ ReportInv'
  <2>1. CASE Fails(source) /\ Take(SourceError) /\ stopped' = TRUE
    <3>1. SourceError \in Ids \cup Others
      BY <1>11
    <3> QED
      BY <1>1, <1>4, <2>1, <3>1, Taking
  <2>2. CASE ~Fails(source) /\ UNCHANGED <<taken, working, done, report, stopped>>
    <3>1. UNCHANGED <<inputVars, poolVars, batchVars>>
      BY <1>4, <2>2 DEF poolVars
    <3> QED
      BY <1>11, <2>2, <3>1, KeepRest
  <2> QED
    BY <1>1, <2>1, <2>2
<1>13. Typed'
  BY <1>2, <1>5, <1>6, <1>9, <1>10, <1>12 DEF Typed, BatchType
<1>14. SourcesInv'
  <2>1. \A s : Fails(s)' <=> Fails(s)
    BY <1>9 DEF Fails
  <2>2. SourceError \notin ToSet(taken) /\ NoFeatures \notin ToSet(taken)
    BY <1>2 DEF SourcesInv
  <2>3. SourceError # NoFeatures
    BY DEF SourceError, NoFeatures
  <2>4. NoFeatures \notin ToSet(taken')
        /\ (SourceError \in ToSet(taken') <=> Fails(source)) /\ (stopped' <=> Fails(source))
    BY <1>2, <1>12, <2>2, <2>3
  <2>5. \A s \in DOMAIN inp : ~(EndedSource(s) /\ Fails(s))
    BY <1>2, <2>2 DEF SourcesInv
  <2>6. \A s \in DOMAIN inp : EndedSource(s)' /\ Fails(s) => SourceError \in ToSet(taken')
    BY <1>6, <2>4, <2>5
  <2>7. ended' => (\A s \in DOMAIN inp : EndedSource(s)') /\ ~AllSkipped'
    BY <1>2, <1>6, <1>8, <1>10 DEF SourcesInv, AllSkipped
  <2> QED
    BY <1>6, <1>9, <2>1, <2>4, <2>6, <2>7 DEF SourcesInv
<1>15. SampleInv'
  BY <1>2, <1>10 DEF SampleInv, Sampling
<1>16. TakenInv'
  BY <1>2, <1>4, <1>5, <1>11, <1>12, LastTaken
<1>17. NotBefore'
  BY <1>2, <1>10 DEF NotBefore
<1> QED
  BY <1>12, <1>13, <1>14, <1>15, <1>16, <1>17 DEF LayerInv

LEMMA InputEndsInv == ASSUME LayerInv, InputEnds PROVE LayerInv'
<1>1. /\ MayTake /\ streams = <<>> /\ stopped' = TRUE
      /\ \/ ~ended /\ AllSkipped /\ Take(NoFeatures)
         \/ (ended \/ ~AllSkipped) /\ UNCHANGED <<taken, working, done, report>>
      /\ UNCHANGED <<inputVars, phase, sourceVars, sample, batchVars>>
  BY DEF InputEnds
<1>2. Typed /\ SourcesInv /\ phase = "read" /\ ~stopped
  BY <1>1 DEF LayerInv, MayTake
<1>3. UNCHANGED inputVars /\ UNCHANGED batchVars
  BY <1>1
<1>4. /\ Ids' = Ids /\ StreamType' = StreamType /\ AllChunks' = AllChunks /\ ordered' = ordered
      /\ inp' = inp /\ onError' = onError /\ ChunksIn' = ChunksIn
  BY <1>3, SameInput
<1>5. UNCHANGED <<phase, streams, current, ended, read, skipped, sample, report, open, buffered, ready,
                  caller, out>>
  BY <1>1 DEF batchVars, sourceVars, Take
<1>6. /\ taken \in Seq(Ids \cup Others) /\ working \subseteq DOMAIN taken /\ done \subseteq DOMAIN taken
      /\ working \cap done = {} /\ NoFeatures \in Others
  BY <1>2 DEF Typed, Others
<1>7. /\ taken' \in Seq(Ids \cup Others)
      /\ working' \subseteq DOMAIN taken' /\ done' \subseteq DOMAIN taken' /\ working' \cap done' = {}
      /\ \/ AllSkipped /\ ~ended /\ taken' = Append(taken, NoFeatures)
            /\ ToSet(taken') = ToSet(taken) \cup {NoFeatures}
         \/ (ended \/ ~AllSkipped) /\ taken' = taken
      /\ GivenInv' /\ EndInv' /\ ReportInv'
  <2>1. CASE ~ended /\ AllSkipped /\ Take(NoFeatures)
    <3>1. NoFeatures \in Ids \cup Others
      BY <1>6
    <3> QED
      BY <1>1, <1>3, <2>1, <3>1, Taking
  <2>2. CASE (ended \/ ~AllSkipped) /\ UNCHANGED <<taken, working, done, report>>
    <3>1. GivenInv /\ EndInv /\ ReportInv
      BY DEF LayerInv
    <3>2. /\ UNCHANGED <<inputVars, taken, working, done, report, open, caller, ready, out, buffered>>
          /\ Sound' = Sound /\ Given' = Given /\ AllOk' = AllOk
      BY <1>3, <1>5, <2>2 DEF Sound, AllOk, Given
    <3>3. GivenInv'
      BY <3>1, <3>2, KeepGiven
    <3>4. EndInv'
      BY <1>1, <3>1, <3>2 DEF EndInv
    <3>5. ReportInv'
      BY <3>1, <3>2, KeepReport
    <3> QED
      BY <1>6, <2>2, <3>3, <3>4, <3>5
  <2> QED
    BY <1>1, <2>1, <2>2
<1>8. Typed'
  BY <1>1, <1>2, <1>4, <1>5, <1>7 DEF Typed, BatchType
<1>9. SourcesInv'
  <2>1. /\ \A s : Fails(s)' <=> Fails(s)
        /\ \A s : EndedSource(s)' <=> EndedSource(s)
        /\ AllSkipped' <=> AllSkipped
    BY <1>4, <1>5 DEF Fails, EndedSource, AllSkipped
  <2>2. SourceError \notin ToSet(taken) /\ NoFeatures \notin ToSet(taken)
    BY <1>2 DEF SourcesInv
  <2>3. SourceError # NoFeatures
    BY DEF SourceError, NoFeatures
  <2>4. /\ SourceError \notin ToSet(taken')
        /\ NoFeatures \in ToSet(taken') <=> ~ended /\ AllSkipped
    BY <1>7, <2>2, <2>3
  <2>5. \A s \in DOMAIN inp : ~(EndedSource(s) /\ Fails(s))
    BY <1>2, <2>2 DEF SourcesInv
  <2>6. ended => ~AllSkipped
    BY <1>2 DEF SourcesInv
  <2> QED
    BY <1>1, <1>2, <1>4, <1>5, <2>1, <2>4, <2>5, <2>6 DEF SourcesInv
<1>10. SampleInv'
  BY <1>2, <1>5 DEF SampleInv, Sampling
<1>11. TakenInv'
  <2>1. Left' = Left
    BY <1>4, <1>5 DEF Left
  <2> QED
    BY <1>1, <1>2, <1>3, <1>6, <1>7, <2>1, LastTaken
<1>12. NotBefore'
  BY <1>2, <1>5 DEF NotBefore
<1> QED
  BY <1>7, <1>8, <1>9, <1>10, <1>11, <1>12 DEF LayerInv

LEMMA ItemFacts ==
  ASSUME NEW item \in Ids \cup Others
  PROVE  (ErrorIn(item) <=> item \in Bad) /\ (item \notin Bad => item \in Ids)
<1>1. item \in Others => ErrorIn(item)
  BY DEF Others, ErrorIn
<1> QED
  BY <1>1 DEF Bad

LEMMA ProcessInv == ASSUME LayerInv, NEW n \in working, Process(n) PROVE LayerInv'
<1> DEFINE item == taken[n]
<1>1. /\ working' = working \ {n} /\ done' = done \cup {n}
      /\ report' = IF ErrorIn(item) THEN report ELSE report + Len(Rows(item))
      /\ UNCHANGED <<inputVars, phase, sourceVars, sample, taken, stopped, batchVars>>
  BY DEF Process
<1>2. Typed /\ SourcesInv /\ SampleInv /\ TakenInv /\ GivenInv /\ EndInv /\ ReportInv /\ NotBefore
  BY DEF LayerInv
<1>3. /\ taken \in Seq(Ids \cup Others) /\ working \subseteq DOMAIN taken /\ done \subseteq DOMAIN taken
      /\ working \cap done = {} /\ inp \in Inputs /\ report \in Nat
  BY <1>2 DEF Typed
<1>4. n \in DOMAIN taken /\ item \in Ids \cup Others
  BY <1>3, ElementOfSeq, LenProperties
<1>5. phase = "read"
  <2>1. taken # <<>>
    BY <1>4, EmptySeq
  <2> QED
    BY <1>2, <2>1 DEF NotBefore
<1>6. UNCHANGED inputVars /\ working' \cup done' = working \cup done
  BY <1>1
<1>7. /\ Ids' = Ids /\ StreamType' = StreamType /\ RowsIn' = RowsIn /\ Bad' = Bad
      /\ inp' = inp /\ onError' = onError /\ ordered' = ordered
  BY <1>6, SameInput
<1>8. UNCHANGED <<phase, streams, current, ended, read, skipped, sample, taken, stopped, open, buffered,
                  ready, caller, out>>
  BY <1>1 DEF batchVars, sourceVars
<1>9. IsMap(RowsIn, Ids, RowType) /\ \A id \in Ids : RowsIn[id] = Rows(id) /\ Rows(id) \in Seq(RowType)
  <2>1. IsMap(RowsIn, Ids, RowType) /\ \A id \in Ids : RowsIn[id] = Rows(id)
    BY <1>3, RowsInFacts
  <2>2. \A id \in Ids : Rows(id) \in Seq(RowType)
    BY <1>3, RowsOfChunk
  <2> QED
    BY <2>1, <2>2
<1>10. (ErrorIn(item) <=> item \in Bad) /\ (item \notin Bad => item \in Ids)
  BY <1>4, ItemFacts
<1> HIDE DEF item
<1>11. (DOMAIN taken) \ working' = ((DOMAIN taken) \ working) \cup {n}
  BY <1>1, <1>4
<1>12. report' \in Nat
  <2>1. item \in Ids => Len(Rows(item)) \in Nat
    BY <1>9, LenProperties
  <2> QED
    BY <1>1, <1>3, <1>10, <2>1
<1>13. Typed'
  <2>1. working' \subseteq DOMAIN taken' /\ done' \subseteq DOMAIN taken' /\ working' \cap done' = {}
    BY <1>1, <1>3, <1>8
  <2> QED
    BY <1>2, <1>7, <1>8, <1>12, <2>1 DEF Typed, BatchType
<1>14. SourcesInv' /\ SampleInv'
  BY <1>2, <1>6, <1>7, <1>8, KeepSources, KeepSample
<1>15. TakenInv'
  BY <1>2, <1>6, <1>8, KeepTaken
<1>16. Sound' = Sound /\ Given' = Given /\ AllOk' = AllOk
  BY <1>8 DEF Sound, AllOk, Given
<1>17. GivenInv'
  BY <1>2, <1>6, <1>8, <1>16, KeepGiven
<1>18. EndInv'
  <2>1. n \in working \cup done
    OBVIOUS
  <2> QED
    BY <1>2, <1>8, <1>16, <2>1 DEF EndInv
<1>19. NotBefore'
  BY <1>5, <1>8 DEF NotBefore
<1>20. ReportInv'
  <2>1. CASE item \in Bad
    <3>1. Reported' = Reported
      <4>1. ASSUME NEW row
            PROVE  (\E m \in (DOMAIN taken) \ working' : taken[m] \notin Bad /\ row \in ToSet(RowsIn[taken[m]]))
                   <=> (\E m \in (DOMAIN taken) \ working : taken[m] \notin Bad /\ row \in ToSet(RowsIn[taken[m]]))
        BY <1>11, <2>1 DEF item
      <4> QED
        BY <1>7, <1>8, <4>1 DEF Reported
    <3>2. report' = report
      BY <1>1, <1>10, <2>1
    <3> QED
      BY <1>2, <3>1, <3>2 DEF ReportInv
  <2>2. CASE item \notin Bad
    <3> DEFINE rows == RowsIn[item]
    <3>1. item \in Ids /\ rows \in Seq(RowType) /\ rows = Rows(item) /\ report' = report + Len(rows)
      BY <1>1, <1>9, <1>10, <2>2
    <3>2. IsFiniteSet(ToSet(rows)) /\ Cardinality(ToSet(rows)) = Len(rows)
      <4>1. Rising(rows, InSequence) /\ \A x \in RowType : <<x, x>> \notin InSequence
        BY <1>3, <3>1, RowsInFacts
      <4> HIDE DEF rows
      <4>2. IsInjective(rows)
        BY <3>1, <4>1, RisingIsInjective
      <4> QED
        BY <3>1, <4>2, InjectiveSize
    <3>3. ToSet(rows) \subseteq RowType
      <4> HIDE DEF rows
      <4> QED
        BY <3>1, ElementsTyped
    <3>4. Reported' = Reported \cup ToSet(rows)
      <4>1. ASSUME NEW row
            PROVE  (\E m \in (DOMAIN taken) \ working' : taken[m] \notin Bad /\ row \in ToSet(RowsIn[taken[m]]))
                   <=> \/ \E m \in (DOMAIN taken) \ working : taken[m] \notin Bad /\ row \in ToSet(RowsIn[taken[m]])
                       \/ row \in ToSet(rows)
        BY <1>11, <2>2 DEF item
      <4>2. \A row \in RowType : row \in Reported' <=> row \in Reported \/ row \in ToSet(rows)
        BY <1>7, <1>8, <4>1 DEF Reported
      <4>3. Reported' \subseteq RowType /\ Reported \subseteq RowType
        BY DEF Reported, RowType
      <4> HIDE DEF rows
      <4> QED
        BY <3>3, <4>2, <4>3
    <3>5. Reported \cap ToSet(rows) = {}
      <4> SUFFICES ASSUME NEW row \in Reported, row \in ToSet(rows) PROVE FALSE
        OBVIOUS
      <4>1. PICK m \in (DOMAIN taken) \ working : taken[m] \notin Bad /\ row \in ToSet(RowsIn[taken[m]])
        BY DEF Reported
      <4>2. m \in DOMAIN taken /\ m # n
        BY <4>1
      <4>3. taken[m] \in Ids
        <5>1. taken[m] \in Ids \cup Others
          BY <1>3, <4>2, ElementOfSeq, LenProperties
        <5> QED
          BY <4>1, <5>1, ItemFacts
      <4>4. taken[m] # item
        BY <1>4, <3>1, <4>2, <4>3, TakenOnce DEF item
      <4>5. \A c, d \in Ids : c # d => \A x \in ToSet(RowsIn[c]), y \in ToSet(RowsIn[d]) : x # y
        BY <1>3, RowsInFacts
      <4> QED
        BY <3>1, <4>1, <4>3, <4>4, <4>5
    <3>6. IsFiniteSet(Reported) /\ report = Cardinality(Reported)
      BY <1>2 DEF ReportInv
    <3>7. IsFiniteSet(Reported \cup ToSet(rows))
          /\ Cardinality(Reported \cup ToSet(rows)) = Cardinality(Reported) + Cardinality(ToSet(rows))
      <4> HIDE DEF rows
      <4>1. Cardinality(Reported \cap ToSet(rows)) = 0
        BY <3>5, FS_EmptySet
      <4>2. Cardinality(Reported) \in Nat /\ Cardinality(ToSet(rows)) \in Nat
        BY <3>2, <3>6, FS_CardinalityType
      <4> QED
        BY <3>2, <3>6, <4>1, <4>2, FS_Union
    <3> HIDE DEF rows
    <3> QED
      BY <3>1, <3>2, <3>4, <3>6, <3>7 DEF ReportInv
  <2> QED
    BY <2>1, <2>2
<1> QED
  BY <1>13, <1>14, <1>15, <1>17, <1>18, <1>19, <1>20 DEF LayerInv

-----------------------------------------------------------------------------
\* The steps of the caller.

LEMMA CallerStep ==
  ASSUME LayerInv, phase = "read",
         UNCHANGED <<inputVars, phase, sourceVars, sample, taken, working, stopped, report>>,
         done' \subseteq done, open' \in BOOLEAN, buffered' \in Seq(RowType),
         ready' \in Seq(BatchType), out' \in Seq(BatchType),
         caller' \in {"idle", "asking", "ended", "failed", "dropped"}, GivenInv', EndInv'
  PROVE  LayerInv'
<1>1. Typed /\ SourcesInv /\ SampleInv /\ TakenInv /\ ReportInv
  BY DEF LayerInv
<1>2. UNCHANGED inputVars
  OBVIOUS
<1>3. /\ Ids' = Ids /\ StreamType' = StreamType /\ inp' = inp /\ onError' = onError /\ ordered' = ordered
  BY <1>2, SameInput
<1>4. UNCHANGED <<phase, streams, current, ended, read, skipped, sample, taken, working, stopped, report>>
  BY DEF sourceVars
<1>5. Typed'
  BY <1>1, <1>3, <1>4 DEF Typed, BatchType
<1>6. SourcesInv' /\ SampleInv'
  BY <1>1, <1>2, <1>3, <1>4, KeepSources, KeepSample
<1>7. TakenInv'
  BY <1>1, <1>2, <1>4, KeepTaken
<1>8. ReportInv'
  BY <1>1, <1>2, <1>4, KeepReport
<1>9. NotBefore'
  BY <1>4 DEF NotBefore
<1> QED
  BY <1>5, <1>6, <1>7, <1>8, <1>9 DEF LayerInv

LEMMA Asking == ASSUME LayerInv, caller = "asking" PROVE phase = "read"
BY DEF LayerInv, NotBefore

LEMMA AskInv == ASSUME LayerInv, Ask PROVE LayerInv'
<1>1. /\ phase = "read" /\ caller = "idle" /\ caller' = "asking"
      /\ UNCHANGED <<inputVars, phase, sourceVars, sample, poolVars, open, buffered, ready, out>>
  BY DEF Ask
<1>2. Typed /\ GivenInv /\ EndInv
  BY DEF LayerInv
<1>3. UNCHANGED <<taken, working, done, stopped, report>>
  BY <1>1 DEF poolVars
<1>4. (Sound' <=> Sound) /\ Given' = Given /\ (AllOk' <=> AllOk)
  BY <1>1 DEF Sound, AllOk, Given
<1>5. GivenInv'
  BY <1>1, <1>2, <1>3, <1>4, KeepGiven
<1>6. EndInv'
  BY <1>1, <1>2, <1>3, <1>4 DEF EndInv
<1>7. buffered \in Seq(RowType) /\ ready \in Seq(BatchType) /\ out \in Seq(BatchType) /\ open \in BOOLEAN
  BY <1>2 DEF Typed
<1> QED
  BY <1>1, <1>3, <1>5, <1>6, <1>7, CallerStep

LEMMA GiveNoneInv == ASSUME LayerInv, GiveNone PROVE LayerInv'
<1>1. /\ caller = "asking" /\ ready = <<>> /\ ~open /\ caller' = "ended"
      /\ UNCHANGED <<inputVars, phase, sourceVars, sample, poolVars, open, buffered, ready, out>>
  BY DEF GiveNone
<1>2. Typed /\ GivenInv /\ EndInv /\ phase = "read"
  BY <1>1, Asking DEF LayerInv
<1>3. UNCHANGED <<taken, working, done, stopped, report>>
  BY <1>1 DEF poolVars
<1>4. (Sound' <=> Sound) /\ Given' = Given /\ (AllOk' <=> AllOk)
  BY <1>1 DEF Sound, AllOk, Given
<1>5. GivenInv'
  BY <1>1, <1>2, <1>3, <1>4, KeepGiven
<1>6. EndInv'
  BY <1>1, <1>2, <1>3, <1>4 DEF EndInv
<1>7. buffered \in Seq(RowType) /\ ready \in Seq(BatchType) /\ out \in Seq(BatchType) /\ open \in BOOLEAN
  BY <1>2 DEF Typed
<1> QED
  BY <1>1, <1>2, <1>3, <1>5, <1>6, <1>7, CallerStep

LEMMA DropReaderInv == ASSUME LayerInv, DropReader PROVE LayerInv'
<1>1. /\ caller \in {"idle", "ended", "failed"} /\ phase = "read"
      /\ caller' = "dropped" /\ open' = FALSE
      /\ UNCHANGED <<inputVars, phase, sourceVars, sample, poolVars, buffered, ready, out>>
  BY DEF DropReader
<1>2. Typed /\ GivenInv
  BY DEF LayerInv
<1>3. UNCHANGED <<taken, working, done, stopped, report>>
  BY <1>1 DEF poolVars
<1>4. ~Sound' /\ Given' = Given
  BY <1>1 DEF Sound, Given
<1>5. GivenInv'
  BY <1>1, <1>2, <1>3, <1>4, KeepGiven
<1>6. EndInv'
  BY <1>1, <1>4 DEF EndInv
<1>7. buffered \in Seq(RowType) /\ ready \in Seq(BatchType) /\ out \in Seq(BatchType)
  BY <1>2 DEF Typed
<1> QED
  BY <1>1, <1>3, <1>5, <1>6, <1>7, CallerStep

LEMMA GiveInv == ASSUME LayerInv, Give PROVE LayerInv'
<1> DEFINE first == Head(ready)
           tail == Tail(ready)
<1>1. /\ caller = "asking" /\ ready # <<>>
      /\ out' = Append(out, first) /\ ready' = tail
      /\ caller' = IF first.ok THEN "idle" ELSE "failed"
      /\ UNCHANGED <<inputVars, phase, sourceVars, sample, poolVars, open, buffered>>
  BY DEF Give
<1>2. Typed /\ GivenInv /\ EndInv /\ phase = "read"
  BY <1>1, Asking DEF LayerInv
<1>3. /\ buffered \in Seq(RowType) /\ ready \in Seq(BatchType) /\ out \in Seq(BatchType) /\ open \in BOOLEAN
  BY <1>2 DEF Typed
<1>4. /\ ready = <<first>> \o tail /\ first = ready[1] /\ first \in BatchType /\ tail \in Seq(BatchType)
  BY <1>1, <1>3, HeadAndTail
<1>5. /\ Len(ready) = Len(tail) + 1 /\ Len(tail) \in Nat /\ DOMAIN ready = 1 .. Len(ready)
      /\ DOMAIN tail = 1 .. Len(tail)
      /\ \A n \in 1 .. Len(tail) : tail[n] = ready[n + 1]
  BY <1>1, <1>3, <1>4, HeadTailProperties, LenProperties
<1> HIDE DEF first, tail
<1>6. AllOk <=> first.ok /\ AllOk'
  <2>1. AllOk' <=> \A n \in 1 .. Len(tail) : tail[n].ok
    BY <1>1, <1>5 DEF AllOk
  <2>2. AllOk <=> \A n \in 1 .. Len(tail) + 1 : ready[n].ok
    BY <1>5 DEF AllOk
  <2>3. ASSUME \A n \in 1 .. Len(tail) + 1 : ready[n].ok
        PROVE  first.ok /\ \A n \in 1 .. Len(tail) : tail[n].ok
    <3>1. 1 \in 1 .. Len(tail) + 1 /\ \A n \in 1 .. Len(tail) : n + 1 \in 1 .. Len(tail) + 1
      BY <1>5
    <3> QED
      BY <1>4, <1>5, <2>3, <3>1, Zenon
  <2>4. ASSUME first.ok, \A n \in 1 .. Len(tail) : tail[n].ok, NEW n \in 1 .. Len(tail) + 1
        PROVE  ready[n].ok
    <3>1. CASE n = 1
      BY <1>4, <2>4, <3>1
    <3>2. CASE n # 1
      <4>1. n - 1 \in 1 .. Len(tail) /\ (n - 1) + 1 = n
        BY <1>5, <3>2
      <4> QED
        BY <1>5, <2>4, <4>1
    <3> QED
      BY <3>1, <3>2
  <2> QED
    BY <2>1, <2>2, <2>3, <2>4
<1>7. UNCHANGED <<taken, working, done, stopped, report>> /\ open' = open /\ buffered' = buffered
  BY <1>1 DEF poolVars
<1>8. Sound' => Sound
  BY <1>1, <1>6, <1>7 DEF Sound
<1>9. Given' = Given
  <2> DEFINE given == Mapped(PartOf, out)
             part == PartOf[first]
             left == Mapped(PartOf, tail)
  <2>1. given \in Seq(RowType) /\ left \in Seq(RowType) /\ part \in Seq(RowType)
    <3>1. \A s \in Seq(BatchType) : Mapped(PartOf, s) \in Seq(RowType)
      BY BatchFacts, MappedTyped
    <3>2. PartOf[first] \in Seq(RowType)
      BY <1>4, BatchFacts DEF IsMap
    <3> QED
      BY <1>3, <1>4, <3>1, <3>2
  <2>2. Mapped(PartOf, Append(out, first)) = given \o part
    BY <1>3, <1>4, BatchFacts, MappedAppend
  <2>3. Mapped(PartOf, ready) = part \o left
    <3> DEFINE one == <<first>>
    <3>1. one \in Seq(BatchType) /\ Mapped(PartOf, one) = part
      <4>1. Mapped(PartOf, one) = part
        BY <1>4, BatchFacts, MappedSingle
      <4> QED
        BY <1>4, <4>1
    <3>2. ASSUME NEW s \in Seq(BatchType), NEW t \in Seq(BatchType)
          PROVE  Mapped(PartOf, s \o t) = Mapped(PartOf, s) \o Mapped(PartOf, t)
      BY BatchFacts, MappedConcat
    <3> HIDE DEF one, part
    <3>3. Mapped(PartOf, one \o tail) = part \o left
      BY <1>4, <3>1, <3>2
    <3> QED
      BY <1>4, <3>3 DEF one
  <2>4. Given = (given \o (part \o left)) \o buffered /\ Given' = ((given \o part) \o left) \o buffered
    BY <1>1, <1>7, <2>2, <2>3 DEF Given
  <2> HIDE DEF given, part, left
  <2>5. (given \o part) \o left = given \o (part \o left)
    BY <2>1, Associative
  <2> QED
    BY <2>4, <2>5
<1>10. GivenInv'
  <2>1. UNCHANGED <<inputVars, taken>> /\ working' \cup done' = working \cup done /\ open' = open
    BY <1>1, <1>7
  <2> QED
    BY <1>2, <1>8, <1>9, <2>1, KeepGiven
<1>11. EndInv'
  <2>1. caller' # "ended"
    BY <1>1
  <2> QED
    BY <1>2, <1>6, <1>7, <1>8, <2>1 DEF EndInv
<1>12. out' \in Seq(BatchType) /\ ready' \in Seq(BatchType)
  BY <1>1, <1>3, <1>4, AppendProperties
<1>13. /\ UNCHANGED <<inputVars, phase, sourceVars, sample, taken, working, stopped, report>>
       /\ done' \subseteq done /\ open' \in BOOLEAN /\ buffered' \in Seq(RowType)
       /\ caller' \in {"idle", "asking", "ended", "failed", "dropped"}
  BY <1>1, <1>3, <1>7
<1> QED
  BY <1>2, <1>10, <1>11, <1>12, <1>13, CallerStep

\* A sequence in two parts.
LEMMA Cut ==
  ASSUME NEW S, NEW s \in Seq(S), NEW m \in 0 .. Len(s)
  PROVE  /\ SubSeq(s, 1, m) \in Seq(S) /\ SubSeq(s, m + 1, Len(s)) \in Seq(S)
         /\ SubSeq(s, 1, m) \o SubSeq(s, m + 1, Len(s)) = s
         /\ Len(SubSeq(s, 1, m)) = m /\ \A k \in 1 .. m : SubSeq(s, 1, m)[k] = s[k]
<1> DEFINE len == Len(s)
<1>1. len \in Nat /\ m \in Nat /\ m <= len /\ \A i \in 1 .. len : s[i] \in S
  BY LenProperties, ElementOfSeq
<1>2. /\ SubSeq(s, 1, m) \in Seq(S) /\ Len(SubSeq(s, 1, m)) = m
      /\ \A k \in 1 .. m : SubSeq(s, 1, m)[k] = s[k]
  <2>1. \A i \in 1 .. m : s[i] \in S
    BY <1>1
  <2>2. /\ SubSeq(s, 1, m) \in Seq(S) /\ Len(SubSeq(s, 1, m)) = IF 1 <= m THEN m - 1 + 1 ELSE 0
        /\ \A i \in 1 .. m - 1 + 1 : SubSeq(s, 1, m)[i] = s[1 + i - 1]
    BY <1>1, <2>1, SubSeqProperties
  <2> QED
    BY <1>1, <2>2
<1>3. SubSeq(s, m + 1, len) \in Seq(S)
  <2>1. \A i \in m + 1 .. len : s[i] \in S
    BY <1>1
  <2>2. m + 1 \in Int /\ len \in Int
    BY <1>1
  <2> QED
    BY <2>1, <2>2, SubSeqProperties
<1>4. SubSeq(s, 1, m) \o SubSeq(s, m + 1, len) = SubSeq(s, 1, len)
  <2>1. 1 \in 1 .. Len(s) + 1 /\ m \in 1 - 1 .. Len(s) /\ Len(s) \in m .. Len(s)
    BY <1>1
  <2> QED
    BY <2>1, ConcatAdjacentSubSeq
<1>5. SubSeq(s, 1, len) = s
  BY SubSeqFull
<1> QED
  BY <1>2, <1>3, <1>4, <1>5

LEMMA CompletedFacts ==
  ASSUME NEW rows \in Seq(RowType), NEW m \in 0 .. Len(rows)
  PROVE  /\ Completed(rows, m) \in Seq(BatchType)
         /\ Mapped(PartOf, Completed(rows, m)) = SubSeq(rows, 1, m)
         /\ \A n \in DOMAIN Completed(rows, m) : Completed(rows, m)[n].ok
<1> DEFINE part == SubSeq(rows, 1, m)
<1>1. part \in Seq(RowType) /\ Len(part) = m
  BY Cut
<1>2. CASE m = 0
  <2>1. part = <<>>
    BY <1>1, <1>2, EmptySeq
  <2>2. Completed(rows, m) = <<>>
    BY <1>2 DEF Completed
  <2>3. Mapped(PartOf, <<>>) = <<>> /\ <<>> \in Seq(BatchType) /\ DOMAIN <<>> = {}
    BY MappedEmpty, EmptySeq
  <2> QED
    BY <2>1, <2>2, <2>3
<1>3. CASE m # 0
  <2> HIDE DEF part
  <2> DEFINE batch == Batch(part)
  <2>1. batch \in BatchType /\ batch.ok /\ PartOf[batch] = part
    BY <1>1, BatchFacts
  <2>2. Completed(rows, m) = <<batch>>
    BY <1>3 DEF Completed, part
  <2> HIDE DEF batch
  <2>3. Mapped(PartOf, <<batch>>) = PartOf[batch]
    BY <2>1, BatchFacts, MappedSingle
  <2>4. <<batch>> \in Seq(BatchType) /\ \A n \in DOMAIN <<batch>> : <<batch>>[n].ok
    BY <2>1
  <2> QED
    BY <2>1, <2>2, <2>3, <2>4 DEF part
<1> QED
  BY <1>2, <1>3

\* What the error of an item leaves ready: the rows before it, then the error.
LEMMA EndWithFacts ==
  ASSUME NEW rows \in Seq(RowType), NEW item \in CauseType
  PROVE  LET end == Completed(rows, Len(rows)) \o <<Failure(item)>>
         IN  /\ end \in Seq(BatchType) /\ Mapped(PartOf, end) = rows
             /\ \E n \in DOMAIN end : ~end[n].ok
<1> DEFINE first == Completed(rows, Len(rows))
           last == <<Failure(item)>>
           end == first \o last
<1>1. first \in Seq(BatchType) /\ Mapped(PartOf, first) = rows
  <2>1. Len(rows) \in 0 .. Len(rows)
    BY LenProperties
  <2>2. SubSeq(rows, 1, Len(rows)) = rows
    BY SubSeqFull
  <2> QED
    BY <2>1, <2>2, CompletedFacts
<1>2. last \in Seq(BatchType) /\ Mapped(PartOf, last) = <<>> /\ Len(last) = 1 /\ ~last[1].ok
  <2>1. Failure(item) \in BatchType /\ ~Failure(item).ok /\ PartOf[Failure(item)] = <<>>
    BY BatchFacts
  <2>2. Mapped(PartOf, last) = PartOf[Failure(item)]
    BY <2>1, BatchFacts, MappedSingle
  <2> QED
    BY <2>1, <2>2
<1> HIDE DEF first, last
<1>3. /\ end \in Seq(BatchType) /\ Len(end) = Len(first) + Len(last)
      /\ \A k \in 1 .. Len(first) + Len(last) : end[k] = IF k <= Len(first) THEN first[k] ELSE last[k - Len(first)]
  BY <1>1, <1>2, ConcatProperties
<1>4. Mapped(PartOf, end) = rows
  <2>1. ASSUME NEW s \in Seq(BatchType), NEW t \in Seq(BatchType)
        PROVE  Mapped(PartOf, s \o t) = Mapped(PartOf, s) \o Mapped(PartOf, t)
    BY BatchFacts, MappedConcat
  <2>2. Mapped(PartOf, end) = rows \o <<>>
    BY <1>1, <1>2, <2>1
  <2> QED
    BY <2>2, ConcatEmptySeq
<1>5. \E n \in DOMAIN end : ~end[n].ok
  <2> DEFINE k == Len(first) + 1
  <2>1. Len(first) \in Nat
    BY <1>1, LenProperties
  <2>2. k \in 1 .. Len(first) + Len(last) /\ ~(k <= Len(first)) /\ k - Len(first) = 1
    BY <1>2, <2>1
  <2> HIDE DEF k, end
  <2>3. end[k] = last[1] /\ k \in DOMAIN end
    BY <1>3, <2>2, LenProperties
  <2> QED
    BY <1>2, <2>3
<1> QED
  BY <1>3, <1>4, <1>5 DEF first, last

\* In order, chunks that were the first taken are the first of the input.
LEMMA FirstTaken ==
  ASSUME LayerInv, phase = "read", ordered, NEW gs \in Seq(Ids), Len(gs) <= Len(taken),
         \A k \in 1 .. Len(gs) : taken[k] = gs[k]
  PROVE  \E r \in Seq(Ids) : AllChunks = gs \o r
<1>1. inp \in Inputs /\ Left \in Seq(Ids)
  BY LeftTyped DEF LayerInv, Typed
<1>2. PICK cs \in Seq(Ids) : TakenAs(cs)
  BY DEF LayerInv, TakenInv
<1>3. AllChunks = cs \o Left
  BY <1>2 DEF TakenAs
<1> DEFINE n == Len(gs)
<1>4. n \in Nat /\ Len(cs) \in Nat /\ \A k \in 1 .. n : gs[k] \in Ids
  BY LenProperties, ElementOfSeq
<1>5. n <= Len(cs) /\ \A k \in 1 .. n : cs[k] = gs[k]
  <2>1. CASE taken = cs
    BY <2>1
  <2>2. ASSUME NEW e \in Others, taken = Append(cs, e)
        PROVE  n <= Len(cs) /\ \A k \in 1 .. n : cs[k] = gs[k]
    <3>1. cs \in Seq(Ids \cup Others)
      BY ElementOfSeq, LenProperties
    <3>2. /\ Len(Append(cs, e)) = Len(cs) + 1
          /\ Append(cs, e)[Len(cs) + 1] = e
          /\ \A k \in 1 .. Len(cs) : Append(cs, e)[k] = cs[k]
      BY <3>1, AppendProperties
    <3>3. e \notin Ids
      BY <1>1, NoIdIsOther
    <3>4. n # Len(cs) + 1
      <4>1. ASSUME n = Len(cs) + 1 PROVE FALSE
        <5>1. n \in 1 .. n
          BY <1>4, <4>1
        <5>2. gs[n] = e
          BY <2>2, <3>2, <4>1, <5>1
        <5> QED
          BY <1>4, <3>3, <5>1, <5>2
      <4> QED
        BY <4>1
    <3>5. n <= Len(cs)
      BY <1>4, <2>2, <3>2, <3>4
    <3>6. \A k \in 1 .. n : k \in 1 .. Len(cs)
      BY <1>4, <3>5
    <3> QED
      BY <2>2, <3>2, <3>5, <3>6
  <2> QED
    BY <1>2, <2>1, <2>2 DEF TakenAs
<1>6. n \in 0 .. Len(cs)
  BY <1>4, <1>5
<1> DEFINE p == SubSeq(cs, 1, n)
           q == SubSeq(cs, n + 1, Len(cs))
<1>7. /\ p \in Seq(Ids) /\ q \in Seq(Ids) /\ p \o q = cs
      /\ Len(p) = n /\ \A k \in 1 .. n : p[k] = cs[k]
  BY <1>6, Cut
<1> HIDE DEF p, q
<1>8. p = gs
  <2>1. \A u, v \in Seq(Ids) : Len(u) = Len(v) /\ (\A k \in 1 .. Len(u) : u[k] = v[k]) => u = v
    BY SeqEqual
  <2> QED
    BY <1>5, <1>7, <2>1
<1>9. (gs \o q) \o Left = gs \o (q \o Left) /\ q \o Left \in Seq(Ids)
  <2>1. (gs \o q) \o Left = gs \o (q \o Left)
    <3>1. q \in Seq(Ids) /\ Left \in Seq(Ids)
      BY <1>1, <1>7
    <3>2. SameEitherWay(gs, q, Left)
      BY <3>1, IdsAssociative, Zenon
    <3> QED
      BY <3>2 DEF SameEitherWay
  <2>2. q \o Left \in Seq(Ids)
    BY <1>1, <1>7, ConcatProperties
  <2> QED
    BY <2>1, <2>2
<1> QED
  BY <1>3, <1>7, <1>8, <1>9

\* The result of a chunk comes after those of the chunks before.
LEMMA NextGiven ==
  ASSUME LayerInv, phase = "read", open, NEW n \in done, ~ErrorIn(taken[n]),
         ordered => \A m \in working \cup done : n <= m,
         NEW gs \in Seq(Ids), NEW rest \in Seq(RowType), GivenAs(gs, rest)
  PROVE  /\ n \in DOMAIN taken /\ taken[n] \in Ids /\ taken[n] \notin Bad
         /\ Append(gs, taken[n]) \in Seq(Ids) /\ Rising(Append(gs, taken[n]), Distinct)
         /\ ToSet(Append(gs, taken[n])) = ToSet(gs) \cup {taken[n]}
         /\ Mapped(RowsIn, Append(gs, taken[n])) = Given \o Rows(taken[n])
         /\ Given \in Seq(RowType) /\ Rows(taken[n]) \in Seq(RowType)
         /\ ordered => /\ n = Len(gs) + 1 /\ Len(Append(gs, taken[n])) = Len(gs) + 1
                       /\ Len(gs) + 1 <= Len(taken)
                       /\ \A k \in 1 .. Len(gs) + 1 : taken[k] = Append(gs, taken[n])[k]
                       /\ \E r \in Seq(Ids) : AllChunks = Append(gs, taken[n]) \o r
<1> DEFINE id == taken[n]
           hs == Append(gs, id)
<1>1. /\ taken \in Seq(Ids \cup Others) /\ DOMAIN taken = 1 .. Len(taken) /\ Len(taken) \in Nat
      /\ done \subseteq DOMAIN taken /\ inp \in Inputs
      /\ buffered \in Seq(RowType) /\ ready \in Seq(BatchType) /\ out \in Seq(BatchType)
  BY LenProperties DEF LayerInv, Typed
<1>2. n \in DOMAIN taken /\ id \in Ids \cup Others
  BY <1>1, ElementOfSeq
<1>3. id \in Ids /\ id \notin Bad
  BY <1>2, ItemFacts
<1> HIDE DEF id
<1>4. /\ hs \in Seq(Ids) /\ Len(hs) = Len(gs) + 1 /\ Len(gs) \in Nat
      /\ hs[Len(gs) + 1] = id /\ \A k \in 1 .. Len(gs) : hs[k] = gs[k]
  BY <1>3, AppendProperties, LenProperties
<1>5. hs = gs \o <<id>> /\ <<id>> \in Seq(Ids) /\ ToSet(<<id>>) = {id}
  BY <1>3, AppendIsConcat DEF ToSet
<1>6. ToSet(hs) = ToSet(gs) \cup {id}
  <2>1. ASSUME NEW u \in Seq(Ids) PROVE ToSet(gs \o u) = ToSet(gs) \cup ToSet(u)
    BY ConcatElements
  <2>2. ToSet(gs \o <<id>>) = ToSet(gs) \cup ToSet(<<id>>)
    BY <1>5, <2>1
  <2> QED
    BY <1>5, <2>2
<1>7. Rising(hs, Distinct)
  <2>1. Rising(gs, Distinct) /\ Rising(<<id>>, Distinct)
    BY RisingSingle DEF GivenAs
  <2>2. ASSUME NEW x \in ToSet(gs) PROVE <<x, id>> \in Distinct
    <3>1. PICK k \in DOMAIN gs : x = gs[k]
      BY DEF ToSet
    <3>2. PICK m \in Consumed : taken[m] = gs[k]
      BY DEF GivenAs
    <3>3. m \in DOMAIN taken /\ m # n
      BY DEF Consumed
    <3>4. x \in Ids
      BY <3>1, ElementOfSeq, LenProperties
    <3>5. x # id
      BY <1>2, <1>3, <3>1, <3>2, <3>3, <3>4, TakenOnce DEF id
    <3> QED
      BY <1>3, <3>4, <3>5 DEF Distinct
  <2>3. \A x \in ToSet(gs), y \in ToSet(<<id>>) : <<x, y>> \in Distinct
    BY <1>5, <2>2
  <2> DEFINE one == <<id>>
  <2>4. one \in Seq(Ids) /\ Rising(one, Distinct) /\ \A x \in ToSet(gs), y \in ToSet(one) : <<x, y>> \in Distinct
    BY <1>5, <2>1, <2>3
  <2> HIDE DEF one
  <2>5. Rising(gs \o one, Distinct)
    BY <2>1, <2>4, RisingConcat
  <2> QED
    BY <1>5, <2>5 DEF one
<1>8. IsMap(RowsIn, Ids, RowType) /\ RowsIn[id] = Rows(id) /\ Rows(id) \in Seq(RowType)
  <2>1. IsMap(RowsIn, Ids, RowType) /\ RowsIn[id] = Rows(id)
    BY <1>1, <1>3, RowsInFacts
  <2>2. Rows(id) \in Seq(RowType)
    BY <1>1, <1>3, RowsOfChunk
  <2> QED
    BY <2>1, <2>2
<1>9. Given \in Seq(RowType)
  <2>1. \A s \in Seq(BatchType) : Mapped(PartOf, s) \in Seq(RowType)
    BY BatchFacts, MappedTyped
  <2>2. \A u, v \in Seq(RowType) : u \o v \in Seq(RowType)
    BY ConcatProperties
  <2>3. Mapped(PartOf, out) \o Mapped(PartOf, ready) \in Seq(RowType)
    BY <1>1, <2>1, <2>2
  <2> QED
    BY <1>1, <2>2, <2>3 DEF Given
<1>10. Mapped(RowsIn, hs) = Given \o Rows(id)
  <2>1. rest = <<>> /\ Mapped(RowsIn, gs) = Given \o rest
    BY DEF GivenAs, Sound
  <2>2. Given \o <<>> = Given
    BY <1>9, ConcatEmptySeq
  <2>3. Mapped(RowsIn, hs) = Mapped(RowsIn, gs) \o RowsIn[id]
    <3>1. IsMap(RowsIn, Ids, RowType)
      BY <1>8
    <3>2. ASSUME NEW x \in Ids PROVE Mapped(RowsIn, Append(gs, x)) = Mapped(RowsIn, gs) \o RowsIn[x]
      BY <3>1, MappedAppend
    <3> QED
      BY <1>3, <3>2
  <2> QED
    BY <1>8, <2>1, <2>2, <2>3
<1>11. ASSUME ordered
       PROVE  /\ n = Len(gs) + 1 /\ Len(gs) + 1 <= Len(taken)
              /\ \A k \in 1 .. Len(gs) + 1 : taken[k] = hs[k]
              /\ \E r \in Seq(Ids) : AllChunks = hs \o r
  <2>1. /\ working \cup done = Len(gs) + 1 .. Len(taken) /\ Len(gs) <= Len(taken)
        /\ \A k \in 1 .. Len(gs) : taken[k] = gs[k]
        /\ \A m \in working \cup done : n <= m
    BY <1>11 DEF GivenAs
  <2>2. n \in Len(gs) + 1 .. Len(taken)
    BY <2>1
  <2>3. Len(gs) + 1 \in working \cup done
    BY <1>1, <1>4, <2>1, <2>2
  <2>4. n = Len(gs) + 1 /\ Len(gs) + 1 <= Len(taken)
    BY <1>1, <1>4, <2>1, <2>2, <2>3
  <2>5. ASSUME NEW k \in 1 .. Len(gs) + 1 PROVE taken[k] = hs[k]
    <3>1. CASE k = Len(gs) + 1
      BY <1>4, <2>4, <3>1 DEF id
    <3>2. CASE k # Len(gs) + 1
      <4>1. k \in 1 .. Len(gs)
        BY <1>4, <3>2
      <4> QED
        BY <1>4, <2>1, <4>1
    <3> QED
      BY <3>1, <3>2
  <2> HIDE DEF hs
  <2>6. \E r \in Seq(Ids) : AllChunks = hs \o r
    BY <1>4, <1>11, <2>4, <2>5, FirstTaken
  <2> QED
    BY <2>4, <2>5, <2>6
<1> QED
  BY <1>2, <1>3, <1>4, <1>6, <1>7, <1>8, <1>9, <1>10, <1>11 DEF id

LEMMA GivenNext ==
  ASSUME UNCHANGED <<inputVars, taken, working>>, NEW n \in done, done' = done \ {n}, n \notin working,
         n \in DOMAIN taken, NEW hs \in Seq(Ids), NEW rest \in Seq(RowType),
         Rising(hs, Distinct),
         \A k \in DOMAIN hs : \E m \in Consumed \cup {n} : taken[m] = hs[k],
         Mapped(RowsIn, hs) = Given' \o rest,
         Sound' => /\ rest = <<>>
                   /\ \A m \in Consumed \cup {n} : taken[m] \in ToSet(hs) /\ taken[m] \notin Bad,
         ordered /\ open' => /\ working \cup done' = Len(hs) + 1 .. Len(taken)
                             /\ Len(hs) <= Len(taken) /\ \A k \in 1 .. Len(hs) : taken[k] = hs[k],
         ordered => \E r \in Seq(Ids) : AllChunks = hs \o r
  PROVE  GivenInv'
<1>1. /\ Ids' = Ids /\ Distinct' = Distinct /\ RowsIn' = RowsIn /\ Bad' = Bad /\ ordered' = ordered
      /\ AllChunks' = AllChunks
  BY SameInput
<1>2. taken' = taken /\ working' = working
  OBVIOUS
<1>3. Consumed' = Consumed \cup {n}
  BY <1>2 DEF Consumed
<1>4. GivenAs(hs, rest)'
  <2>1. /\ Rising(hs, Distinct)'
        /\ (\A k \in DOMAIN hs : \E m \in Consumed : taken[m] = hs[k])'
        /\ (ordered => \E r \in Seq(Ids) : AllChunks = hs \o r)'
    BY <1>1, <1>2, <1>3
  <2>2. (Mapped(RowsIn, hs) = Given \o rest)'
    BY <1>1
  <2>3. (Sound => /\ rest = <<>>
                  /\ \A m \in Consumed : taken[m] \in ToSet(hs) /\ taken[m] \notin Bad)'
    BY <1>1, <1>2, <1>3
  <2>4. (ordered /\ open =>
           /\ working \cup done = Len(hs) + 1 .. Len(taken)
           /\ Len(hs) <= Len(taken) /\ \A k \in 1 .. Len(hs) : taken[k] = hs[k])'
    BY <1>1, <1>2
  <2> QED
    BY <2>1, <2>2, <2>3, <2>4 DEF GivenAs
<1>5. hs \in Seq(Ids')
  BY <1>1
<1> QED
  BY <1>4, <1>5 DEF GivenInv

\* What the caller finds when it takes a result.
LEMMA NextResultFacts ==
  ASSUME LayerInv, NEW n \in done, NextResult(n)
  PROVE  /\ phase = "read" /\ caller = "asking" /\ ready = <<>> /\ open
         /\ n \notin working /\ n \in DOMAIN taken /\ taken[n] \in Ids \cup Others
         /\ taken[n] \in CauseType
         /\ ordered => \A m \in working \cup done : n <= m
         /\ Typed /\ GivenInv /\ EndInv
         /\ buffered \in Seq(RowType) /\ out \in Seq(BatchType) /\ Mapped(PartOf, out) \in Seq(RowType)
         /\ Given = Mapped(PartOf, out) \o buffered
<1>1. caller = "asking" /\ ready = <<>> /\ open /\ (ordered => \A m \in working \cup done : n <= m)
  BY DEF NextResult
<1>2. phase = "read" /\ Typed /\ GivenInv /\ EndInv
  BY <1>1, Asking DEF LayerInv
<1>3. /\ taken \in Seq(Ids \cup Others) /\ DOMAIN taken = 1 .. Len(taken) /\ done \subseteq DOMAIN taken
      /\ working \cap done = {} /\ inp \in Inputs
      /\ buffered \in Seq(RowType) /\ out \in Seq(BatchType)
  BY <1>2, LenProperties DEF Typed
<1>4. taken[n] \in Ids \cup Others
  BY <1>3, ElementOfSeq
<1>5. Ids \cup Others \subseteq CauseType
  <2>1. \A id \in Ids : id[1] \in Nat /\ id[2] \in Nat /\ id = <<id[1], id[2]>>
    BY <1>3, NoIdIsOther, InputFacts
  <2> QED
    BY <2>1 DEF CauseType, Others, SourceError, NoFeatures
<1>6. Mapped(PartOf, out) \in Seq(RowType)
  BY <1>3, BatchFacts, MappedTyped
<1>7. Given = Mapped(PartOf, out) \o buffered
  <2>1. Mapped(PartOf, ready) = <<>>
    BY <1>1, MappedEmpty
  <2>2. Mapped(PartOf, out) \o <<>> = Mapped(PartOf, out)
    BY <1>6, ConcatEmptySeq
  <2> QED
    BY <2>1, <2>2 DEF Given
<1> QED
  BY <1>1, <1>2, <1>3, <1>4, <1>5, <1>6, <1>7

LEMMA RowsAssociative ==
  ASSUME NEW x \in Seq(RowType), NEW y \in Seq(RowType), NEW z \in Seq(RowType)
  PROVE  SameEitherWay(x, y, z)
BY Associative DEF SameEitherWay

LEMMA ChunkOkInv == ASSUME LayerInv, NEW n \in done, ChunkOk(n) PROVE LayerInv'
<1> DEFINE id == taken[n]
           rows == buffered \o Rows(id)
<1>1. /\ NextResult(n) /\ ~ErrorIn(id) /\ done' = done \ {n}
      /\ \E m \in 0 .. Len(rows) : ready' = Completed(rows, m) /\ buffered' = SubSeq(rows, m + 1, Len(rows))
      /\ UNCHANGED <<inputVars, phase, sourceVars, sample, taken, working, stopped, report, open,
                     caller, out>>
  BY DEF ChunkOk
<1>2. /\ phase = "read" /\ caller = "asking" /\ ready = <<>> /\ open
      /\ n \notin working /\ n \in DOMAIN taken
      /\ ordered => \A m \in working \cup done : n <= m
      /\ Typed /\ GivenInv /\ EndInv
      /\ buffered \in Seq(RowType) /\ out \in Seq(BatchType) /\ Mapped(PartOf, out) \in Seq(RowType)
      /\ Given = Mapped(PartOf, out) \o buffered
  BY <1>1, NextResultFacts
<1>3. PICK gs \in Seq(Ids), rest \in Seq(RowType) : GivenAs(gs, rest)
  BY <1>2 DEF GivenInv
<1> DEFINE hs == Append(gs, id)
<1>4. /\ id \in Ids /\ id \notin Bad
      /\ hs \in Seq(Ids) /\ Rising(hs, Distinct) /\ ToSet(hs) = ToSet(gs) \cup {id}
      /\ Mapped(RowsIn, hs) = Given \o Rows(id)
      /\ Given \in Seq(RowType) /\ Rows(id) \in Seq(RowType)
      /\ ordered => /\ n = Len(gs) + 1 /\ Len(hs) = Len(gs) + 1 /\ Len(gs) + 1 <= Len(taken)
                    /\ \A k \in 1 .. Len(gs) + 1 : taken[k] = hs[k]
                    /\ \E r \in Seq(Ids) : AllChunks = hs \o r
  BY <1>1, <1>2, <1>3, NextGiven
<1>5. \A k \in DOMAIN hs : hs[k] \in ToSet(gs) \cup {id}
  BY <1>4 DEF ToSet
<1> HIDE DEF id, hs
<1>6. rows \in Seq(RowType)
  BY <1>2, <1>4, ConcatProperties
<1> HIDE DEF rows
<1>7. PICK m \in 0 .. Len(rows) : ready' = Completed(rows, m) /\ buffered' = SubSeq(rows, m + 1, Len(rows))
  BY <1>1 DEF rows
<1>8. /\ ready' \in Seq(BatchType) /\ Mapped(PartOf, ready') = SubSeq(rows, 1, m) /\ AllOk'
  BY <1>6, <1>7, CompletedFacts DEF AllOk
<1>9. /\ buffered' \in Seq(RowType) /\ SubSeq(rows, 1, m) \in Seq(RowType)
      /\ SubSeq(rows, 1, m) \o buffered' = rows
  BY <1>6, <1>7, Cut
<1>10. Given' = Given \o Rows(id)
  <2> DEFINE given == Mapped(PartOf, out)
             part == SubSeq(rows, 1, m)
  <2>1. Given' = (given \o part) \o buffered'
    BY <1>1, <1>8 DEF Given
  <2>2. given \in Seq(RowType) /\ part \in Seq(RowType)
    BY <1>2, <1>9
  <2>3. buffered \in Seq(RowType) /\ buffered' \in Seq(RowType) /\ Rows(id) \in Seq(RowType)
    BY <1>2, <1>4, <1>9
  <2>4. Given = given \o buffered /\ part \o buffered' = rows
    BY <1>2, <1>9
  <2> HIDE DEF given, part
  <2>5. Given' = given \o rows
    <3>1. (given \o part) \o buffered' = given \o (part \o buffered')
      <4>1. given \in Seq(RowType) /\ part \in Seq(RowType) /\ buffered' \in Seq(RowType)
        BY <2>2, <2>3
      <4>2. SameEitherWay(given, part, buffered')
        BY <4>1, RowsAssociative, Zenon
      <4> QED
        BY <4>2 DEF SameEitherWay
    <3> QED
      BY <2>1, <2>4, <3>1
  <2>6. given \o (buffered \o Rows(id)) = (given \o buffered) \o Rows(id)
    <3>1. given \in Seq(RowType) /\ buffered \in Seq(RowType) /\ Rows(id) \in Seq(RowType)
      BY <2>2, <2>3
    <3>2. SameEitherWay(given, buffered, Rows(id))
      BY <3>1, RowsAssociative, Zenon
    <3> QED
      BY <3>2 DEF SameEitherWay
  <2> QED
    BY <2>4, <2>5, <2>6 DEF rows
<1>11. GivenInv'
  <2>1. Given \o Rows(id) \in Seq(RowType)
    BY <1>4, ConcatProperties
  <2>2. (Given \o Rows(id)) \o <<>> = Given \o Rows(id) /\ <<>> \in Seq(RowType)
    BY <2>1, ConcatEmptySeq, EmptySeq
  <2>3. Mapped(RowsIn, hs) = Given' \o <<>>
    BY <1>4, <1>10, <2>2
  <2>4. \A k \in DOMAIN hs : \E j \in Consumed \cup {n} : taken[j] = hs[k]
    <3> SUFFICES ASSUME NEW k \in DOMAIN hs PROVE \E j \in Consumed \cup {n} : taken[j] = hs[k]
      OBVIOUS
    <3>1. CASE hs[k] = id
      BY <3>1 DEF id
    <3>2. CASE hs[k] \in ToSet(gs)
      <4>1. PICK l \in DOMAIN gs : gs[l] = hs[k]
        BY <3>2 DEF ToSet
      <4>2. \E j \in Consumed : taken[j] = gs[l]
        BY <1>3 DEF GivenAs
      <4> QED
        BY <4>1, <4>2
    <3> QED
      BY <1>5, <3>1, <3>2
  <2>5. \A j \in Consumed \cup {n} : taken[j] \in ToSet(hs) /\ taken[j] \notin Bad
    <3>1. \A j \in Consumed : taken[j] \in ToSet(gs) /\ taken[j] \notin Bad
      BY <1>2, <1>3 DEF GivenAs, Sound
    <3> QED
      BY <1>4, <3>1 DEF id
  <2>6. ASSUME ordered
        PROVE  /\ working \cup done' = Len(hs) + 1 .. Len(taken)
               /\ Len(hs) <= Len(taken) /\ \A k \in 1 .. Len(hs) : taken[k] = hs[k]
    <3>1. working \cup done = Len(gs) + 1 .. Len(taken)
      BY <1>2, <1>3, <2>6 DEF GivenAs
    <3>2. n = Len(gs) + 1 /\ Len(hs) = Len(gs) + 1 /\ Len(gs) + 1 <= Len(taken)
          /\ \A k \in 1 .. Len(gs) + 1 : taken[k] = hs[k]
      BY <1>4, <2>6
    <3>3. Len(gs) \in Nat /\ Len(taken) \in Nat
      BY <1>2, LenProperties DEF Typed
    <3>4. working \cup done' = (Len(gs) + 1 .. Len(taken)) \ {n}
      BY <1>1, <1>2, <3>1
    <3>5. (Len(gs) + 1 .. Len(taken)) \ {Len(gs) + 1} = Len(gs) + 1 + 1 .. Len(taken)
      BY <3>3
    <3> QED
      BY <3>2, <3>4, <3>5
  <2>7. ordered => \E r \in Seq(Ids) : AllChunks = hs \o r
    BY <1>4
  <2>8. UNCHANGED <<inputVars, taken, working>>
    BY <1>1
  <2> QED
    BY <1>1, <1>2, <1>4, <2>2, <2>3, <2>4, <2>5, <2>6, <2>7, <2>8, GivenNext
<1>12. EndInv'
  BY <1>1, <1>2, <1>8 DEF EndInv
<1>13. /\ UNCHANGED <<inputVars, phase, sourceVars, sample, taken, working, stopped, report>>
       /\ done' \subseteq done /\ open' \in BOOLEAN /\ out' \in Seq(BatchType)
       /\ caller' \in {"idle", "asking", "ended", "failed", "dropped"}
  BY <1>1, <1>2
<1> QED
  BY <1>2, <1>8, <1>9, <1>11, <1>12, <1>13, CallerStep

LEMMA ChunkFailsInv == ASSUME LayerInv, NEW n \in done, ChunkFails(n) PROVE LayerInv'
<1>1. /\ NextResult(n) /\ done' = done \ {n}
      /\ open' = FALSE /\ buffered' = <<>>
      /\ ready' = Completed(buffered, Len(buffered)) \o <<Failure(taken[n])>>
      /\ UNCHANGED <<inputVars, phase, sourceVars, sample, taken, working, stopped, report, caller, out>>
  BY DEF ChunkFails, EndWith
<1>2. /\ phase = "read" /\ caller = "asking" /\ ready = <<>> /\ open
      /\ n \notin working /\ n \in DOMAIN taken /\ taken[n] \in CauseType
      /\ Typed /\ GivenInv
      /\ buffered \in Seq(RowType) /\ out \in Seq(BatchType) /\ Mapped(PartOf, out) \in Seq(RowType)
      /\ Given = Mapped(PartOf, out) \o buffered
  BY <1>1, NextResultFacts
<1>3. ready' \in Seq(BatchType) /\ Mapped(PartOf, ready') = buffered /\ \E k \in DOMAIN ready' : ~ready'[k].ok
  BY <1>1, <1>2, EndWithFacts
<1>4. ~Sound' /\ ~open'
  BY <1>1, <1>3 DEF Sound, AllOk
<1>5. Given' = Given
  <2>1. Given' = (Mapped(PartOf, out) \o buffered) \o <<>>
    BY <1>1, <1>3 DEF Given
  <2>2. Mapped(PartOf, out) \o buffered \in Seq(RowType)
    BY <1>2, ConcatProperties
  <2> QED
    BY <1>2, <2>1, <2>2, ConcatEmptySeq
<1>6. PICK gs \in Seq(Ids), rest \in Seq(RowType) : GivenAs(gs, rest)
  BY <1>2 DEF GivenInv
<1>7. GivenInv'
  <2>1. /\ Rising(gs, Distinct) /\ Mapped(RowsIn, gs) = Given' \o rest
        /\ \A k \in DOMAIN gs : \E m \in Consumed : taken[m] = gs[k]
        /\ ordered => \E r \in Seq(Ids) : AllChunks = gs \o r
    BY <1>5, <1>6 DEF GivenAs
  <2>2. \A k \in DOMAIN gs : \E m \in Consumed \cup {n} : taken[m] = gs[k]
    BY <2>1
  <2>3. UNCHANGED <<inputVars, taken, working>>
    BY <1>1
  <2> QED
    BY <1>1, <1>2, <1>4, <2>1, <2>2, <2>3, GivenNext
<1>8. EndInv'
  BY <1>1, <1>2, <1>4 DEF EndInv
<1>9. /\ UNCHANGED <<inputVars, phase, sourceVars, sample, taken, working, stopped, report>>
      /\ done' \subseteq done /\ open' \in BOOLEAN /\ out' \in Seq(BatchType) /\ buffered' \in Seq(RowType)
      /\ caller' \in {"idle", "asking", "ended", "failed", "dropped"}
  BY <1>1, <1>2, EmptySeq
<1> QED
  BY <1>2, <1>3, <1>7, <1>8, <1>9, CallerStep

LEMMA PushFailsInv == ASSUME LayerInv, NEW n \in done, PushFails(n) PROVE LayerInv'
<1> DEFINE id == taken[n]
           rows == Rows(id)
<1>1. /\ NextResult(n) /\ ~ErrorIn(id) /\ done' = done \ {n}
      /\ \E m \in 0 .. Len(rows) - 1 : EndWith(buffered \o SubSeq(rows, 1, m), Failure(id))
      /\ UNCHANGED <<inputVars, phase, sourceVars, sample, taken, working, stopped, report, caller, out>>
  BY DEF PushFails
<1>2. /\ phase = "read" /\ caller = "asking" /\ ready = <<>> /\ open
      /\ n \notin working /\ n \in DOMAIN taken /\ id \in CauseType
      /\ ordered => \A m \in working \cup done : n <= m
      /\ Typed /\ GivenInv
      /\ buffered \in Seq(RowType) /\ out \in Seq(BatchType) /\ Mapped(PartOf, out) \in Seq(RowType)
      /\ Given = Mapped(PartOf, out) \o buffered
  BY <1>1, NextResultFacts
<1>3. PICK gs \in Seq(Ids), rest \in Seq(RowType) : GivenAs(gs, rest)
  BY <1>2 DEF GivenInv
<1> DEFINE hs == Append(gs, id)
<1>4. /\ id \in Ids /\ hs \in Seq(Ids) /\ Rising(hs, Distinct) /\ ToSet(hs) = ToSet(gs) \cup {id}
      /\ Mapped(RowsIn, hs) = Given \o rows /\ rows \in Seq(RowType)
      /\ ordered => \E r \in Seq(Ids) : AllChunks = hs \o r
  BY <1>1, <1>2, <1>3, NextGiven
<1>5. \A k \in DOMAIN hs : hs[k] \in ToSet(gs) \cup {id}
  BY <1>4 DEF ToSet
<1> HIDE DEF id, rows, hs
<1>6. PICK m \in 0 .. Len(rows) - 1 : EndWith(buffered \o SubSeq(rows, 1, m), Failure(id))
  BY <1>1 DEF rows
<1>7. m \in 0 .. Len(rows)
  BY <1>4, LenProperties
<1> DEFINE pushed == SubSeq(rows, 1, m)
           left == SubSeq(rows, m + 1, Len(rows))
           given == Mapped(PartOf, out)
           total == buffered \o pushed
<1>8. pushed \in Seq(RowType) /\ left \in Seq(RowType) /\ pushed \o left = rows
  BY <1>4, <1>7, Cut
<1>9. /\ open' = FALSE /\ buffered' = <<>>
      /\ ready' = Completed(total, Len(total)) \o <<Failure(id)>>
  BY <1>6 DEF EndWith
<1>10. given \in Seq(RowType) /\ Given = given \o buffered
  BY <1>2
<1> HIDE DEF pushed, left, given
<1>11. total \in Seq(RowType)
  BY <1>2, <1>8, ConcatProperties
<1> HIDE DEF total
<1>12. ready' \in Seq(BatchType) /\ Mapped(PartOf, ready') = total /\ \E k \in DOMAIN ready' : ~ready'[k].ok
  BY <1>2, <1>9, <1>11, EndWithFacts
<1>13. ~Sound' /\ ~open'
  BY <1>9, <1>12 DEF Sound, AllOk
<1>14. Mapped(RowsIn, hs) = Given' \o left
  <2>1. Given' = (given \o total) \o <<>>
    BY <1>1, <1>9, <1>12 DEF Given, given
  <2>2. given \o total \in Seq(RowType)
    BY <1>10, <1>11, ConcatProperties
  <2>3. Given' = given \o total
    BY <2>1, <2>2, ConcatEmptySeq
  <2>5. /\ given \in Seq(RowType) /\ buffered \in Seq(RowType) /\ pushed \in Seq(RowType)
        /\ left \in Seq(RowType) /\ total \in Seq(RowType) /\ rows \in Seq(RowType)
    BY <1>2, <1>4, <1>8, <1>10, <1>11
  <2>6. (given \o total) \o left = given \o (total \o left)
    <3>1. given \in Seq(RowType) /\ total \in Seq(RowType) /\ left \in Seq(RowType)
      BY <2>5
    <3>2. SameEitherWay(given, total, left)
      BY <3>1, RowsAssociative, Zenon
    <3> QED
      BY <3>2 DEF SameEitherWay
  <2>7. (buffered \o pushed) \o left = buffered \o (pushed \o left)
    <3>1. buffered \in Seq(RowType) /\ pushed \in Seq(RowType) /\ left \in Seq(RowType)
      BY <2>5
    <3>2. SameEitherWay(buffered, pushed, left)
      BY <3>1, RowsAssociative, Zenon
    <3> QED
      BY <3>2 DEF SameEitherWay
  <2>8. (given \o buffered) \o rows = given \o (buffered \o rows)
    <3>1. given \in Seq(RowType) /\ buffered \in Seq(RowType) /\ rows \in Seq(RowType)
      BY <2>5
    <3>2. SameEitherWay(given, buffered, rows)
      BY <3>1, RowsAssociative, Zenon
    <3> QED
      BY <3>2 DEF SameEitherWay
  <2>9. total \o left = buffered \o rows
    BY <1>8, <2>7 DEF total
  <2> QED
    BY <1>4, <1>10, <2>3, <2>6, <2>8, <2>9
<1>15. GivenInv'
  <2>1. \A k \in DOMAIN hs : \E j \in Consumed \cup {n} : taken[j] = hs[k]
    <3> SUFFICES ASSUME NEW k \in DOMAIN hs PROVE \E j \in Consumed \cup {n} : taken[j] = hs[k]
      OBVIOUS
    <3>1. CASE hs[k] = id
      BY <3>1 DEF id
    <3>2. CASE hs[k] \in ToSet(gs)
      <4>1. PICK l \in DOMAIN gs : gs[l] = hs[k]
        BY <3>2 DEF ToSet
      <4>2. \E j \in Consumed : taken[j] = gs[l]
        BY <1>3 DEF GivenAs
      <4> QED
        BY <4>1, <4>2
    <3> QED
      BY <1>5, <3>1, <3>2
  <2>2. UNCHANGED <<inputVars, taken, working>>
    BY <1>1
  <2> QED
    BY <1>1, <1>2, <1>4, <1>8, <1>13, <1>14, <2>1, <2>2, GivenNext
<1>16. EndInv'
  BY <1>1, <1>2, <1>13 DEF EndInv
<1>17. /\ UNCHANGED <<inputVars, phase, sourceVars, sample, taken, working, stopped, report>>
       /\ done' \subseteq done /\ open' \in BOOLEAN /\ out' \in Seq(BatchType) /\ buffered' \in Seq(RowType)
       /\ caller' \in {"idle", "asking", "ended", "failed", "dropped"}
  BY <1>1, <1>2, <1>9, EmptySeq
<1> QED
  BY <1>2, <1>12, <1>15, <1>16, <1>17, CallerStep

LEMMA ChunksEndInv == ASSUME LayerInv, ChunksEnd PROVE LayerInv'
<1>1. /\ caller = "asking" /\ ready = <<>> /\ open /\ stopped /\ working \cup done = {}
      /\ open' = FALSE /\ ready' = Completed(buffered, Len(buffered)) /\ buffered' = <<>>
      /\ UNCHANGED <<inputVars, phase, sourceVars, sample, poolVars, caller, out>>
  BY DEF ChunksEnd
<1>2. Typed /\ GivenInv /\ phase = "read"
  BY <1>1, Asking DEF LayerInv
<1>3. buffered \in Seq(RowType) /\ out \in Seq(BatchType) /\ <<>> \in Seq(RowType)
  BY <1>2, EmptySeq DEF Typed
<1>4. UNCHANGED <<taken, working, done, stopped, report>>
  BY <1>1 DEF poolVars
<1>5. ready' \in Seq(BatchType) /\ Mapped(PartOf, ready') = buffered
  <2>1. Len(buffered) \in 0 .. Len(buffered)
    BY <1>3, LenProperties
  <2>2. SubSeq(buffered, 1, Len(buffered)) = buffered
    BY <1>3, SubSeqFull
  <2> QED
    BY <1>1, <1>3, <2>1, <2>2, CompletedFacts
<1>6. Given' = Given
  <2>1. Mapped(PartOf, out) \in Seq(RowType)
    BY <1>3, BatchFacts, MappedTyped
  <2>2. Mapped(PartOf, out) \o <<>> = Mapped(PartOf, out)
    BY <2>1, ConcatEmptySeq
  <2>3. Mapped(PartOf, ready) = <<>>
    BY <1>1, MappedEmpty
  <2>4. Given = Mapped(PartOf, out) \o buffered
    BY <2>2, <2>3 DEF Given
  <2>5. Given' = (Mapped(PartOf, out) \o buffered) \o <<>>
    BY <1>1, <1>5 DEF Given
  <2>6. Mapped(PartOf, out) \o buffered \in Seq(RowType)
    BY <1>3, <2>1, ConcatProperties
  <2> QED
    BY <2>4, <2>5, <2>6, ConcatEmptySeq
<1>7. GivenInv'
  <2>1. Sound /\ ~open'
    BY <1>1 DEF Sound
  <2>2. UNCHANGED <<inputVars, taken>> /\ working' \cup done' = working \cup done
    BY <1>1, <1>4
  <2> QED
    BY <1>2, <1>6, <2>1, <2>2, KeepGiven
<1>8. EndInv'
  BY <1>1, <1>4 DEF EndInv
<1>9. /\ UNCHANGED <<inputVars, phase, sourceVars, sample, taken, working, stopped, report>>
      /\ done' \subseteq done /\ open' \in BOOLEAN /\ out' \in Seq(BatchType) /\ buffered' \in Seq(RowType)
      /\ caller' \in {"idle", "asking", "ended", "failed", "dropped"}
  BY <1>1, <1>3, <1>4
<1> QED
  BY <1>2, <1>5, <1>7, <1>8, <1>9, CallerStep

-----------------------------------------------------------------------------
\* The invariant holds.

LEMMA StutterInv == ASSUME LayerInv, UNCHANGED vars PROVE LayerInv'
<1>1. UNCHANGED <<inputVars, phase, sourceVars, sample, poolVars, batchVars>>
  BY DEF vars
<1>2. /\ Typed /\ SourcesInv /\ SampleInv /\ TakenInv /\ NotBefore
  BY DEF LayerInv
<1>3. /\ Ids' = Ids /\ StreamType' = StreamType /\ inp' = inp /\ onError' = onError /\ ordered' = ordered
  BY <1>1, SameInput
<1>4. UNCHANGED <<inputVars, phase, streams, current, ended, read, skipped, sample, taken, working, done,
                  stopped, report, open, buffered, ready, caller, out>>
  BY <1>1 DEF sourceVars, poolVars, batchVars
<1>5. GivenInv' /\ EndInv' /\ ReportInv'
  BY <1>1, KeepRest
<1>6. Typed'
  BY <1>2, <1>3, <1>4 DEF Typed, BatchType
<1>7. SourcesInv' /\ SampleInv'
  BY <1>2, <1>3, <1>4, KeepSources, KeepSample
<1>8. TakenInv'
  BY <1>2, <1>4, KeepTaken
<1>9. NotBefore'
  BY <1>2, <1>4 DEF NotBefore
<1> QED
  BY <1>5, <1>6, <1>7, <1>8, <1>9 DEF LayerInv

LEMMA NextLayerInv == LayerInv /\ [Next]_vars => LayerInv'
<1> SUFFICES ASSUME LayerInv, [Next]_vars PROVE LayerInv'
  OBVIOUS
<1>1. CASE Sample
  BY <1>1, SampleOpenInv, SampleChunkInv, SampleSourceEndsInv, SampleEndsInv, ScanInv DEF Sample
<1>2. CASE Worker
  BY <1>2, TakeChunkInv, StreamEndsInv, InputEndsInv, ProcessInv DEF Worker
<1>3. CASE Caller
  BY <1>3, AskInv, GiveInv, GiveNoneInv, ChunksEndInv, ChunkOkInv, ChunkFailsInv, PushFailsInv DEF Caller
<1>4. CASE DropReader
  BY <1>4, DropReaderInv
<1>5. CASE UNCHANGED vars
  BY <1>5, StutterInv
<1> QED
  BY <1>1, <1>2, <1>3, <1>4, <1>5 DEF Next

\* In every reachable state of a read the chunks of the input are accounted for: taken, left, given.
THEOREM LayerInvariant == Spec => []LayerInv
<1>1. Init => LayerInv
  BY InitLayerInv
<1>2. LayerInv /\ [Next]_vars => LayerInv'
  BY NextLayerInv
<1> QED
  BY <1>1, <1>2, PTL DEF Spec

-----------------------------------------------------------------------------
\* What follows from it.

LEMMA OutIsMapped ==
  ASSUME Typed
  PROVE  /\ OutRows = Mapped(PartOf, out) /\ OutRows \in Seq(RowType)
         /\ RowsOf(AllChunks) = Mapped(RowsIn, AllChunks)
<1>1. out \in Seq(BatchType) /\ inp \in Inputs
  BY DEF Typed
<1>2. \A n \in DOMAIN out : out[n] \in BatchType
  BY <1>1, ElementOfSeq, LenProperties
<1>3. Parts(PartOf, out) = [n \in DOMAIN out |-> IF out[n].ok THEN out[n].rows ELSE <<>>]
  BY <1>2, BatchFacts DEF Parts
<1>4. OutRows = Mapped(PartOf, out)
  BY <1>3 DEF OutRows, Mapped
<1>5. OutRows \in Seq(RowType)
  BY <1>1, <1>4, BatchFacts, MappedTyped
<1>6. AllChunks \in Seq(Ids)
  BY <1>1, AllChunksFacts
<1> HIDE DEF AllChunks
<1>7. \A n \in DOMAIN AllChunks : AllChunks[n] \in Ids
  BY <1>6, ElementOfSeq, LenProperties
<1>8. Parts(RowsIn, AllChunks) = [n \in DOMAIN AllChunks |-> Rows(AllChunks[n])]
  BY <1>1, <1>7, RowsInFacts DEF Parts
<1>9. RowsOf(AllChunks) = Mapped(RowsIn, AllChunks)
  BY <1>8 DEF RowsOf, Mapped
<1> QED
  BY <1>4, <1>5, <1>9

\* The rows given, and what is still to come of the chunks they are from.
LEMMA GivenFirst ==
  ASSUME LayerInv, NEW gs \in Seq(Ids), NEW rest \in Seq(RowType), GivenAs(gs, rest)
  PROVE  \E more \in Seq(RowType) : Mapped(RowsIn, gs) = OutRows \o more
<1>1. /\ buffered \in Seq(RowType) /\ ready \in Seq(BatchType) /\ Typed
  BY DEF LayerInv, Typed
<1> DEFINE given == OutRows
           still == Mapped(PartOf, ready)
<1>2. given \in Seq(RowType) /\ still \in Seq(RowType)
  <2>1. still \in Seq(RowType)
    BY <1>1, BatchFacts, MappedTyped
  <2> QED
    BY <1>1, <2>1, OutIsMapped
<1>3. Mapped(RowsIn, gs) = ((given \o still) \o buffered) \o rest
  BY <1>1, OutIsMapped DEF GivenAs, Given
<1> HIDE DEF given, still
<1> DEFINE both == given \o still
           end == buffered \o rest
           more == still \o end
<1>4. both \in Seq(RowType)
  BY <1>2, ConcatProperties
<1>5. end \in Seq(RowType)
  BY <1>1, ConcatProperties
<1> HIDE DEF both, end
<1>6. more \in Seq(RowType)
  BY <1>2, <1>5, ConcatProperties
<1>7. SameEitherWay(both, buffered, rest) /\ SameEitherWay(given, still, end)
  BY <1>1, <1>2, <1>4, <1>5, RowsAssociative, Zenon
<1>8. (both \o buffered) \o rest = both \o end
  BY <1>7 DEF SameEitherWay, end
<1>9. both \o end = given \o more
  BY <1>7 DEF SameEitherWay, both
<1>10. Mapped(RowsIn, gs) = given \o more
  BY <1>3, <1>8, <1>9 DEF both
<1> HIDE DEF more
<1> QED
  BY <1>6, <1>10 DEF given

LEMMA RowsInOrderInv == LayerInv => RowsInOrder
<1> SUFFICES ASSUME LayerInv PROVE RowsInOrder
  OBVIOUS
<1>1. Typed /\ inp \in Inputs
  BY DEF LayerInv, Typed
<1>2. PICK gs \in Seq(Ids), rest \in Seq(RowType) : GivenAs(gs, rest)
  BY DEF LayerInv, GivenInv
<1>3. PICK more \in Seq(RowType) : Mapped(RowsIn, gs) = OutRows \o more
  BY <1>2, GivenFirst
<1>4. OutRows \in Seq(RowType) /\ RowsOf(AllChunks) = Mapped(RowsIn, AllChunks)
  BY <1>1, OutIsMapped
<1>5. AllChunks \in Seq(Ids) /\ ToSet(AllChunks) = Ids
  BY <1>1, AllChunksFacts
<1>6. IsMap(RowsIn, Ids, RowType) /\ \A x \in RowType : <<x, x>> \notin InSequence
  BY <1>1, RowsInFacts
<1> DEFINE given == OutRows
           all == Mapped(RowsIn, AllChunks)
<1> HIDE DEF given
<1>7. Rising(given, InSequence)
  <2>1. /\ \A c \in Ids : Rising(RowsIn[c], InSequence)
        /\ \A c, d \in Ids : <<c, d>> \in Distinct =>
              \A x \in ToSet(RowsIn[c]), y \in ToSet(RowsIn[d]) : <<x, y>> \in InSequence
    BY <1>1, RowsInFacts DEF Distinct
  <2>2. Rising(gs, Distinct)
    BY <1>2 DEF GivenAs
  <2>3. Rising(Mapped(RowsIn, gs), InSequence)
    BY <1>6, <2>1, <2>2, RisingMapped
  <2>4. Rising(given \o more, InSequence)
    BY <1>3, <2>3 DEF given
  <2>5. given \in Seq(RowType)
    BY <1>4 DEF given
  <2> QED
    BY <2>4, <2>5, RisingConcat
<1>8. IsInjective(given)
  <2>1. given \in Seq(RowType)
    BY <1>4 DEF given
  <2> QED
    BY <1>6, <1>7, <2>1, RisingIsInjective
<1>9. ToSet(given) \subseteq ToSet(all)
  <2> SUFFICES ASSUME NEW x \in ToSet(given) PROVE x \in ToSet(all)
    OBVIOUS
  <2>1. x \in ToSet(Mapped(RowsIn, gs))
    <3>1. given \in Seq(RowType)
      BY <1>4 DEF given
    <3>2. ToSet(given \o more) = ToSet(given) \cup ToSet(more)
      BY <3>1, ConcatElements
    <3> QED
      BY <1>3, <3>2 DEF given
  <2>2. \E c \in ToSet(gs) : x \in ToSet(RowsIn[c])
    BY <1>6, <2>1, MappedElements
  <2>3. ToSet(gs) \subseteq Ids
    BY ElementsTyped
  <2>4. \E c \in ToSet(AllChunks) : x \in ToSet(RowsIn[c])
    BY <1>5, <2>2, <2>3
  <2> QED
    BY <1>5, <1>6, <2>4, MappedElements
<1>10. ASSUME ordered PROVE IsPrefix(given, all)
  <2>1. PICK r \in Seq(Ids) : AllChunks = gs \o r
    BY <1>2, <1>10 DEF GivenAs
  <2> DEFINE others == Mapped(RowsIn, r)
  <2>2. Mapped(RowsIn, gs \o r) = Mapped(RowsIn, gs) \o others
    BY <1>6, MappedConcat
  <2>3. others \in Seq(RowType)
    BY <1>6, MappedTyped
  <2> HIDE DEF others
  <2>4. given \in Seq(RowType)
    BY <1>4 DEF given
  <2>5. SameEitherWay(given, more, others)
    BY <2>3, <2>4, RowsAssociative, Zenon
  <2> DEFINE after == more \o others
  <2>6. after \in Seq(RowType)
    BY <2>3, ConcatProperties
  <2>7. all = given \o after
    BY <1>3, <2>1, <2>2, <2>5 DEF SameEitherWay, given
  <2> HIDE DEF after, all
  <2> QED
    BY <2>4, <2>6, <2>7, PrefixOfConcat
<1>11. ASSUME NEW m \in DOMAIN given, NEW n \in DOMAIN given,
              m < n /\ given[m][1] = given[n][1] /\ given[m][2] = given[n][2]
       PROVE  given[m][3] < given[n][3]
  <2>1. <<given[m], given[n]>> \in InSequence
    BY <1>7, <1>11 DEF Rising
  <2> QED
    BY <1>11, <2>1 DEF InSequence
<1> HIDE DEF all
<1> QED
  BY <1>4, <1>8, <1>9, <1>10, <1>11 DEF RowsInOrder, given, all

\* The rows given come in the order of the input, none twice, none from elsewhere (the order of the
\* results of `map_ordered` and `map_unordered`, the sample's chunks first).
THEOREM RowsInOrderHolds == Spec => []RowsInOrder
BY LayerInvariant, RowsInOrderInv, PTL

-----------------------------------------------------------------------------
\* The end of a read.

\* A read that ended without an error took every chunk, and the rows of each were given.
LEMMA AtTheEnd ==
  ASSUME LayerInv, caller = "ended"
  PROVE  /\ phase = "read" /\ working = {}
         /\ NoFeatures \notin ToSet(taken) /\ SourceError \notin ToSet(taken)
         /\ streams = <<>> /\ ~AllSkipped
         /\ ToSet(taken) = Ids /\ Ids \cap Bad = {}
         /\ \E gs \in Seq(Ids) : /\ Rising(gs, Distinct) /\ ToSet(gs) = Ids
                                 /\ Mapped(RowsIn, gs) = OutRows
<1>1. Typed /\ NotBefore /\ SourcesInv /\ TakenInv /\ GivenInv /\ EndInv
  BY DEF LayerInv
<1>2. inp \in Inputs /\ taken \in Seq(Ids \cup Others) /\ streams \in Seq(StreamType)
  BY <1>1 DEF Typed
<1>3. phase = "read"
  BY <1>1 DEF NotBefore
<1>4. ~open /\ ready = <<>>
  BY <1>1 DEF EndInv
<1>5. Sound
  BY <1>4 DEF Sound, AllOk
<1>6. stopped /\ working \cup done = {} /\ buffered = <<>>
  BY <1>1, <1>4, <1>5 DEF EndInv
<1>7. PICK gs \in Seq(Ids), rest \in Seq(RowType) : GivenAs(gs, rest)
  BY <1>1 DEF GivenInv
<1>8. /\ Rising(gs, Distinct) /\ Mapped(RowsIn, gs) = Given \o rest /\ rest = <<>>
      /\ \A m \in Consumed : taken[m] \in ToSet(gs) /\ taken[m] \notin Bad
  BY <1>5, <1>7 DEF GivenAs
<1>9. ToSet(gs) \subseteq Ids
  BY ElementsTyped
<1>10. \A item \in ToSet(taken) : item \in ToSet(gs) /\ item \notin Bad /\ item \in Ids
  <2>1. Consumed = DOMAIN taken
    BY <1>6 DEF Consumed
  <2>2. ToSet(taken) = {taken[m] : m \in DOMAIN taken}
    BY DEF ToSet
  <2> QED
    BY <1>8, <1>9, <2>1, <2>2
<1>11. NoFeatures \notin ToSet(taken) /\ SourceError \notin ToSet(taken)
  BY <1>2, <1>10, NoIdIsOther DEF Others
<1>12. streams = <<>> /\ ~AllSkipped
  BY <1>1, <1>6, <1>11 DEF SourcesInv
<1>13. PICK cs \in Seq(Ids) : TakenAs(cs)
  BY <1>1, <1>3 DEF TakenInv
<1>14. taken = cs
  <2>1. SUFFICES ASSUME NEW e \in Others, taken = Append(cs, e) PROVE FALSE
    BY <1>13 DEF TakenAs
  <2>2. Len(cs) \in Nat /\ DOMAIN cs = 1 .. Len(cs)
    BY LenProperties
  <2>3. Append(cs, e)[Len(cs) + 1] = e /\ DOMAIN Append(cs, e) = 1 .. Len(cs) + 1
    BY <2>2
  <2>4. Len(cs) + 1 \in 1 .. Len(cs) + 1
    BY <2>2
  <2>5. e \in ToSet(taken)
    BY <2>1, <2>3, <2>4 DEF ToSet
  <2> QED
    BY <1>11, <2>5 DEF Others
<1>15. ToSet(taken) = Ids
  <2>1. Left = <<>>
    BY <1>12, MappedEmpty DEF Left
  <2>2. cs \o <<>> = cs
    BY ConcatEmptySeq
  <2>3. ToSet(cs \o Left) = Ids
    BY <1>13 DEF TakenAs
  <2> QED
    BY <1>14, <2>1, <2>2, <2>3
<1>16. Mapped(RowsIn, gs) = OutRows
  <2>1. OutRows = Mapped(PartOf, out) /\ OutRows \in Seq(RowType)
    BY <1>1, OutIsMapped
  <2>2. Mapped(PartOf, ready) = <<>>
    BY <1>4, MappedEmpty
  <2>3. Mapped(RowsIn, gs) = ((OutRows \o <<>>) \o <<>>) \o <<>>
    BY <1>6, <1>8, <2>1, <2>2 DEF Given
  <2> QED
    BY <2>1, <2>3, ConcatEmptySeq
<1>17. ToSet(gs) = Ids /\ Ids \cap Bad = {}
  BY <1>9, <1>10, <1>15
<1> QED
  BY <1>3, <1>6, <1>8, <1>11, <1>12, <1>15, <1>16, <1>17

\* Then every row of the input was given, and the report counts them.
LEMMA EveryRow ==
  ASSUME LayerInv, caller = "ended"
  PROVE  ToSet(OutRows) = ToSet(RowsOf(AllChunks)) /\ report = Len(OutRows)
<1>1. Typed /\ inp \in Inputs /\ ReportInv /\ taken \in Seq(Ids \cup Others)
  BY DEF LayerInv, Typed
<1>2. working = {} /\ ToSet(taken) = Ids /\ Ids \cap Bad = {}
  BY AtTheEnd
<1>3. PICK gs \in Seq(Ids) : Rising(gs, Distinct) /\ ToSet(gs) = Ids /\ Mapped(RowsIn, gs) = OutRows
  BY AtTheEnd
<1>4. OutRows \in Seq(RowType) /\ RowsOf(AllChunks) = Mapped(RowsIn, AllChunks)
  BY <1>1, OutIsMapped
<1>5. AllChunks \in Seq(Ids) /\ ToSet(AllChunks) = Ids
  BY <1>1, AllChunksFacts
<1>6. IsMap(RowsIn, Ids, RowType)
  BY <1>1, RowsInFacts
<1> DEFINE given == OutRows
           all == RowsOf(AllChunks)
<1>7. \A x : x \in ToSet(given) <=> \E c \in Ids : x \in ToSet(RowsIn[c])
  BY <1>3, <1>6, MappedElements
<1>8. \A x : x \in ToSet(all) <=> \E c \in Ids : x \in ToSet(RowsIn[c])
  BY <1>4, <1>5, <1>6, MappedElements
<1>9. IsInjective(given)
  BY RowsInOrderInv DEF RowsInOrder
<1>10. Cardinality(ToSet(given)) = Len(given)
  <2> HIDE DEF given
  <2>1. given \in Seq(RowType)
    BY <1>4 DEF given
  <2> QED
    BY <1>9, <2>1, InjectiveSize
<1>11. Reported = ToSet(given)
  <2>1. ToSet(given) \subseteq RowType
    BY <1>4, ElementsTyped
  <2>2. ASSUME NEW row \in Reported PROVE row \in ToSet(given)
    <3>1. PICK n \in (DOMAIN taken) \ working : row \in ToSet(RowsIn[taken[n]])
      BY DEF Reported
    <3>2. taken[n] \in ToSet(taken)
      BY DEF ToSet
    <3> QED
      BY <1>2, <1>7, <3>1, <3>2
  <2>3. ASSUME NEW row \in ToSet(given) PROVE row \in Reported
    <3>1. PICK c \in Ids : row \in ToSet(RowsIn[c])
      BY <1>7
    <3>2. PICK n \in DOMAIN taken : taken[n] = c
      BY <1>2 DEF ToSet
    <3>3. c \notin Bad /\ n \in (DOMAIN taken) \ working
      BY <1>2
    <3> QED
      BY <2>1, <3>1, <3>2, <3>3 DEF Reported
  <2> QED
    BY <2>2, <2>3
<1>12. ToSet(given) = ToSet(all)
  BY <1>7, <1>8
<1> QED
  BY <1>1, <1>10, <1>11, <1>12 DEF ReportInv

LEMMA EndsWithEverythingInv == LayerInv => EndsWithEverything
<1> SUFFICES ASSUME LayerInv PROVE EndsWithEverything
  OBVIOUS
<1> DEFINE nothing == \A s \in DOMAIN inp : inp[s].last = "skipped"
<1>1. inp \in Inputs /\ SourcesInv /\ NotBefore /\ read \in Nat
  BY DEF LayerInv, Typed
<1>2. /\ DOMAIN inp = 1 .. Len(inp) /\ Len(inp) \in Nat /\ inp \in Seq(SourceType)
      /\ \A s \in DOMAIN inp : inp[s].last \in {"read", "skipped", "fail", "panic"} /\ s # NoStream
  BY <1>1, InputFacts DEF SourceType
<1>3. streams = <<>> => \A s \in DOMAIN inp : EndedSource(s)
  BY DEF EndedSource
<1>4. ASSUME caller = "ended"
      PROVE  /\ ToSet(OutRows) = ToSet(RowsOf(AllChunks)) /\ report = Len(OutRows)
             /\ \A s \in DOMAIN inp : ~Fails(s)
             /\ inp # <<>> => ~nothing
  <2>1. phase = "read" /\ SourceError \notin ToSet(taken) /\ streams = <<>> /\ ~AllSkipped
    BY <1>4, AtTheEnd
  <2>2. \A s \in DOMAIN inp : ~Fails(s)
    BY <1>1, <1>3, <2>1 DEF SourcesInv
  <2>3. ASSUME inp # <<>>, nothing PROVE FALSE
    <3>1. 1 \in DOMAIN inp
      BY <1>2, <2>3, EmptySeq
    <3>2. read = 0
      BY <1>1, <2>3 DEF SourcesInv
    <3>3. 1 \in skipped
      BY <1>1, <1>3, <2>1, <2>3, <3>1 DEF SourcesInv
    <3> QED
      BY <2>1, <3>2, <3>3 DEF AllSkipped
  <2>4. ToSet(OutRows) = ToSet(RowsOf(AllChunks)) /\ report = Len(OutRows)
    BY <1>4, EveryRow
  <2> QED
    BY <2>2, <2>3, <2>4
<1>5. ASSUME NoFeatures \in ToSet(taken) PROVE nothing
  <2>1. SourceError \notin ToSet(taken) /\ streams = <<>> /\ AllSkipped
    BY <1>1, <1>5 DEF SourcesInv
  <2>2. phase = "read"
    <3>1. taken # <<>>
      BY <1>5 DEF ToSet
    <3> QED
      BY <1>1, <3>1 DEF NotBefore
  <2>3. \A s \in DOMAIN inp : ~Fails(s)
    BY <1>1, <1>3, <2>1, <2>2 DEF SourcesInv
  <2>4. \A s \in DOMAIN inp : inp[s].last # "read"
    BY <1>1, <1>3, <2>1 DEF SourcesInv, AllSkipped
  <2> QED
    BY <1>2, <2>3, <2>4 DEF Fails
<1> HIDE DEF nothing
<1> QED
  BY <1>4, <1>5 DEF EndsWithEverything, nothing

\* A read that ends without an error gave every row, and one that reports no features had none:
\* whatever the sample took, however the workers interleaved and the batches were cut.
THEOREM EndsWithEverythingHolds == Spec => []EndsWithEverything
BY LayerInvariant, EndsWithEverythingInv, PTL

-----------------------------------------------------------------------------
\* The sample.

LEMMA CompleteSampleInv == LayerInv => CompleteSample
<1> SUFFICES ASSUME LayerInv, phase = "scan"
             PROVE  sample.complete <=> /\ sample.chunks = AllChunks
                                        /\ sample.features <= Budget
                                        /\ \A s \in DOMAIN inp : ~Fails(s)
  BY DEF CompleteSample
<1> DEFINE chunks == sample.chunks
           after == sample.after
           rest == Left
<1>1. Typed /\ SourcesInv /\ NotBefore /\ SampleInv
  BY DEF LayerInv
<1>2. /\ chunks \in Seq(Ids) /\ after \in Seq(Ids) /\ rest \in Seq(Ids)
      /\ sample.features \in Nat /\ Budget \in Nat
  BY <1>1, LeftTyped, LayerAssumption DEF Typed
<1>3. /\ (chunks \o after) \o rest = AllChunks
      /\ sample.complete => streams = <<>> /\ after = <<>> /\ sample.features <= Budget
      /\ ~sample.complete => sample.features > Budget \/ after # <<>>
  BY <1>1 DEF SampleInv
<1>4. ASSUME sample.complete
      PROVE  /\ chunks = AllChunks /\ sample.features <= Budget
             /\ \A s \in DOMAIN inp : ~Fails(s)
  <2>1. streams = <<>> /\ after = <<>>
    BY <1>3, <1>4
  <2>2. rest = <<>>
    BY <2>1, MappedEmpty DEF Left
  <2>3. chunks = AllChunks
    <3> HIDE DEF chunks, after, rest
    <3> QED
      BY <1>2, <1>3, <2>1, <2>2, ConcatEmptySeq
  <2>4. \A s \in DOMAIN inp : EndedSource(s)
    BY <2>1 DEF EndedSource
  <2>5. SourceError \notin ToSet(taken)
    BY <1>1 DEF NotBefore, ToSet
  <2>6. \A s \in DOMAIN inp : ~Fails(s)
    BY <1>1, <2>4, <2>5 DEF SourcesInv
  <2> QED
    BY <1>3, <1>4, <2>3, <2>6
<1>5. ASSUME ~sample.complete, chunks = AllChunks, sample.features <= Budget PROVE FALSE
  <2>1. after # <<>>
    BY <1>2, <1>3, <1>5
  <2> HIDE DEF chunks, after, rest
  <2>2. Len(after) \in Nat \ {0} /\ Len(chunks) \in Nat /\ Len(rest) \in Nat
    BY <1>2, <2>1, EmptySeq, LenProperties
  <2>3. chunks \o after \in Seq(Ids) /\ Len(chunks \o after) = Len(chunks) + Len(after)
    BY <1>2, ConcatProperties
  <2>4. Len((chunks \o after) \o rest) = (Len(chunks) + Len(after)) + Len(rest)
    BY <1>2, <2>3, ConcatProperties
  <2> QED
    BY <1>3, <1>5, <2>2, <2>4
<1> QED
  BY <1>4, <1>5

\* A sample is called complete (`Sample::complete`, set by `take_sample` when the input ended) just
\* when it holds every chunk of the layer and the budget leaves none of their features unscanned.
THEOREM CompleteSampleHolds == Spec => []CompleteSample
BY LayerInvariant, CompleteSampleInv, PTL

=============================================================================
