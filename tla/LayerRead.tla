----------------------------- MODULE LayerRead -----------------------------
(***************************************************************************)
(* A read of one layer, from its sources to its batches:                   *)
(*   - `read` and `take_sample` of crates/xeibe-arrow/src/api.rs: a sample *)
(*     of the first chunks, taken in order before the workers start;       *)
(*   - `Sequential` and `Rest` of parallel.rs: the sample's chunks, and    *)
(*     what is left, as the workers' input;                                *)
(*   - `ChunkStream`, `Pipeline::process_chunk` and `Batches` of           *)
(*     pipeline.rs, `LayerReader` of reader.rs.                            *)
(*                                                                         *)
(* The workers are what ParallelMap promises (MapContract): they take the  *)
(* chunks of each open source in order, and their results come out in the  *)
(* order of the chunks if ordered, else in any order.  A chunk is <<s, k>>,*)
(* the k-th of source s; its f-th feature is <<s, k, f>>.                  *)
(***************************************************************************)
EXTENDS Naturals, Sequences, SequencesExt

CONSTANTS
    Inputs,             \* the inputs there may be, sequences of SourceType
    Orders,             \* the ReadOptions::preserve_order there may be
    MaxOpen, InFlight,  \* MapOptions
    OnFeatureErrors,    \* the ReadOptions::on_feature_error there may be
    Budget,             \* sample.features_per_layer
    MaxBufferBytes      \* sample.max_buffer_bytes

\* What becomes of a feature: a row; not of this layer; a value that does not fit; a geometry
\* that does not parse; malformed XML; a panic.
FeatureKinds == {"row", "other", "value", "geometry", "xml", "panic"}
ChunkType == [features: Seq(FeatureKinds), bytes: Nat]
\* How a source ends: it was read, it has no features and is skipped, it failed, it panicked.
SourceType == [chunks: Seq(ChunkType), last: {"read", "skipped", "fail", "panic"}]

ASSUME LayerAssumption ==
    /\ Inputs \subseteq Seq(SourceType)
    /\ \A i \in Inputs : \A s \in DOMAIN i :
        /\ i[s].last = "skipped" => i[s].chunks = <<>>
        /\ \A k \in DOMAIN i[s].chunks : i[s].chunks[k].features # <<>>
    /\ Orders \subseteq BOOLEAN
    /\ MaxOpen \in Nat \ {0} /\ InFlight \in Nat \ {0}
    /\ OnFeatureErrors \subseteq {"Error", "Skip", "NullGeometry"}
    /\ Budget \in Nat /\ MaxBufferBytes \in Nat

VARIABLES
    inp, onError,   \* the input, and what a feature error does
    ordered,        \* ReadOptions::preserve_order
    phase,          \* where `read` is
    streams,        \* the streams not ended, each with its source and the chunks left
    current,        \* Sequential::current: the first of them has been opened
    ended,          \* Sequential::done, then Rest::done
    read, skipped,  \* SourceShared: sources split to the end, and those skipped
    sample,         \* Sample, with the counts of take_sample
    taken,          \* the items the workers took, in the order of their numbers
    working, done,  \* numbers of the items in a worker's hands, and of results not yet taken
    stopped,        \* the workers' input has ended
    report,         \* ReadReport: the rows of the chunks processed
    open,           \* Batches::chunks is Some
    buffered,       \* rows in the coalescer
    ready,          \* Batches::ready
    caller,         \* where the caller of the LayerReader is
    out             \* the batches and errors it was given

sourceVars == <<streams, current, ended, read, skipped>>
poolVars == <<taken, working, done, stopped, report>>
batchVars == <<open, buffered, ready, caller, out>>
inputVars == <<inp, onError, ordered>>
vars == <<inputVars, phase, sourceVars, sample, poolVars, batchVars>>

Chunk(id) == inp[id[1]].chunks[id[2]]
ChunksOf(s) == [k \in DOMAIN inp[s].chunks |-> <<s, k>>]
Features(id) == [f \in DOMAIN Chunk(id).features |-> <<id[1], id[2], f>>]
Kind(row) == Chunk(row).features[row[3]]

\* Items that are no chunk: an error of a source, and that no source has features.
SourceError == <<0, 1>>
NoFeatures == <<0, 2>>

NoStream == 0
Batch(rows) == [ok |-> TRUE, rows |-> rows]
Failure(cause) == [ok |-> FALSE, rows |-> <<cause>>]

Init ==
    /\ inp \in Inputs /\ onError \in OnFeatureErrors /\ ordered \in Orders
    /\ phase \in {"sample", "read"}      \* a schema may make the sample needless
    /\ streams = [s \in DOMAIN inp |-> [source |-> s, chunks |-> ChunksOf(s)]]
    /\ current = FALSE /\ ended = FALSE
    /\ read = 0 /\ skipped = {}
    /\ sample = [chunks |-> <<>>, features |-> 0, bytes |-> 0, complete |-> FALSE, after |-> <<>>]
    /\ taken = <<>> /\ working = {} /\ done = {} /\ stopped = FALSE
    /\ report = 0
    /\ open = TRUE /\ buffered = <<>> /\ ready = <<>>
    /\ caller = "idle" /\ out = <<>>

-----------------------------------------------------------------------------
\* The sample: Sequential::next, called by take_sample.

Sampling == phase \in {"sample", "after"}

SampleOpen ==
    /\ Sampling
    /\ ~current /\ streams # <<>>
    /\ current' = TRUE
    /\ UNCHANGED <<inputVars, phase, streams, ended, read, skipped, sample, poolVars, batchVars>>

MutWhereNext(features, bytes) == \* Mutant: a full sample is thought to end the input.
    IF features >= Budget \/ bytes >= MaxBufferBytes THEN "scan" ELSE "sample"

\* Where take_sample is with so many features and bytes: over the budget, at a limit (one more
\* chunk shows whether there is more), or below.
WhereNext(features, bytes) ==
    IF features > Budget THEN "scan"
    ELSE IF features = Budget \/ bytes >= MaxBufferBytes THEN "after"
    ELSE "sample"

SampleChunk ==
    LET id == Head(streams[1].chunks)
        features == sample.features + Len(Chunk(id).features)
        bytes == sample.bytes + Chunk(id).bytes
    IN  /\ Sampling
        /\ current /\ streams[1].chunks # <<>>
        /\ streams' = [streams EXCEPT ![1].chunks = Tail(@)]
        /\ \/ /\ phase = "sample"
              /\ sample' = [sample EXCEPT !.chunks = Append(@, id), !.features = features,
                                          !.bytes = bytes]
              /\ phase' = WhereNext(features, bytes)
           \/ /\ phase = "after"
              /\ sample' = [sample EXCEPT !.after = <<id>>]
              /\ phase' = "scan"
        /\ UNCHANGED <<inputVars, current, ended, read, skipped, poolVars, batchVars>>

\* The bookkeeping of SourceChunks::next at the end of a source.
CountEnd(source) ==
    /\ read' = IF source # NoStream /\ inp[source].last = "read" THEN read + 1 ELSE read
    /\ skipped' = IF source # NoStream /\ inp[source].last = "skipped"
                  THEN skipped \cup {source} ELSE skipped

Fails(source) == source # NoStream /\ inp[source].last \in {"fail", "panic"}

\* The source has ended, or it fails and `read` with it.
SampleSourceEnds ==
    LET source == streams[1].source
    IN  /\ Sampling
        /\ current /\ streams[1].chunks = <<>>
        /\ streams' = Tail(streams)
        /\ current' = FALSE
        /\ CountEnd(source)
        /\ phase' = IF Fails(source) THEN "failed" ELSE phase
        /\ UNCHANGED <<inputVars, ended, sample, poolVars, batchVars>>

\* ChunkStream::finish has a last item, an error.
AllSkipped == read = 0 /\ skipped # {}

\* The input ends within the sample.
SampleEnds ==
    /\ Sampling
    /\ ~current /\ streams = <<>>
    /\ ended' = TRUE
    /\ \/ AllSkipped /\ phase' = "failed" /\ UNCHANGED sample
       \/ /\ ~AllSkipped
          /\ phase' = "scan"
          /\ sample' = [sample EXCEPT !.complete = TRUE]
    /\ UNCHANGED <<inputVars, streams, current, read, skipped, poolVars, batchVars>>

\* scan_sample: the first Budget features of the sample's chunks.
Scanned ==
    LET all == FlattenSeq([n \in DOMAIN sample.chunks |-> Features(sample.chunks[n])])
    IN  SubSeq(all, 1, Min({Budget, Len(all)}))

\* Sequential::rest: the chunks taken, then the stream they were taken from, come first.
Rest(chunks) ==
    IF current
    THEN [streams EXCEPT ![1].chunks = chunks \o @]
    ELSE IF chunks # <<>>
    THEN <<[source |-> NoStream, chunks |-> chunks]>> \o streams
    ELSE streams

MutScan ==                       \* Mutant: the chunk taken to see whether there is more is lost.
    /\ phase = "scan"
    /\ phase' = "read"
    /\ streams' = Rest(sample.chunks)
    /\ UNCHANGED <<inputVars, current, ended, read, skipped, sample, poolVars, batchVars>>

\* The sample is scanned; malformed XML in it, or no feature of the layer (unless a schema was
\* given), fails the read.  The workers then start on the rest.
Scan ==
    LET kinds == {Kind(Scanned[n]) : n \in DOMAIN Scanned}
    IN  /\ phase = "scan"
        /\ \/ /\ "xml" \in kinds \/ kinds \subseteq {"other"}
              /\ phase' = "failed"
              /\ UNCHANGED streams
           \/ /\ "xml" \notin kinds
              /\ phase' = "read"
              /\ streams' = Rest(sample.chunks \o sample.after)
        /\ UNCHANGED <<inputVars, current, ended, read, skipped, sample, poolVars, batchVars>>

-----------------------------------------------------------------------------
\* The workers.  A worker that has its ticket when the read is dropped goes on.

Window == 1 .. Min({IF ordered THEN 1 ELSE MaxOpen, Len(streams)})

\* A ticket is free.
MayTake == phase = "read" /\ ~stopped /\ Cardinality(working \cup done) < InFlight

Take(item) ==
    /\ taken' = Append(taken, item)
    /\ working' = working \cup {Len(taken) + 1}
    /\ UNCHANGED <<done, report>>

TakeChunk(i) ==
    /\ MayTake
    /\ i \in Window /\ streams[i].chunks # <<>>
    /\ Take(Head(streams[i].chunks))
    /\ streams' = [streams EXCEPT ![i].chunks = Tail(@)]
    /\ UNCHANGED <<inputVars, phase, current, ended, read, skipped, sample, stopped, batchVars>>

\* A stream ends; the error of a source ends the input.
StreamEnds(i) ==
    LET source == streams[i].source
    IN  /\ MayTake
        /\ i \in Window /\ streams[i].chunks = <<>>
        /\ streams' = RemoveAt(streams, i)
        /\ CountEnd(source)
        /\ \/ Fails(source) /\ Take(SourceError) /\ stopped' = TRUE
           \/ ~Fails(source) /\ UNCHANGED <<taken, working, done, report, stopped>>
        /\ UNCHANGED <<inputVars, phase, current, ended, sample, batchVars>>

MutInputEnds ==                  \* Mutant: the end is noted only with a last item.
    /\ MayTake
    /\ streams = <<>>
    /\ ~ended /\ AllSkipped /\ Take(NoFeatures)
    /\ stopped' = TRUE
    /\ UNCHANGED <<inputVars, phase, sourceVars, sample, batchVars>>

\* No stream is left: Rest::finish, unless the sample saw the end.
InputEnds ==
    /\ MayTake
    /\ streams = <<>>
    /\ stopped' = TRUE
    /\ \/ ~ended /\ AllSkipped /\ Take(NoFeatures)
       \/ (ended \/ ~AllSkipped) /\ UNCHANGED <<taken, working, done, report>>
    /\ UNCHANGED <<inputVars, phase, sourceVars, sample, batchVars>>

\* FeatureReader::commit, and what reading the feature may meet before.
Outcome(kind) ==
    IF kind \in {"row", "other"} THEN kind
    ELSE IF kind \in {"xml", "panic"} THEN "error"
    ELSE IF onError = "Skip" THEN "skipped"
    ELSE IF onError = "NullGeometry" /\ kind = "geometry" THEN "row"
    ELSE "error"

ErrorIn(item) ==
    item \notin {SourceError, NoFeatures} =>
        \E f \in DOMAIN Chunk(item).features : Outcome(Chunk(item).features[f]) = "error"

\* A row for each feature that comes to one.
Rows(item) ==
    FlattenSeq([f \in DOMAIN Chunk(item).features |->
                    IF Outcome(Chunk(item).features[f]) = "row"
                    THEN <<Features(item)[f]>> ELSE <<>>])

\* process_chunk: the report is merged at its end, so not if there was an error.
Process(n) ==
    /\ n \in working
    /\ working' = working \ {n} /\ done' = done \cup {n}
    /\ report' = IF ErrorIn(taken[n]) THEN report ELSE report + Len(Rows(taken[n]))
    /\ UNCHANGED <<inputVars, phase, sourceVars, sample, taken, stopped, batchVars>>

-----------------------------------------------------------------------------
\* Batches::next.

Ask ==
    /\ phase = "read"
    /\ caller = "idle"
    /\ caller' = "asking"
    /\ UNCHANGED <<inputVars, phase, sourceVars, sample, poolVars, open, buffered, ready, out>>

\* A batch that is ready; after an error LayerReader gives nothing more.
Give ==
    /\ caller = "asking"
    /\ ready # <<>>
    /\ out' = Append(out, Head(ready))
    /\ ready' = Tail(ready)
    /\ caller' = IF Head(ready).ok THEN "idle" ELSE "failed"
    /\ UNCHANGED <<inputVars, phase, sourceVars, sample, poolVars, open, buffered>>

GiveNone ==
    /\ caller = "asking"
    /\ ready = <<>> /\ ~open
    /\ caller' = "ended"
    /\ UNCHANGED <<inputVars, phase, sourceVars, sample, poolVars, open, buffered, ready, out>>

\* The coalescer (external) completes a batch of some of its first rows, or none.
Completed(rows, n) == IF n = 0 THEN <<>> ELSE <<Batch(SubSeq(rows, 1, n))>>

\* end_with: the coalescer's rows, then the error; dropping the map stops the workers.
EndWith(rows, error) ==
    /\ open' = FALSE
    /\ ready' = Completed(rows, Len(rows)) \o <<error>>
    /\ buffered' = <<>>

\* The next result: in order the next number's, else any.
NextResult(n) ==
    /\ caller = "asking" /\ ready = <<>> /\ open
    /\ n \in done
    /\ ordered => \A m \in working \cup done : n <= m

ChunkOk(n) ==
    LET rows == buffered \o Rows(taken[n])
    IN  /\ NextResult(n) /\ ~ErrorIn(taken[n])
        /\ done' = done \ {n}
        /\ \E m \in 0 .. Len(rows) :
              /\ ready' = Completed(rows, m)
              /\ buffered' = SubSeq(rows, m + 1, Len(rows))
        /\ UNCHANGED <<inputVars, phase, sourceVars, sample, taken, working, stopped, report, open,
                       caller, out>>

\* A result that is an error or a panic.
ChunkFails(n) ==
    /\ NextResult(n) /\ ErrorIn(taken[n])
    /\ done' = done \ {n}
    /\ EndWith(buffered, Failure(taken[n]))
    /\ UNCHANGED <<inputVars, phase, sourceVars, sample, taken, working, stopped, report, caller, out>>

\* The coalescer refuses a batch of the chunk.
PushFails(n) ==
    LET rows == Rows(taken[n])
    IN  /\ NextResult(n) /\ ~ErrorIn(taken[n])
        /\ done' = done \ {n}
        /\ \E m \in 0 .. Len(rows) - 1 :
              EndWith(buffered \o SubSeq(rows, 1, m), Failure(taken[n]))
        /\ UNCHANGED <<inputVars, phase, sourceVars, sample, taken, working, stopped, report, caller,
                       out>>

MutChunksEnd ==                  \* Mutant: the end does not wait for results under way.
    /\ caller = "asking" /\ ready = <<>> /\ open
    /\ stopped /\ done = {}
    /\ open' = FALSE
    /\ ready' = Completed(buffered, Len(buffered))
    /\ buffered' = <<>>
    /\ UNCHANGED <<inputVars, phase, sourceVars, sample, poolVars, caller, out>>

\* Every result is in.
ChunksEnd ==
    /\ caller = "asking" /\ ready = <<>> /\ open
    /\ stopped /\ working \cup done = {}
    /\ open' = FALSE
    /\ ready' = Completed(buffered, Len(buffered))
    /\ buffered' = <<>>
    /\ UNCHANGED <<inputVars, phase, sourceVars, sample, poolVars, caller, out>>

DropReader ==
    /\ caller \in {"idle", "ended", "failed"} /\ phase = "read"
    /\ caller' = "dropped"
    /\ open' = FALSE
    /\ UNCHANGED <<inputVars, phase, sourceVars, sample, poolVars, buffered, ready, out>>

Sample == SampleOpen \/ SampleChunk \/ SampleSourceEnds \/ SampleEnds \/ Scan
Worker ==
    \/ \E i \in DOMAIN streams : TakeChunk(i) \/ StreamEnds(i)
    \/ InputEnds
    \/ \E n \in working : Process(n)
Caller == Ask \/ Give \/ GiveNone \/ ChunksEnd \/ \E n \in done : ChunkOk(n) \/ ChunkFails(n) \/ PushFails(n)

Next == Sample \/ Worker \/ Caller \/ DropReader

Spec == Init /\ [][Next]_vars

\* `read` and the workers run on, and the caller reads to the end or drops the reader.
FairSpec == Spec /\ WF_vars(Sample) /\ WF_vars(Worker) /\ WF_vars(Caller)
-----------------------------------------------------------------------------

\* The type invariant: tickets, numbers and the parts of the read that follow each other.
TypeOK ==
    /\ inp \in Inputs /\ onError \in OnFeatureErrors /\ ordered \in Orders
    /\ phase \in {"sample", "after", "scan", "read", "failed"}
    /\ \A i \in DOMAIN streams : streams[i].source \in {NoStream} \cup DOMAIN inp
    /\ read + Cardinality(skipped) <= Len(inp)
    /\ working \cap done = {} /\ working \cup done \subseteq DOMAIN taken
    /\ Cardinality(working \cup done) <= InFlight
    /\ report \in Nat
    /\ caller \in {"idle", "asking", "ended", "failed", "dropped"}
    /\ phase # "read" => taken = <<>> /\ out = <<>>

AllChunks == FlattenSeq([s \in DOMAIN inp |-> ChunksOf(s)])
RowsOf(chunks) == FlattenSeq([n \in DOMAIN chunks |-> Rows(chunks[n])])
OutRows == FlattenSeq([n \in DOMAIN out |-> IF out[n].ok THEN out[n].rows ELSE <<>>])

\* In order, the rows given so far are the first rows of the input, whichever chunks the sample
\* took, however the workers interleave and wherever an error ends the read: none twice, no gap.
\* Without order, each row comes at most once, and the rows of a chunk in order.
RowsInOrder ==
    /\ ordered => IsPrefix(OutRows, RowsOf(AllChunks))
    /\ IsInjective(OutRows)
    /\ ToSet(OutRows) \subseteq ToSet(RowsOf(AllChunks))
    /\ \A m, n \in DOMAIN OutRows :
        m < n /\ OutRows[m][1] = OutRows[n][1] /\ OutRows[m][2] = OutRows[n][2]
        => OutRows[m][3] < OutRows[n][3]

\* A read that ends without an error gave every row of every source, and its report counts them
\* ("complete once the reader is exhausted", reader.rs 53); no source failed, and not all of
\* them were skipped.  It fails with NoFeatures only if all were ("if every source is,
\* the read ends with NoFeatures", pipeline.rs 168-169), those the sample skipped included.
EndsWithEverything ==
    LET nothing == \A s \in DOMAIN inp : inp[s].last = "skipped"
    IN  /\ caller = "ended" =>
            /\ ToSet(OutRows) = ToSet(RowsOf(AllChunks)) /\ report = Len(OutRows)
            /\ \A s \in DOMAIN inp : ~Fails(s)
            /\ inp # <<>> => ~nothing
        /\ NoFeatures \in ToSet(taken) => nothing

\* A sample that is called complete is the whole layer, every feature of it scanned (the schema
\* is then inferred without min_typed_values); one that is not leaves something unscanned.
CompleteSample ==
    phase = "scan" => (sample.complete <=>
        /\ sample.chunks = AllChunks
        /\ sample.features <= Budget
        /\ \A s \in DOMAIN inp : ~Fails(s))

\* A caller that keeps asking gets the end or an error: nobody waits for a chunk for ever.
ReadEnds == <>(phase = "failed" \/ caller \in {"ended", "failed", "dropped"})

=============================================================================
