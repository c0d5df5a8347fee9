# Verification of xeibe's reading pipeline

xeibe reads GML (files, archives, object stores, WFS services) into Arrow record
batches. Two things in it are hard to test. One is the machinery of threads and
servers: workers that share an input of many sources, decode ahead of each other,
reorder results, stop at an error, load grids that other reads load too, and read
from servers that fail, truncate and change. The other is a handful of sequential
algorithms whose result must not depend on where the input happens to be cut or on
who worked on which piece: the splitter, the merging of observations, the schema
and the rows that must fit it. This directory models both in TLA+, checks them with
TLC and proves much of it with TLAPS. All
paths below are relative to the repository.

## The system

| Part | State | Operations | Talks to | Where it is hard | Module |
|---|---|---|---|---|---|
| `Input` (`xeibe-core/src/parallel.rs`) | list of streams, open streams with a lock each, numbering, `exhausted`, `stopped` | `take`, with `open_next`, `pull`, `number`, `finish`, `help` | every worker calls it; it calls `Streams` and the helper | five locks and two atomics, read at different times | `Input` |
| `ParallelMap` (`parallel.rs`) | tickets and a condition variable, result channel, results ahead of their turn | `streams` (spawn), `work`, `next`, `drop` | `Input`, the consumer | lost wake-ups, everyone waiting, bounds, a drop at any time | `ParallelMap`, `MapContract` |
| `fold` (`parallel.rs`) | `stop` flag, an accumulator per worker | spawn, step, join | `Input`, the scan | errors, panics and failed spawns while others run | `Scan` |
| `Sequential`, `Rest` (`parallel.rs`) | current stream, items taken | `next`, `rest` | the sample of a read, then the map | the seam between sample and workers | `LayerRead` |
| `DecodeAhead` (`decode.rs`) | a decoder and a queue of blocks per source | `help`, `decode_ahead`, `next_block` | helpers of `Input::take`, the splitter's reader | check-then-act across two locks | `DecodeAhead` |
| `Pager`, `read_ahead` (`xeibe-wfs`) | next request, counts, ids of the last page, warnings, a bounded channel | `next_page`, `resume_after`, `halve_page_size`, `after_page` | the server, the reader of the pages | truncation, expiry, retries, changing data, dropping | `WfsPages` |
| `read`, `ChunkStream`, `Pipeline`, `Batches`, `LayerReader` (`xeibe-arrow`) | sample, sources read and skipped, report, coalescer, ready batches | `take_sample`, `process_chunk`, `next` | the map, the caller | order, completeness, what an error takes with it | `LayerRead` |
| `Scanner` (`xeibe-schema/src/scan.rs`) | budgets, status of each source, partial observations | `run`, `share`, `scan_item` | `fold` | "the first N features" on any number of threads | `Scan` |
| `FeatureSplitter` (`xeibe-core/src/splitter.rs`) | buffer, mode, stack of open elements, bindings with caches by generation, the chunk in progress | `next`, `step`, `start_tag`, `end_feature`, `fill`, `compact`, `finish` | the source's reader below, the streams of `Input` above | stale caches, bytes dropped too soon, chunks whose context changes, documents cut off | `Splitter` |
| `HttpClient`, `HttpSource`, `ObjectStoreSource` (`xeibe-io`) | attempt, first read; a download task, its channel, the block being read | `get`, `get_range`, `get_stream`, `open`, `read` | the server, the splitter, the pager, the grid loader | retries after part of a body, a task that dies, a reader that is dropped | `RemoteSource`, `ByteStream` |
| `TreeBuilder`, `ElementNode`, `ValueStats` (`xeibe-schema`) | the path tree of each layer | `scan`, `observe`, `merge` | the workers of a scan | the result may not depend on who scanned what | `PathTree` |
| the rule engine and `FeatureReader` (`rules.rs`, `xeibe-arrow`) | columns, route tree, a row being built | `infer_schema`, `read_feature` | the merged observation, then `process_chunk` | what was inferred from the data must take the data | `Columns` |
| `Conversions`, `GridFile`, `load_grids` (`reproject.rs`, `xeibe-reproject/src/grid`) | setups of a read; the process's grid files with what is loaded, parsed and decoded | `setup`, `requests`, `insert`, `clear_grids` | the workers of every read, the grid loader | several reads load the same files in rounds, at once | `Grids` |

How they fit: `scan` runs `fold` over `ScanSources`; `read` takes a sample with
`Sequential`, hands the `Rest` to a `ParallelMap` whose function is
`process_chunk`, and `Batches` puts the results together. Both take their chunks
through one `Input`, whose helper is `DecodeAhead::help`; the streams of that input
are splitters, over readers of `xeibe-io`. The sources of a WFS read are the
`Pager`'s pages. `process_chunk` reads each feature with the routes of the schema
that `infer_schema` made of the scan's observation, and converts its geometries
with the read's `Conversions`.

Everything else (XML reader, geometry, projections, CRS tables, Arrow builders,
export, DataFusion, the front ends) is work on one value at a time or a thin
adapter; the components list in `PROJECT.json` says of each why it is not modelled. The hazards list there names, line by line, what can go wrong
and which property would catch it.

## The modules

**`Items`** is what an input looks like from outside: streams of items, each an
item, an error that ends the input, or a panic, then perhaps a last item.

**`Input`** follows `Input::take` lock by lock: an action is a critical section or
one access of an atomic, `pc` says where each worker is. `open`, `state`, `done`,
`pos`, `exhausted`, `stopped` are the fields; `taken` is the sequence of the items
in the order of their numbers, `snap` and `seen` what a worker cloned and read
before. The helper may find something to do up to `MaxHelp` times, or panic.

**`ParallelMap`** extends `Input` with the pool: a worker takes a ticket (or waits,
and may be woken for no reason), takes an item, sends its result; the consumer
receives, reorders if `Ordered`, returns tickets, ends or drops the map at any
time; a thread may fail to start. **`MapContract`** is what it promises: each
result once, in the order of the input if `Ordered`, nothing after an item that
ends the input, an end only when all were given. `KeepsContract` is the
refinement, with the results handed on as the mapping.

**`DecodeAhead`** has a reader per source and several helpers. Blocks are numbers;
a source gives its blocks, then its end or an error, alone or with data. A helper goes
through the sources it has still to try (`todo`) from the one opened first (`age`), is
`at` one and has a block in its `hand` between decoding and queueing.

**`WfsPages`** has the pager, its thread and channel (or none, if concurrency is
1) and the reader. A server is external: it pages by links or offsets, may cap
pages, may not say `numberMatched`, and may gain features up to `changes` times.
Any request may fail, come back truncated, or find the cached result expired.

**`LayerRead`** is a read from the sources' chunks to the caller's batches. The
workers are reduced to what `MapContract` says of them. A feature becomes a row,
is of another layer, does not fit, has a bad geometry, is malformed or panics.

**`Scan`** is `Scanner::run` on `fold`. The budget, ids and status of sources are
shared; `Input` is reduced to an atomic `take`, which is what the `Input` runs and
proofs justify: one puller per stream, order within a stream, nothing after the
end. A chunk's observation is the set of features seen.

**`Splitter`** reads a document as a sequence of tags, each one byte long, so that
an offset is an index. Its state `s` has the fields of `FeatureSplitter`; an action
is one piece of markup in one mode, a read of a block, or the hand-over of a chunk.
`base` and `Compacted` keep what the buffer has dropped, and `Slice` gives 0 for a
byte that is gone. The second half of the module says by nesting alone which
features a document has, which namespaces and bounds are in force at each, and
whether it is complete: the properties compare the two.

**`RemoteSource`** has the three requests of `HttpClient` with their retries, and
the object store's task, channel and reader; byte i of a file is i. **`ByteStream`**
is what all of them promise: the bytes asked for, in order, a normal end only after
the last, nothing after an error. `KeepsPromise` is the refinement.

**`PathTree`** has the statistics of values, the path tree a worker builds of a
chunk and how trees are merged, as operators. **`Columns`** has the rules that turn
the merged tree into columns, the routes and the reading of a feature, and a small
state machine: workers take chunks, the observation is merged, a layer is inferred
and its features are read back. Literals are one per kind (word, bool, integer,
code with leading zeros, date with or without a zone, ...).

**`Grids`** has threads of one read or of several that meet srsNames in any order.
A file is its length, the ranges its parser needs one after another, its blocks
and what is wrong with it; `copy` is the process's `GridFile` by name and by the
number of `clear_grids` before it.

Data is abstracted to what the properties tell apart. Where a module differs from the
code in a step, it is in one of these, none of which lets a property hold that the code
breaks:

- `LayerRead.ChunksEnd`: `finish_buffered_batch` does not fail at the end
  (`pipeline.rs:606`); its failure would be one more end with an error.
- `DecodeAhead.CallHelp`: a stream leaves the set when its reader is dropped, where the
  code keeps it while another helper holds it (`decode.rs:185`): that helper finds a
  decoder whose blocks nobody takes.
- `Grids.Ask` asks every copy a transform holds, as `grid_requests` does without a
  region; with one it asks those within the region only (`api.rs:50`).
- `Grids.Decode`: the blocks an insert completes are decoded in one step. The code sets
  them one by one (`store.rs:133`), and a reader without the lock may see some of them,
  as it may between two inserts.
- `Grids.ParsedDirs`: a bad directory shows once all its ranges came; the code may give
  the same error after the first bytes (`tiff.rs:505`).

Definitions named `Mut...` are faults put in on purpose to see that a property
notices them; no specification uses them.

## The runs

| Run | Question | Bounds |
|---|---|---|
| `input_many` | What is taken, in which order, and when is nothing left? | 3 workers, 2 open streams, 6 inputs |
| `map` | Does the map keep its contract and its bound, does it come to its end, do workers end after a drop? | 2 workers, 2 tickets, up to 5 items, in order from one stream or in any order from two |
| `decode_ahead` | Blocks in order, errors in place, bounded queues, no reader stuck | 2 sources of up to 3 blocks, 2 helpers, queue of 1 |
| `wfs` | All server kinds, strategies and failures: complete, no repeats that were not announced; a read ends, a drop stops the thread | 4 features and up to 2 insertions, pages of 1 to 4, 1 retry, concurrency 1 to 3 |
| `layer_read` | Rows in order or once, complete unless an error was given, reports, the read ends | up to 3 sources of up to 2 chunks, 3 in flight, sample of 3 |
| `scan` | Exactly the extent, `sampled` right, sources accounted for, the outcome independent of the interleaving | 4 workers and so 2 open sources, budgets 0 to 4 |
| `splitter` | The document's features once, whole, in order, in their contexts; chunks cut at the target; errors exactly where the document is incomplete | some 3000 documents of up to some 20 tags, blocks of 1 and 3 tags, targets of 1 to 3, a reader that fails |
| `remote` | Only what was asked for, in order, and no end before it; the retries that may be made; every read ends, a download nobody reads stops | files of 0 to 14 bytes, 6 ranges, 2 retries, blocks of 2 bytes, 2 ahead |
| `columns` | The schema is that of one thread; the scanned data fits it, value by value; nothing is without a column but the two texts of `TextLeftOut` | 2 workers, 2 or 3 chunks, 14 kinds of property, 17 values, features with up to 2 properties; depth 3 and 1 distinct value, both of which documents exceed |
| `grids` | A transform that is ready has its blocks; a whole file never looks short to a transform with one copy of it; a read fetches a range once; every setup ends | 2 threads of one read or two, 2 srsNames that share a file, 10 cases of files, one clear |

The bounds are small but above the thresholds of the code: more items than
tickets, more streams than may be open, a queue that is full, a budget that ends
in a chunk, between chunks, between sources and with the input, page sizes below,
at and above the server's limit, files shorter and longer than the blocks in
flight, directories that need a second round. Three workers are enough for a worker to act
between two others' steps. `input_many` and `scan` use the symmetry of their
workers; the runs with liveness properties use none.

`CHECK_DEADLOCK FALSE` stands in the runs of `DecodeAhead`, `WfsPages`, `LayerRead`,
`Splitter`, `RemoteSource`, `Columns` and `Grids`, where everything is over once the
readers, the document or the setups have ended; the liveness properties of these
runs, and in `splitter` and `columns` the properties of the finished state, say that
they do end well. `Input`,
`ParallelMap` and `Scan` state their end as an action and are checked for deadlock.
Every step of `Scan` brings it nearer to its return, so that it has no deadlock is
also why a scan returns.

### Fairness

Weak fairness of each thread's steps (the operating system runs a thread that can
run), of the step of a call under way, and, where a property is about a caller
that goes on, of the caller's next call (a `for` loop). Nothing is fair about
dropping, failing, helping or changing data. `DecodeAhead` also needs strong
fairness of the reader's wait for its decoder: a helper that found nothing to do
goes on to wait for a stream and does not compete for the lock for ever. A blocking
`Mutex` that starves a waiter while others keep taking it is excluded in this way
only. In `map` a notified waiter wakes, but which one does is arbitrary. In `remote`
the fairness of requests and reads is what their timeouts give
(`HttpClient::new`); the task's is that of the runtime, which may also end it at any
time. In `grids` each thread goes on with the setup it has begun; fetches may fail
but return.

### Where code and documentation disagree

Two runs are expected to be violated; `findings` in `PROJECT.json` quotes the lines.

1. `wfs_repeats`: an id that repeats is not kept as an id of its page, so a
   feature on three pages in a row is reported on the second only.
2. `columns_order`: children (and layers) are put in the order of first appearance
   only when a merge inserts one or the other side was seen first. A merge that only
   lowers a child's first appearance leaves the order as it was, so the order of the
   columns depends on which worker scanned which chunk.

Met while modelling, and not runs of their own:

- `decode.rs:258`: room is looked for before the decoder is locked, so the queue may
  exceed 16 blocks by one for each further helper. `QueueBound` is the true bound.
- `pipeline.rs:498`: after the reader returned an error its report may still grow, by
  chunks under way; `reader.rs:53` calls it complete once the reader is exhausted.
- `pipeline.rs:471`: the rows before a bad feature in its own chunk are dropped with
  it; "the rows before it still come out first" (`pipeline.rs:542`) holds for whole
  chunks.
- `node.rs:145`, `rules.rs:869`: an element that has text in some instances and children
  in others, never both in one, is `ElementsOnly` and has no column of its own: its text
  is in no column, and a read with the schema drops it without an error.
  `docs/architecture.md:12` says that "a schema from a scan describes everything the scan
  saw" and `docs/schema-inference.md:306` that there is one column per leaf path, a leaf
  being an element's text; the table at `docs/schema-inference.md:525` gives
  `ElementsOnly` no column. `columns` has such documents (`p` with the text "x" in one
  feature and with a child `a` in the other), so it does *not* confirm the sentence of
  `architecture.md`: `LeavesDescribed` excepts this text by name (`TextLeftOut`), and with
  `HasColumn` alone TLC shows it violated by these two features.
- `rules.rs:129`: a feature's own text has no column either (`infer_schema` has columns for
  the root's attributes and children only), against the same two lines; the other part of
  `TextLeftOut`. The features `G` of `columns` have such a text.
- `rules.rs:778`: a type wrapper whose type hit the limit on depth or children loses
  what is below it without a column; elsewhere such a subtree becomes a map.
- With `Lossless::Lossy` some literals are classified as a type that `parse_scalar`
  does not take ("TRUE" as a boolean, a plain date as a timestamp). `columns` is about
  `Value`.
- Merging trees inserts children without looking at `max_children`; the order of
  attributes depends on the merge order, too.
- `http.rs:312`, `object_store.rs:118`: an archive is recognised only if its first
  bytes come in one read or block. `RemoteSource` has this as it is.
- `store.rs:10`: "a range is fetched once per process" does not hold for two reads
  that load at the same time; for one read it does (`FetchedOnce`).
- `store.rs:159`: a file that was found to be no grid asks for nothing, so a later
  read's load succeeds and the error is left to its geometries, where
  `reproject.rs:9` says that such a grid fails the read.
- `select/mod.rs:944`: `clear_grids` between two operations of one transform gives it
  two copies of a file. Both ask for the same bytes in one round, bytes go to the first
  only, and the second's requests end the load with a false "bytes are missing" of a whole
  file, against the comment at `grid/api.rs:108`. `MissingOnlyIfShort`, and the theorem
  about it, except these transforms (`TwoCopies` in `Grids`): they say nothing of them.

`docs/wfs.md:116` says that a short page stops paging by offset. Where
`numberMatched` is known it does not, on purpose (the comment in `next_page`,
`paging.rs`), and the model follows the code.

## What is proved

Each theorem holds for every value of the constants that satisfies the named
assumption of the module: any number of workers, sources, features and bytes, any
limit. What an assumption says is what the types of the program say (`Vec` lengths are
finite, `nonzero` limits are not 0, a stopper such as `NoWorker` is no worker), with
two exceptions that the code establishes before: an ordered map opens one stream at a
time (`ParallelMap::new`, `MapAssumption`), and a chunk has a feature
(`FeatureSplitter::next`, `LayerAssumption`, `ScanAssumption`). A third exception is about data from
outside: `GridsAssumption` has the blocks of a grid file apart from each other (`Merged`
is the code's merging for such blocks), inside the file as it should be, and none
beginning where the header or a directory does. The format says so and `tiff::parse`
does not look; the theorems about grids say nothing of other files. TLC has checked the
inductive invariants on the instances of the runs, too.

| Module | Theorem | Property |
|---|---|---|
| `ParallelMapProofs` | `InputTypeCorrect` | `TypeOK` of `Input` |
| | `NothingAfterTheEndHolds` | no item is numbered after the one that ends the input |
| | `StreamOrderHolds` | a stream's items are numbered in its order, none twice |
| | `BoundedStreamsHolds` | never more than `MaxOpen` streams open |
| | `LastItemAfterAllHolds` | the last item's number is higher than all others |
| | `NoEarlyReturnHolds` | a worker gives up only if nothing is left to pull |
| | `MapTypeCorrect` | `MapTypeOK` |
| | `InFlightBounded` | not more items in flight than tickets |
| | `ContractKept` | `MapSpec => KeepsContract`: the map implements `MapContract` |
| `DecodeAheadProofs` | `TypeCorrect` | `TypeOK` of `DecodeAhead` |
| | `OrderCorrect` | blocks in order, each once, end and error in their place |
| | `QueuesBounded` | a queue exceeds its limit by one block per further helper at most |
| `WfsProofs` | `WfsTypeCorrect` | `TypeOK` of `WfsPages` |
| | `NothingTwiceHolds` | no feature twice while the data stays as it is |
| | `NothingLostSilentlyHolds` | complete, or an error, or a warning |
| | `RepeatsForetoldHolds` | a feature on two pages only after the warning |
| `RemoteSourceProofs` | `RetriesBounded` | how many retries, of what, and until when |
| | `PromiseKept` | `Spec => KeepsPromise`: all requests implement `ByteStream` |
| `LayerReadProofs` | `LayerInvariant` | the inductive invariant of a read |
| | `RowsInOrderHolds` | rows in order, or each at most once |
| | `EndsWithEverythingHolds` | an end without an error gave every row |
| | `CompleteSampleHolds` | `Sample::complete` is true exactly when it should be |
| `GridsProofs` | `GridsInvariant` | the inductive invariant of the setups |
| | `GridsCoverHolds` | a transform that is ready has the blocks it needs |
| | `MissingOnlyIfShortHolds` | a transform with one copy of each file reports only a file that is cut off as such |
| | `FetchedOnceHolds` | the threads of a read fetch nothing that is there |
| `ScanProofs` | `ScanInvariant`, `ScanTypes` | the inductive invariant of a scan; `TypeOK` of `Scan` |
| | `ScanOutcome` | `OutcomeOfTheInput`: the interleaving does not decide whether a scan fails |
| | `ScanExtent` | `ScansTheExtent`: each feature of the extent once, and counted |
| | `ScanSampled` | `SampledIfLeftOut`: sampled exactly if features were left out |
| | `ScanSources` | `SourcesAccounted`: every source at the index of its id, in its final state |

**Input, order.** `StreamOrder` is not inductive: that the next number goes to the
next item follows from who holds what. `NumberInv` adds: a worker that pulls or
numbers holds its stream, one that finishes holds the list (`HoldInv`); the item in
its hands is the one at the stream's position (`HandInv`); nothing numbered lies beyond
a stream's position, and a worker about to number has a later item than all numbered
ones of its stream (`TakenInv`); `stopped` follows every ending item and implies
`exhausted` (`StopInv`); the last item is numbered by one worker (`LastInv`).

**Input, end.** A stream leaves the list of open ones under one lock and is counted in
`ended` under another, so `ended` alone says nothing. `CountInv` counts the workers in
between: `ended`, they and the open streams are together the streams started. With
`OpenInv` (what is not done is open), `PulledInv` (what was pulled is numbered or in a
worker's hands) and `ListInv` (when the list has been read to its end), `ended =
started` means that every item was numbered, which is what `finish` relies on when it
gives the last item its number (`FinishInv`).

**Map.** `MapNext` is the input's steps and the pool's own, so the input's invariants
carry over (`NumberAside`, `EndAside`, `TakeShared`). `TicketInv` adds up: free
tickets, workers that take an item and items numbered are together the tickets and the
items handed on; `InFlightBound` is its consequence. For the contract, a result's way
is followed: with the worker, in the channel, pending or handed on, in exactly one of
them (`ItemInv`, `OnceInv`, `AllInv`). `KindInv` says that nothing a consumer may not
see is numbered; `SerialInv`, that with one open stream an item's number follows those
of all items before it, which makes the order of the numbers the order of the input;
`ExitInv`, that a worker leaves only when all is taken, so that a closed channel means
the end. `ContractStep` shows that each step of the map is one of the contract or
leaves what it speaks of unchanged.

**Decode ahead.** What the reader has, what is queued and the block in a helper's hand
are together what the decoder gave (`BlocksInv`). It holds because a helper keeps the
decoder's lock from decoding to queueing, and the reader looks at the queue again once
it has the lock (`HolderInv`). `RoomInv` counts, for each source, the helpers that saw
room and have not queued yet. They looked before they had the lock, hence one block
beyond the limit for each of them but one.

**WFS.** `PagesInv`: the pages are one piece of the data after the other, and the next
request begins where the last page ended. It survives truncated answers, halved pages
and resuming at an offset, as `start` is taken from what arrived and not from what was
asked for. `StrategyInv` says which requests a strategy makes, `EndInv` that a pager
that is done has everything, or warned, or has an error on its way to the read.
`UnsafeInv`: a page that another may follow comes with the warning or after it.

**Requests.** `RetryInv`: as many answers as attempts, or one more while the call
sleeps or has its result, and nothing was handed on before the last. For `KeepsPromise`,
`StreamInv` cuts the file at positions (`CutAt`): what the reader has, what is left of its
block, each block of the channel and the one the task fills begin where the one before
ends, and the end comes at the file's end only. `PromiseStep` is the simulation.

**Layer read.** The chunks of the input are followed: sample and streams hold them all,
in order (`SampleInv`); then each is taken or left (`TakenInv`); the rows given,
ready and buffered are those of chunks consumed, in order if ordered, all of them
unless an error was met (`GivenInv`, `EndInv`); the counts of sources
are those of the streams that ended (`SourcesInv`), the report's those of the rows
processed (`ReportInv`). TLC checked `LayerInv` on all 684924 states of `layer_read`.

**Grids.** `GridsCover` needs what a thread knows in the middle of a round: a copy it
holds is still to be asked, has requests, or is covered (`AskOf`); nothing loaded, parsed
or decoded is ever lost (`Grows`), so that what others do meanwhile does no harm. It
rests on `requests` looking at the directories again under the lock: `DirsInv`, that
bytes which parse are not known as unparsed, makes sure there is something to ask for.
For `MissingOnlyIfShort`, `HandledOf` says of every request a thread has made of a whole
file and that was answered: the copy has its bytes and, if it was for blocks, has decoded
them. A next request is for a byte not loaded or a block not decoded, and so is new
(`ReqsOf`, `Fresh`). For a thread with two copies of a file this is not so, nor is the
property true without that condition.

`FetchedOnce` has an invariant of its own on top of it (`OnceInv`). The write lock of
`Conversions::setups` is held by whoever sets up a transform (`WriterInv`), so that in a
read by itself nobody else moves from one request for a file to the next. What is
asked for then is to come: a block that is asked for is not decoded and has a byte that
is not loaded, as whatever is loaded was decoded (`DecodedInv`; a file's lock is never
left behind, `LockInv`), and the requests of a round are apart (`NewOf`), because merged
runs of blocks without a byte in common have none in common either (`RunsApart`). The
proof also put the property right: of a request that reaches behind the end of a file
that is cut off (`CutShort`) it is not true, as the bytes there are of it may have come
with another; they come once more before the load fails.

**Scan.** Which chunk a worker takes and which share it gets depend on the
interleaving; what was split of the sources so far (`SplitSet`) does not depend on who
took it. It is the beginning of what each budget is for, because the sources of one
budget are split one after another (`Streams`). So what is left of a budget and what
was split of it are together the extent's limit (`BudgetsKept`), and the features a
share lets the scan see are exactly those of the chunk with fewer than the limit
before them. Hence `TakenOnce`: what is wanted of the split features is in one worker's
hands or partial, each once, unless a worker was hurt by an error or a panic. None of
the four properties is inductive without it, and it is not without the others:
`ClosedWell` (a source left behind ended well), `CausesKnown` (what hurt a worker is in
the extent, which needs the budget of the moment it was taken), `EndsWell` (an unhurt
worker ends only when the sources are exhausted), `Counted` and `Listing`. At the end
nothing is in hand: with nobody hurt, every source the extent reaches was split
(`ScannedAll`), which gives all four properties; with one hurt, `CausesKnown` gives the
outcome. The count needs the sum over the partials, which is a `CHOOSE` of a recursive
function on sets of workers: `OnlyOneSum` shows by induction on their number that there is one such sum.
TLC checked `Inv` on all 597073 states of `scan`.

**`SequenceLemmas`** has what these proofs share: induction over numbers and
sequences (through the well-foundedness of `<` on the naturals; the sets to be shown
full are sets, as the induction theorems that take an operator cannot be used here),
pieces of a sequence, and how `FlattenSeq`, mapping and "in increasing order" go with
concatenation.

Some proofs changed the model where it was less exact than the code or could not be
reasoned about. In `DecodeAhead` looking at the queue, decoding and queueing are steps
of their own, as in the code, and the list of streams is a set with an `age`. In
`WfsPages` a server's limit is none or positive. In `LayerRead` the rows of a chunk are
the flattened rows of its features. In `Grids` the merged requests are put in order
by rank (`InOrder`), and a transform that needs no grid file goes on without one.

### Only model-checked

- Liveness (`MapEnds`, `DropEndsWorkers`, `ReadersEnd`, `ReadFinishes`,
  `DropStopsThread`, `ReadEnds`, `DownloadStops`, `SetupEnds`): arguments from fairness
  and ENABLED are beyond this prover.
- `Columns` and `PathTree`: recursion over trees, declared `RECURSIVE`.
- `Splitter`: its reference definitions recurse over documents; the invariant would have
  to say what every mode's buffer means.
- No `TypeOK` is among the runs' properties, as a wrong type would be the model's fault
  and not the code's; those of `Input`, `ParallelMap`, `DecodeAhead`, `WfsPages` and `Scan`
  are proved.

## Not modelled

- Coordinates: parsing of geometries, arcs, axis order, projections, datum shifts and
  the reading of grids are floating point, which TLC does not have. The tables of
  `xeibe-crs` and `xeibe-esri` and the catalog of grids are generated data, about
  a quarter of the repository's lines; WKT and PROJ strings, XML, URLs and
  capabilities are text, parsed by code without state between calls.
- The names of columns, prefixes and the path strings of routes; nil, geometry and
  boundedBy columns; the caller's overrides of a schema.
- Where a block ends inside a tag (`need`, `find`, `scan_start_tag`): the buffer keeps
  everything from `pos` there.
- Arrow's builders, Parquet and IPC writing, DataFusion, the command line and the
  bindings: adapters to other libraries, one call at a time.
- Relaxed memory: the atomics are read and written in one total order. `stopped`
  and `exhausted` are hints next to a mutex-protected copy, `stop` of `fold` only
  makes workers end sooner, and the report's parts are under mutexes.
- Poisoned mutexes: the code takes the value and goes on, and no panic happens with
  a lock held half-way through a change in the modelled parts.
- A server that ignores `startIndex`: the pager would not end. A server whose
  `numberMatched` or `numberReturned` is wrong: in the model they are right or missing.
- The limit on children of a path tree (`Limits::max_children`) is in `PathTree`, but
  the documents of `columns` do not reach it: merging does not look at it (above).
- Threads = 1 of the map (`Inner::Inline`): `Sequential` followed by the function.

## Plan

1. *Done*: `Input`, `ParallelMap` and its contract, `DecodeAhead`, `WfsPages`,
   `LayerRead`, `Scan`; the first theorems.
2. *Done*: `Splitter` against its reference, `RemoteSource` and `ByteStream`,
   `PathTree` and `Columns`, `Grids`.
3. *Done*: theorems about all safety properties of the runs of `Input`, `ParallelMap`,
   `DecodeAhead`, `WfsPages`, `RemoteSource`, `LayerRead`, `Scan` and `Grids`, the two
   refinements among them.
4. `LayerRead` and `Scan` over the full `Input` for small instances, so that their
   reduced workers are themselves checked.

## Running

    tlc -workers 2 -config MCInputMany.cfg MCInput
    tlapm ScanProofs.tla

The proof modules are `ParallelMapProofs` (about `Input`, and the map on top of it),
`DecodeAheadProofs`, `RemoteSourceProofs`, and `WfsProofs`, `LayerReadProofs`,
`GridsProofs` and `ScanProofs`, which use `SequenceLemmas`. Each run's module and configuration are in
`PROJECT.json`.
