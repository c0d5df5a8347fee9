-------------------------------- MODULE Scan --------------------------------
(***************************************************************************)
(* A scan of the sources of a dataset: `Scanner::run` of                   *)
(* crates/xeibe-schema/src/scan.rs on the workers of `parallel::fold`      *)
(* (crates/xeibe-core/src/parallel.rs).                                    *)
(*                                                                         *)
(* Every worker takes chunks from the open sources, scans them into a      *)
(* partial observation of its own, and the caller merges the partials once *)
(* every worker has ended.  A sampled scan gives each chunk a share of a   *)
(* budget as it is split: one budget for the input, or one for each source.*)
(*                                                                         *)
(* What Input (module Input) promises is taken as an atomic step here: one *)
(* worker at a time pulls from a source, the chunks of a source come in    *)
(* order, an item that ends the input is the last one taken.  The f-th     *)
(* feature of the k-th chunk of source s is <<s, k, f>>.                   *)
(***************************************************************************)
EXTENDS Naturals, Sequences, SequencesExt, FiniteSetsExt

CONSTANTS
    Workers,    \* the threads of the scan; a single one is the calling thread
    Inputs,     \* the inputs there may be, sequences of SourceType
    Extents,    \* the ScanOptions::extent there may be
    SpawnsFail  \* whether a worker thread may fail to start

\* What the scan of a feature meets: nothing special, malformed XML, a panic.
FeatureKinds == {"ok", "xml", "panic"}
\* How a source ends: it was read; its header, or its end, shows that it has no features; it
\* fails or panics; or it is no source, but an error of the list of sources.
Ends == {"read", "no header", "no member", "fail", "panic", "unlisted"}
SourceType == [chunks: Seq(Seq(FeatureKinds)), last: Ends]
ExtentType == [kind: {"Full", "Sample", "SamplePerSource"}, max: Nat]

ASSUME ScanAssumption ==
    /\ IsFiniteSet(Workers) /\ Workers # {}
    /\ Inputs \subseteq Seq(SourceType)
    /\ \A i \in Inputs : \A s \in DOMAIN i :
        /\ i[s].last \in {"no header", "no member", "unlisted"} => i[s].chunks = <<>>
        /\ \A k \in DOMAIN i[s].chunks : i[s].chunks[k] # <<>>
    /\ Extents \subseteq ExtentType
    /\ SpawnsFail \in BOOLEAN

VARIABLES
    inp, extent,    \* what is scanned, and how much of it
    next,           \* sources already taken from the list
    opened,         \* ScanShared::opened: name and status at the index of the id
    open,           \* the streams open, with the id, state and chunks given so far of each
    left, usedUp,   \* Budget, of the input (0) and of each source
    sampled,        \* ScanShared::sampled
    inputEnded,     \* nothing more is taken from the input
    stop,           \* fold's flag
    pc, item,       \* where a worker is, and the item in its hands
    partial,        \* a worker's Partial
    caller          \* where the caller of run is, then what run returned

sourceVars == <<next, opened, open, left, usedUp, sampled, inputEnded>>
workerVars == <<stop, pc, item, partial>>
vars == <<inp, extent, sourceVars, workerVars, caller>>

Sampled == extent.kind # "Full"
NoItem == [kind |-> "none", source |-> 0, id |-> 0, features |-> {}]
Returned == {"ok", "no features", "error", "panic", "spawn error"}

\* The features of a chunk, and the first of them its share lets the scan see.
Features(s, k, n) == {<<s, k, f>> : f \in 1 .. n}
KindOf(feature) == inp[feature[1]].chunks[feature[2]][feature[3]]

\* parallel::max_open_streams.  A sample of the input is of the first features: one source
\* after another.
MaxOpen ==
    IF extent.kind = "Sample" THEN 1
    ELSE Max({1, Min({8, Cardinality(Workers) \div 2})})

Init ==
    /\ inp \in Inputs /\ extent \in Extents
    /\ next = 0 /\ opened = <<>> /\ open = {}
    /\ left = [b \in 0 .. Len(inp) |-> extent.max]
    /\ usedUp = [b \in 0 .. Len(inp) |-> FALSE]
    /\ sampled = FALSE /\ inputEnded = FALSE
    /\ stop = FALSE
    /\ pc = [w \in Workers |-> "new"]
    /\ item = [w \in Workers |-> NoItem]
    /\ partial = [w \in Workers |-> [features |-> {}, count |-> 0, ids |-> {}, error |-> FALSE]]
    /\ caller = "spawn"

-----------------------------------------------------------------------------
\* The streams: ScanSources and SourceScan, called in Input::take.

BudgetOf(s) == IF extent.kind = "SamplePerSource" THEN s ELSE 0

MutListSource(w) ==              \* Mutant: a source is listed under the name of the one before.
    /\ pc[w] = "take" /\ ~inputEnded
    /\ Cardinality(open) < MaxOpen
    /\ next < Len(inp) /\ ~usedUp[0]
    /\ next' = next + 1
    /\ IF inp[next + 1].last = "unlisted"
       THEN /\ open' = open \cup {[source |-> next + 1, id |-> 0, state |-> "Failed", given |-> 0]}
            /\ UNCHANGED opened
       ELSE /\ opened' = Append(opened, [name |-> Max({1, next}), status |-> "Pending"])
            /\ open' = open \cup {[source |-> next + 1, id |-> Len(opened) + 1,
                                   state |-> "Unopened", given |-> 0]}
    /\ UNCHANGED <<inp, extent, left, usedUp, sampled, inputEnded, workerVars, caller>>

\* The next source gets its id and, pending, its place in `opened`; an error of the list of
\* sources is a stream that fails.
NextStream(w) ==
    /\ pc[w] = "take" /\ ~inputEnded
    /\ Cardinality(open) < MaxOpen
    /\ next < Len(inp) /\ ~usedUp[0]
    /\ next' = next + 1
    /\ IF inp[next + 1].last = "unlisted"
       THEN /\ open' = open \cup {[source |-> next + 1, id |-> 0, state |-> "Failed", given |-> 0]}
            /\ UNCHANGED opened
       ELSE /\ opened' = Append(opened, [name |-> next + 1, status |-> "Pending"])
            /\ open' = open \cup {[source |-> next + 1, id |-> Len(opened) + 1,
                                   state |-> "Unopened", given |-> 0]}
    /\ UNCHANGED <<inp, extent, left, usedUp, sampled, inputEnded, workerVars, caller>>

SetStatus(id, status) == opened' = [opened EXCEPT ![id].status = status]

\* The worker takes an item that ends the input: an error, or the panic of the stream.
TakeLast(w, kind, t) ==
    /\ item' = [item EXCEPT ![w] = [NoItem EXCEPT !.kind = kind, !.source = t.source]]
    /\ pc' = [pc EXCEPT ![w] = "step"]
    /\ inputEnded' = TRUE

\* SourceScan::open: the header, or none and the source is skipped.  A source that fails to
\* open does so in SourceFails.
OpenSource(w, t) ==
    /\ pc[w] = "take" /\ ~inputEnded
    /\ t \in open /\ t.state = "Unopened"
    /\ IF inp[t.source].last = "no header"
       THEN SetStatus(t.id, "Skipped") /\ open' = open \ {t}
       ELSE /\ SetStatus(t.id, "Read")
            /\ open' = (open \ {t}) \cup {[t EXCEPT !.state = "Splitting"]}
    /\ UNCHANGED <<inp, extent, next, left, usedUp, sampled, inputEnded, workerVars, caller>>

MutShare(b, n) ==                \* Mutant: a budget that is used up exactly counts as a stop.
    LET take == Min({left[b], n})
    IN  /\ left' = [left EXCEPT ![b] = @ - take]
        /\ usedUp' = [usedUp EXCEPT ![b] = take < n]
        /\ sampled' = (sampled \/ take = left[b])

\* SourceScan::share, for a chunk of n features: what is left of the budget, and whether there
\* are features the scan does not see.
Share(b, n) ==
    LET take == Min({left[b], n})
    IN  /\ left' = [left EXCEPT ![b] = @ - take]
        /\ usedUp' = [usedUp EXCEPT ![b] = take < n]
        /\ sampled' = (sampled \/ take < n)

\* The next chunk is split: it is taken with its share, or, with no budget left, dropped and
\* with it the rest of the source.
TakeChunk(w, t) ==
    LET k == t.given + 1
        n == Len(inp[t.source].chunks[k])
        b == BudgetOf(t.source)
        share == IF Sampled THEN Min({left[b], n}) ELSE n
    IN  /\ pc[w] = "take" /\ ~inputEnded
        /\ t \in open /\ t.state = "Splitting" /\ ~usedUp[b]
        /\ k <= Len(inp[t.source].chunks)
        /\ \/ Sampled /\ Share(b, n)
           \/ ~Sampled /\ UNCHANGED <<left, usedUp, sampled>>
        /\ \/ /\ Sampled /\ left[b] = 0
              /\ open' = open \ {t}
              /\ UNCHANGED <<pc, item>>
           \/ /\ ~Sampled \/ left[b] > 0
              /\ open' = (open \ {t}) \cup {[t EXCEPT !.given = k]}
              /\ item' = [item EXCEPT ![w] = [kind |-> "chunk", source |-> t.source, id |-> t.id,
                                              features |-> Features(t.source, k, share)]]
              /\ pc' = [pc EXCEPT ![w] = "step"]
        /\ UNCHANGED <<inp, extent, next, opened, inputEnded, stop, partial, caller>>

AtEnd(t) == t.state = "Splitting" /\ t.given = Len(inp[t.source].chunks)

\* The stream ends: its budget is used up, or nothing is left to split, which may show that
\* it has no features.
SourceEnds(w, t) ==
    LET used == usedUp[BudgetOf(t.source)]
    IN  /\ pc[w] = "take" /\ ~inputEnded
        /\ t \in open /\ t.state = "Splitting"
        /\ \/ used /\ UNCHANGED opened
           \/ ~used /\ AtEnd(t) /\ inp[t.source].last = "read" /\ UNCHANGED opened
           \/ ~used /\ AtEnd(t) /\ inp[t.source].last = "no member" /\ SetStatus(t.id, "Skipped")
        /\ open' = open \ {t}
        /\ UNCHANGED <<inp, extent, next, left, usedUp, sampled, inputEnded, workerVars, caller>>

\* The stream fails: on opening, while it is split, or as the list of sources did.
SourceFails(w, t) ==
    /\ pc[w] = "take" /\ ~inputEnded
    /\ t \in open
    /\ \/ t.state = "Failed" /\ TakeLast(w, "error", t)
       \/ /\ \/ t.state = "Unopened" /\ inp[t.source].chunks = <<>>
             \/ AtEnd(t) /\ ~usedUp[BudgetOf(t.source)]
          /\ \/ inp[t.source].last = "fail" /\ TakeLast(w, "error", t)
             \/ inp[t.source].last = "panic" /\ TakeLast(w, "panic", t)
    /\ open' = open \ {t}
    /\ UNCHANGED <<inp, extent, next, opened, left, usedUp, sampled, stop, partial, caller>>

-----------------------------------------------------------------------------
\* A worker: the closure `work` of fold, with Scanner::scan_item as its step.

CheckStop(w) ==
    /\ pc[w] = "check"
    /\ pc' = [pc EXCEPT ![w] = IF stop THEN "done" ELSE "take"]
    /\ UNCHANGED <<inp, extent, sourceVars, stop, item, partial, caller>>

\* Input::take returns None.
TakeNone(w) ==
    /\ pc[w] = "take"
    /\ inputEnded \/ (open = {} /\ (next = Len(inp) \/ usedUp[0]))
    /\ pc' = [pc EXCEPT ![w] = "done"]
    /\ UNCHANGED <<inp, extent, sourceVars, stop, item, partial, caller>>

\* What the scan of a chunk stops at: the first of its features that is not right.
FirstBad(features) ==
    {f \in features : /\ KindOf(f) # "ok"
                      /\ \A g \in features : KindOf(g) # "ok" => f[3] <= g[3]}

Finds(w, kind) == item[w].kind = kind \/ \E f \in FirstBad(item[w].features) : KindOf(f) = kind

MutStepFails(w) ==               \* Mutant: the error is not kept.
    /\ pc[w] = "step"
    /\ Finds(w, "error") \/ Finds(w, "xml")
    /\ stop' = TRUE
    /\ pc' = [pc EXCEPT ![w] = "done"]
    /\ item' = [item EXCEPT ![w] = NoItem]
    /\ UNCHANGED <<inp, extent, sourceVars, partial, caller>>

\* The item is an error, or the scan of the chunk fails: Break.
StepFails(w) ==
    /\ pc[w] = "step"
    /\ Finds(w, "error") \/ Finds(w, "xml")
    /\ partial' = [partial EXCEPT ![w].error = TRUE]
    /\ stop' = TRUE
    /\ pc' = [pc EXCEPT ![w] = "done"]
    /\ item' = [item EXCEPT ![w] = NoItem]
    /\ UNCHANGED <<inp, extent, sourceVars, caller>>

\* The item is a panic, or the step panics: its partial observation is lost.
StepPanics(w) ==
    /\ pc[w] = "step"
    /\ Finds(w, "panic")
    /\ stop' = TRUE
    /\ pc' = [pc EXCEPT ![w] = "panicked"]
    /\ item' = [item EXCEPT ![w] = NoItem]
    /\ UNCHANGED <<inp, extent, sourceVars, partial, caller>>

MutStep(w) ==                    \* Mutant: the last chunk replaces what the worker has.
    /\ pc[w] = "step"
    /\ item[w].kind = "chunk" /\ FirstBad(item[w].features) = {}
    /\ partial' = [partial EXCEPT ![w].features = item[w].features,
                                  ![w].count = Cardinality(item[w].features),
                                  ![w].ids = @ \cup {<<item[w].source, item[w].id>>}]
    /\ pc' = [pc EXCEPT ![w] = "check"]
    /\ item' = [item EXCEPT ![w] = NoItem]
    /\ UNCHANGED <<inp, extent, sourceVars, stop, caller>>

\* What the chunk holds is merged into the worker's partial observation.
Step(w) ==
    /\ pc[w] = "step"
    /\ item[w].kind = "chunk" /\ FirstBad(item[w].features) = {}
    /\ partial' = [partial EXCEPT ![w].features = @ \cup item[w].features,
                                  ![w].count = @ + Cardinality(item[w].features),
                                  ![w].ids = @ \cup {<<item[w].source, item[w].id>>}]
    /\ pc' = [pc EXCEPT ![w] = "check"]
    /\ item' = [item EXCEPT ![w] = NoItem]
    /\ UNCHANGED <<inp, extent, sourceVars, stop, caller>>

-----------------------------------------------------------------------------
\* The caller: the scope of fold, and the merge of run.

Spawn(w) ==
    /\ caller = "spawn"
    /\ pc[w] = "new"
    /\ pc' = [pc EXCEPT ![w] = "check"]
    /\ UNCHANGED <<inp, extent, sourceVars, stop, item, partial, caller>>

\* A thread does not start: the others stop, and the scope waits for them.
SpawnFails ==
    /\ SpawnsFail /\ Cardinality(Workers) > 1
    /\ caller = "spawn"
    /\ \E w \in Workers : pc[w] = "new"
    /\ stop' = TRUE
    /\ caller' = "leave"
    /\ UNCHANGED <<inp, extent, sourceVars, pc, item, partial>>

Leave ==
    /\ caller = "leave"
    /\ \A w \in Workers : pc[w] \in {"new", "done", "panicked"}
    /\ caller' = "spawn error"
    /\ UNCHANGED <<inp, extent, sourceVars, workerVars>>

Skipped == {n \in DOMAIN opened : opened[n].status = "Skipped"}

\* What run returns once every worker was joined.
Result ==
    IF \E w \in Workers : pc[w] = "panicked" THEN "panic"
    ELSE IF \E w \in Workers : partial[w].error THEN "error"
    ELSE IF (\A n \in DOMAIN opened : opened[n].status # "Read") /\ Skipped # {} THEN "no features"
    ELSE "ok"

Join ==
    /\ caller = "spawn"
    /\ \A w \in Workers : pc[w] \in {"done", "panicked"}
    /\ caller' = Result
    /\ UNCHANGED <<inp, extent, sourceVars, workerVars>>

\* A step of a worker in Input::take.
TakeStep(w) ==
    \/ NextStream(w) \/ TakeNone(w)
    \/ \E t \in open :
        OpenSource(w, t) \/ TakeChunk(w, t) \/ SourceEnds(w, t) \/ SourceFails(w, t)

Work(w) == CheckStop(w) \/ TakeStep(w) \/ StepFails(w) \/ StepPanics(w) \/ Step(w)

Call == (\E w \in Workers : Spawn(w)) \/ SpawnFails \/ Leave \/ Join

\* run has returned.
Done == caller \in Returned /\ UNCHANGED vars

Next == (\E w \in Workers : Work(w)) \/ Call \/ Done

Spec == Init /\ [][Next]_vars

-----------------------------------------------------------------------------

\* The type invariant: an id is an index of `opened`, no more streams are open than may be, and
\* a worker has an item in its hands exactly where it steps.
TypeOK ==
    /\ next \in 0 .. Len(inp)
    /\ opened \in Seq([name: 1 .. Len(inp), status: {"Pending", "Read", "Skipped"}])
    /\ \A t \in open :
        /\ t.source \in 1 .. next
        /\ t.id \in 0 .. Len(opened)
        /\ t.state \in {"Unopened", "Splitting", "Failed"}
        /\ t.given \in 0 .. Len(inp[t.source].chunks)
    /\ Cardinality(open) <= MaxOpen
    /\ left \in [0 .. Len(inp) -> 0 .. extent.max]
    /\ usedUp \in [0 .. Len(inp) -> BOOLEAN]
    /\ sampled \in BOOLEAN /\ inputEnded \in BOOLEAN /\ stop \in BOOLEAN
    /\ pc \in [Workers -> {"new", "check", "take", "step", "done", "panicked"}]
    /\ \A w \in Workers :
        /\ item[w].kind \in {"none", "chunk", "error", "panic"}
        /\ (pc[w] = "step") = (item[w].kind # "none")
    /\ caller \in {"spawn", "leave"} \cup Returned

\* What a scan should see, from the input alone.
SourceFeatures(s) ==
    UNION {Features(s, k, Len(inp[s].chunks[k])) : k \in DOMAIN inp[s].chunks}
AllFeatures == UNION {SourceFeatures(s) : s \in DOMAIN inp}
Before(f, g) ==
    \/ f[1] < g[1]
    \/ f[1] = g[1] /\ f[2] < g[2]
    \/ f[1] = g[1] /\ f[2] = g[2] /\ f[3] < g[3]
FirstOf(S, n) == {f \in S : Cardinality({g \in S : Before(g, f)}) < n}
Upto(s) == {f \in AllFeatures : f[1] <= s}

Wanted ==
    CASE extent.kind = "Full" -> AllFeatures
      [] extent.kind = "Sample" -> FirstOf(AllFeatures, extent.max)
      [] extent.kind = "SamplePerSource" ->
            UNION {FirstOf(SourceFeatures(s), extent.max) : s \in DOMAIN inp}

\* The sources whose beginning, and those whose end, the scan comes to.
Listed == {s \in DOMAIN inp : extent.kind = "Sample" => Cardinality(Upto(s - 1)) <= extent.max}
ReadToEnd ==
    {s \in Listed : CASE extent.kind = "Full" -> TRUE
                      [] extent.kind = "Sample" -> Cardinality(Upto(s)) <= extent.max
                      [] extent.kind = "SamplePerSource" ->
                            Cardinality(SourceFeatures(s)) <= extent.max}

Causes ==
    {"error" : s \in {t \in ReadToEnd : inp[t].last \in {"fail", "unlisted"}}}
        \cup {"panic" : s \in {t \in ReadToEnd : inp[t].last = "panic"}}
        \cup {"error" : f \in {g \in Wanted : KindOf(g) = "xml"}}
        \cup {"panic" : f \in {g \in Wanted : KindOf(g) = "panic"}}

HasNothing(s) == inp[s].last \in {"no header", "no member"}

Expected ==
    IF Causes # {} THEN Causes
    ELSE IF Listed # {} /\ \A s \in Listed : HasNothing(s) THEN {"no features"}
    ELSE {"ok"}

(***************************************************************************)
(* The interleaving of the workers does not decide whether a scan succeeds *)
(* (the_number_of_threads_does_not_change_the_result, tests/it/scan.rs):   *)
(* it fails with an error or a panic exactly if one lies within the extent *)
(* it reads, whichever worker met it and whatever the others were doing,   *)
(* and with NoFeatures exactly if every source it came to was skipped.     *)
(***************************************************************************)
OutcomeOfTheInput == caller \in Returned \ {"spawn error"} => caller \in Expected

(***************************************************************************)
(* A scan sees each feature of its extent exactly once: all of them, "the  *)
(* first N features on any number of threads" (Scanner::run), or the first *)
(* N of each source.  The count is what the layers' feature_count adds up  *)
(* to over the workers' partials.                                          *)
(***************************************************************************)
ScansTheExtent ==
    caller = "ok" =>
        /\ UNION {partial[w].features : w \in Workers} = Wanted
        /\ MapThenSumSet(LAMBDA w : partial[w].count, Workers) = Cardinality(Wanted)

(***************************************************************************)
(* DatasetObservation::sampled, which makes the schema rules conservative, *)
(* says exactly whether features were left out: a budget that ends with    *)
(* the input (or with each source) is no sample.                           *)
(***************************************************************************)
SampledIfLeftOut == caller = "ok" => (sampled <=> Wanted # AllFeatures)

(***************************************************************************)
(* What run says of the sources: an entry for every source the scan came   *)
(* to, at the index of the id its chunks carry, none still pending, and    *)
(* those without features, and only those, in skipped_sources.             *)
(***************************************************************************)
SourcesAccounted ==
    caller = "ok" =>
        /\ DOMAIN opened = Listed
        /\ \A s \in Listed :
            opened[s] = [name |-> s, status |-> IF HasNothing(s) THEN "Skipped" ELSE "Read"]
        /\ \A w \in Workers : \A id \in partial[w].ids : opened[id[2]].name = id[1]

=============================================================================
