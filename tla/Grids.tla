-------------------------------- MODULE Grids --------------------------------
(* The grids of a read with a target CRS: Conversions of xeibe-arrow, which
   sets up a transform per srsName on first use and loads its grids, and the
   grid files of xeibe-reproject, one copy of each shared by the transforms of
   every read in the process.

   A file is a row of units of bytes.  Its directories say where its blocks
   are; a triangulation is read whole.  What a request gives is what the file
   has there, so a file that is shorter than its directories say gives less.  *)
EXTENDS Naturals, FiniteSets, FiniteSetsExt, Sequences, SequencesExt

CONSTANTS
    Workers,        \* the threads of the reads
    Reads,
    Nobody,
    Worlds,         \* the grid files there are, what each srsName needs of them, and how
                    \* often clear_grids is called at most
    HEADER_CHUNK    \* how much of a file to ask for at least, in units

\* An offset and a length; Whole is the length None, "to the end of the file".
Whole == 0
Units(range) == range[1] .. (range[1] + range[2] - 1)

\* Files: the ranges their parser needs, one after another, and the blocks these say there are, both
\* as they are in a whole file, which has `full` units; one that is cut off has fewer.
RangeType == Nat \X (Nat \ {0})
FileType == [kind: {"tiff", "tin"}, needs: Seq(RangeType), blocks: Seq(RangeType),
             full: Nat \ {0}, size: Nat, badDirs: BOOLEAN, badBlocks: SUBSET Nat]
\* Whether an srsName can be converted, the grids of its operations, and the blocks of them that
\* cover its area.
KeyType(files) ==
    [ok: BOOLEAN, grids: Seq(DOMAIN files),
     blocks: {b \in [DOMAIN files -> SUBSET Nat] :
                  \A f \in DOMAIN files : b[f] \subseteq DOMAIN files[f].blocks}]

\* The blocks of a file are behind its header, where no directory begins, and apart from each other.
Apart(file) ==
    LET blocks == file.blocks IN
    /\ \A b \in DOMAIN blocks :
        /\ blocks[b][1] + blocks[b][2] <= file.full
        /\ blocks[b][1] # 0
        /\ \A n \in DOMAIN file.needs : blocks[b][1] # file.needs[n][1]
        /\ \A x \in DOMAIN blocks : x # b => Units(blocks[x]) \cap Units(blocks[b]) = {}
    /\ \A n \in DOMAIN file.needs : file.needs[n][1] + file.needs[n][2] <= file.full

ASSUME GridsAssumption ==
    /\ HEADER_CHUNK \in Nat \ {0}
    /\ Nobody \notin Workers
    /\ \A wd \in Worlds :
        /\ wd.files \in [DOMAIN wd.files -> FileType]
        /\ \A f \in DOMAIN wd.files : wd.files[f].kind = "tin" => wd.files[f].blocks = <<>>
        /\ \A f \in DOMAIN wd.files : Apart(wd.files[f])
        /\ wd.keys \in [DOMAIN wd.keys -> KeyType(wd.files)]
        /\ wd.readOf \in [Workers -> Reads] /\ wd.loader \in [Reads -> BOOLEAN]
        /\ wd.clears \in Nat

VARIABLES
    world,      \* what the files hold, what the srsNames need, whose threads are whose,
                \* and which reads have a GridLoader
    gen,        \* copies of the files in the registry: the clears before them
    copy,       \* GridFile by name and gen
    setups,     \* Conversions::setups, by read and srsName
    writer,     \* the holder of its write lock
    pc, key,
    held,       \* the copies a transform being set up holds
    ops,        \* files its operations have still to take from the registry
    todo,       \* copies still to ask, this round
    reqs, seen, \* requests of this round, and all of this load
    err         \* why a thread's setup failed

sharedVars == <<gen, copy>>
readVars == <<setups, writer>>
localVars == <<key, held, ops, todo, reqs, seen, err>>
vars == <<world, sharedVars, readVars, pc, localVars>>

ReadOf(w) == world.readOf[w]
File(c) == world.files[c[1]]
Keys == DOMAIN world.keys
Copies == (DOMAIN world.files) \X (0 .. world.clears)
IsTin(c) == File(c).kind = "tin"
Wanted(w, c) == world.keys[key[w]].blocks[c[1]]

NoSetup == [state |-> "none", held |-> <<>>]
NoKey == "none"

Init ==
    /\ world \in Worlds
    /\ gen = 0
    /\ copy = [c \in Copies |-> [loaded |-> {}, dirs |-> "none", decoded |-> {}, lock |-> Nobody]]
    /\ setups = [r \in Reads |-> [k \in Keys |-> NoSetup]]
    /\ writer = [r \in Reads |-> Nobody]
    /\ pc = [w \in Workers |-> "idle"]
    /\ key = [w \in Workers |-> NoKey]
    /\ held = [w \in Workers |-> <<>>] /\ ops = [w \in Workers |-> <<>>]
    /\ todo = [w \in Workers |-> <<>>] /\ reqs = [w \in Workers |-> <<>>] /\ seen = [w \in Workers |-> {}]
    /\ err = [w \in Workers |-> <<"none">>]

Goto(w, p) == pc' = [pc EXCEPT ![w] = p]

\* A setup is over: the write lock is let go and the loop's variables with it.
Leave(w) ==
    /\ writer' = [writer EXCEPT ![ReadOf(w)] = Nobody]
    /\ key' = [key EXCEPT ![w] = NoKey]
    /\ ops' = [ops EXCEPT ![w] = <<>>]
    /\ todo' = [todo EXCEPT ![w] = <<>>]
    /\ reqs' = [reqs EXCEPT ![w] = <<>>]
    /\ seen' = [seen EXCEPT ![w] = {}]

\* An error is the read's: nothing is recorded.
Fail(w, why) ==
    /\ Leave(w)
    /\ Goto(w, "failed")
    /\ err' = [err EXCEPT ![w] = why]
    /\ UNCHANGED <<setups, held>>

Record(w, setup) ==
    /\ Leave(w)
    /\ setups' = [setups EXCEPT ![ReadOf(w)][key[w]] = setup]
    /\ held' = [held EXCEPT ![w] = <<>>]
    /\ Goto(w, "idle")
    /\ UNCHANGED err

-----------------------------------------------------------------------------
\* Conversions::setup.

Known(r, k) == setups[r][k].state # "none"

\* prepare, convert or convert_envelope, for a geometry in srsName k: a setup there is already
\* is taken under the read lock.
ReadSetups(w) ==
    /\ pc[w] = "idle"
    /\ writer[ReadOf(w)] = Nobody
    /\ \E k \in Keys : ~Known(ReadOf(w), k) /\ key' = [key EXCEPT ![w] = k]
    /\ Goto(w, "write")
    /\ UNCHANGED <<world, sharedVars, readVars, held, ops, todo, reqs, seen, err>>

\* The lock is taken only to record the setup.
MutWriteFree(w) == TRUE

\* The write lock is held while the grids load; another thread may have been first.
WriteFree(w) == writer[ReadOf(w)] = Nobody

WriteSetups(w) ==
    /\ pc[w] = "write"
    /\ WriteFree(w)
    /\ LET known == Known(ReadOf(w), key[w])
           source == world.keys[key[w]]
       IN  \/ known /\ Leave(w) /\ Goto(w, "idle") /\ UNCHANGED <<setups, held, err>>
           \/ ~known /\ ~source.ok /\ Record(w, [state |-> "failed", held |-> <<>>])
           \/ /\ ~known /\ source.ok
              /\ writer' = [writer EXCEPT ![ReadOf(w)] = w]
              /\ ops' = [ops EXCEPT ![w] = source.grids]
              /\ Goto(w, IF source.grids = <<>> THEN "ask" ELSE "register")
              /\ UNCHANGED <<setups, key, held, todo, reqs, seen, err>>
    /\ UNCHANGED <<world, sharedVars>>

\* Transform::with_grids: each operation takes its file's copy from the registry; a transform
\* lists a copy once.
Register(w) ==
    /\ pc[w] = "register"
    /\ LET c == <<Head(ops[w]), gen>>
           copies == IF Contains(held[w], c) THEN held[w] ELSE Append(held[w], c)
           last == Len(ops[w]) = 1
       IN  /\ held' = [held EXCEPT ![w] = copies]
           /\ ops' = [ops EXCEPT ![w] = Tail(@)]
           /\ todo' = [todo EXCEPT ![w] = IF last THEN copies ELSE @]
           /\ Goto(w, IF last THEN "ask" ELSE "register")
    /\ UNCHANGED <<world, sharedVars, readVars, key, reqs, seen, err>>

-----------------------------------------------------------------------------
\* GridFile::requests, for each file of the transform.

\* tiff::parse: the first range it needs and that is not loaded, or what the directories say.
Missing(c, loaded) ==
    {n \in DOMAIN File(c).needs : ~(Units(File(c).needs[n]) \subseteq loaded)}
ParsedDirs(c, loaded) ==
    CASE Missing(c, loaded) # {} -> "none"
      [] OTHER -> IF File(c).badDirs THEN "bad" ELSE "ok"

\* Ranges as a sequence in the order of their offsets.
InOrder(ranges) ==
    [n \in 1 .. Cardinality(ranges) |->
        CHOOSE a \in ranges : Cardinality({b \in ranges : b[1] < a[1]}) = n - 1]

\* The blocks still wanted, merged where one ends where the next begins.
Merged(wanted) ==
    LET starts == {a \in wanted : \A b \in wanted : b[1] + b[2] # a[1]}
        EndOf(a) == Min({b[1] + b[2] : b \in {b \in wanted :
                        b[1] >= a[1] /\ \A x \in wanted : x[1] # b[1] + b[2]}})
        runs == {<<a[1], EndOf(a) - a[1]>> : a \in starts}
    IN  InOrder(runs)

BlockRequests(w, c) ==
    Merged({File(c).blocks[b] : b \in Wanted(w, c) \ copy[c].decoded})

Answer(w, c, ranges) ==
    /\ reqs' = [reqs EXCEPT ![w] = @ \o [n \in DOMAIN ranges |-> [file |-> c[1], range |-> ranges[n]]]]
    /\ todo' = [todo EXCEPT ![w] = Tail(@)]
    /\ Goto(w, "ask")

\* What is known of the directories is looked at before the lock.
Ask(w) ==
    /\ pc[w] = "ask" /\ todo[w] # <<>>
    /\ LET c == Head(todo[w]) IN
       \/ IsTin(c) /\ Answer(w, c, IF copy[c].dirs = "none" THEN << <<0, Whole>> >> ELSE <<>>)
       \/ ~IsTin(c) /\ copy[c].dirs = "ok" /\ Answer(w, c, BlockRequests(w, c))
       \/ ~IsTin(c) /\ copy[c].dirs = "bad" /\ Answer(w, c, <<>>)
       \/ ~IsTin(c) /\ copy[c].dirs = "none" /\ Goto(w, "ask_locked") /\ UNCHANGED <<reqs, todo>>
    /\ UNCHANGED <<world, sharedVars, readVars, key, held, ops, seen, err>>

\* The start of the file, or what the parser needs next.
DirsRequest(c) ==
    IF copy[c].loaded = {} THEN <<0, HEADER_CHUNK>>
    ELSE LET need == File(c).needs[Min(Missing(c, copy[c].loaded))]
         IN  <<need[1], Max({need[2], HEADER_CHUNK})>>

\* Without the second look: what is loaded parses, so nothing is missing.
MutRangesLocked(w, c) == IF copy[c].dirs = "none" THEN <<DirsRequest(c)>> ELSE <<>>

\* Under the lock it is looked at again: an insert may have come in between.
RangesLocked(w, c) ==
    CASE copy[c].dirs = "none" -> <<DirsRequest(c)>>
      [] copy[c].dirs = "ok" -> BlockRequests(w, c)
      [] copy[c].dirs = "bad" -> <<>>

AskLocked(w) ==
    /\ pc[w] = "ask_locked"
    /\ LET c == Head(todo[w]) IN copy[c].lock = Nobody /\ Answer(w, c, RangesLocked(w, c))
    /\ UNCHANGED <<world, sharedVars, readVars, key, held, ops, seen, err>>

-----------------------------------------------------------------------------
\* Transform::load_grids: rounds of requests until nothing is missing.

\* The round's list is complete.
Asked(w) ==
    /\ pc[w] = "ask" /\ todo[w] = <<>>
    /\ \/ reqs[w] = <<>> /\ Record(w, [state |-> "ready", held |-> held[w]])
       \/ reqs[w] # <<>> /\ ~world.loader[ReadOf(w)] /\ Fail(w, <<"no loader">>)
       \/ reqs[w] # <<>> /\ world.loader[ReadOf(w)] /\ Goto(w, "fetch") /\ UNCHANGED <<readVars, localVars>>
    /\ UNCHANGED <<world, sharedVars>>

\* add_grid_data hands the bytes to the first file of the transform with that name.
Receiver(w) == held[w][SelectInSeq(held[w], LAMBDA c : c[1] = Head(reqs[w]).file)]

\* Nothing is remembered of earlier rounds.
MutSeenBefore(w) == FALSE

SeenBefore(w) == Head(reqs[w]) \in seen[w]

Fetch(w) ==
    /\ pc[w] = "fetch"
    /\ \/ SeenBefore(w) /\ Fail(w, <<"missing", Head(reqs[w]).file>>)
       \/ /\ ~SeenBefore(w)
          /\ \/ /\ seen' = [seen EXCEPT ![w] = @ \cup {Head(reqs[w])}]
                /\ Goto(w, "insert")
                /\ UNCHANGED <<readVars, key, held, ops, todo, reqs, err>>
             \/ Fail(w, <<"fetch">>)
    /\ UNCHANGED <<world, sharedVars>>

\* The bytes the file has in the requested range.
Data(c, range) ==
    (0 .. File(c).size - 1) \cap (IF range[2] = Whole THEN Nat ELSE Units(range))

\* The next request of the round, or the next round.
NextRequest(w) ==
    /\ reqs' = [reqs EXCEPT ![w] = Tail(@)]
    /\ IF Len(reqs[w]) > 1 THEN Goto(w, "fetch") /\ UNCHANGED todo
       ELSE Goto(w, "ask") /\ todo' = [todo EXCEPT ![w] = held[w]]
    /\ UNCHANGED <<readVars, key, held, ops, seen, err>>

\* GridFile::insert of a triangulation: the first bytes to come are parsed, whoever brings them.
InsertTin(w) ==
    /\ pc[w] = "insert" /\ IsTin(Receiver(w))
    /\ LET c == Receiver(w)
           parsed == IF File(c).size = File(c).full /\ ~File(c).badDirs THEN "ok" ELSE "bad"
           dirs == IF copy[c].dirs = "none" THEN parsed ELSE copy[c].dirs
       IN  /\ copy' = [copy EXCEPT ![c].dirs = dirs]
           /\ \/ dirs = "ok" /\ NextRequest(w)
              \/ dirs = "bad" /\ Fail(w, <<"invalid", c[1]>>)
    /\ UNCHANGED <<world, gen>>

\* GridFile::insert: the bytes are added and the directories parsed, under the file's lock ...
Insert(w) ==
    /\ pc[w] = "insert" /\ ~IsTin(Receiver(w))
    /\ copy[Receiver(w)].lock = Nobody
    /\ LET c == Receiver(w)
           loaded == copy[c].loaded \cup Data(c, Head(reqs[w]).range)
           dirs == IF copy[c].dirs = "none" THEN ParsedDirs(c, loaded) ELSE copy[c].dirs
           newlyBad == dirs = "bad" /\ copy[c].dirs = "none"
       IN  /\ copy' = [copy EXCEPT ![c].loaded = loaded, ![c].dirs = dirs,
                                   ![c].lock = IF dirs = "ok" THEN w ELSE Nobody]
           /\ \/ dirs = "ok" /\ Goto(w, "decode") /\ UNCHANGED <<readVars, localVars>>
              \/ newlyBad /\ Fail(w, <<"invalid", c[1]>>)
              \/ dirs # "ok" /\ ~newlyBad /\ NextRequest(w)
    /\ UNCHANGED <<world, gen>>

\* Only the insert that read the directories decodes.
MutDecodable(c) ==
    IF copy[c].decoded # {} THEN {}
    ELSE {b \in DOMAIN File(c).blocks : Units(File(c).blocks[b]) \subseteq copy[c].loaded}

\* ... and the blocks whose bytes are complete are decoded, up to one that is broken, also
\* blocks that only another transform asked for.
Decodable(c) ==
    {b \in DOMAIN File(c).blocks : Units(File(c).blocks[b]) \subseteq copy[c].loaded}

Decode(w) ==
    /\ pc[w] = "decode"
    /\ LET c == Receiver(w)
           broken == Decodable(c) \cap File(c).badBlocks
           good == {b \in Decodable(c) : \A x \in broken : b < x}
       IN  /\ copy' = [copy EXCEPT ![c].decoded = @ \cup good, ![c].lock = Nobody]
           /\ \/ broken = {} /\ NextRequest(w)
              \/ broken # {} /\ Fail(w, <<"invalid", c[1]>>)
    /\ UNCHANGED <<world, gen>>

\* clear_grids: the registry is emptied; transforms keep the copies they hold.
ClearGrids ==
    /\ gen < world.clears
    /\ gen' = gen + 1
    /\ UNCHANGED <<world, copy, readVars, pc, localVars>>

Setup(w) ==
    \/ WriteSetups(w) \/ Register(w) \/ Ask(w) \/ AskLocked(w)
    \/ Asked(w) \/ Fetch(w) \/ InsertTin(w) \/ Insert(w) \/ Decode(w)

Next == (\E w \in Workers : ReadSetups(w) \/ Setup(w)) \/ ClearGrids

Spec == Init /\ [][Next]_vars /\ \A w \in Workers : WF_vars(Setup(w))

-----------------------------------------------------------------------------

\* A transform that is ready has what its area needs ("Load what `transform` needs for the
\* source CRS's area of use", xeibe-arrow/src/reproject.rs), whoever loaded it and whatever other
\* threads loaded meanwhile: no geometry there meets a grid that is not loaded.  A file known to
\* be no grid is left to its geometries.
GridsCover ==
    \A r \in Reads : \A k \in Keys :
        setups[r][k].state = "ready" =>
            \A n \in DOMAIN setups[r][k].held :
                LET c == setups[r][k].held[n] IN
                \/ copy[c].dirs = "bad"
                \/ copy[c].dirs = "ok" /\ world.keys[k].blocks[c[1]] \subseteq copy[c].decoded

\* clear_grids came between two operations of a transform, which has two copies of a file: bytes
\* go to the first of them only.
TwoCopies(w) == \E a, b \in ToSet(held[w]) : a # b /\ a[1] = b[1]

\* A request is asked for twice, and the load ends with "bytes are missing", only where the file
\* is shorter than its directories say (load_grids in grid/api.rs): what other threads load,
\* decode and clear meanwhile never makes a whole file look short to a transform that has one
\* copy of each file.
MissingOnlyIfShort ==
    \A w \in Workers : err[w][1] = "missing" /\ ~TwoCopies(w) =>
        world.files[err[w][2]].size < world.files[err[w][2]].full

\* A range that should reach behind the end of a file that is cut off.
CutShort(c, range) == File(c).size < File(c).full /\ File(c).size < range[1] + range[2]

\* "Held while the grids load, so that each is fetched once" (setup in reproject.rs): no thread of
\* a read brings bytes that all are there, also for srsNames that share a file, unless another
\* read or a load that failed brought them, or the file ends before they do.
FetchedOnce ==
    \A w \in Workers :
        /\ pc[w] = "insert" /\ ~TwoCopies(w)
        /\ \A x \in Workers : ReadOf(x) = ReadOf(w) /\ pc[x] # "failed"
        => LET c == Receiver(w)
               range == Head(reqs[w]).range
           IN  IF IsTin(c) THEN copy[c].dirs = "none"
               ELSE CutShort(c, range) \/ ~(Data(c, range) \subseteq copy[c].loaded)

\* Every setup ends, with a transform, a failure that is recorded, or the read's error: the rounds
\* come to an end, and nobody waits for a lock for ever.
SetupEnds == \A w \in Workers : []<>(pc[w] \in {"idle", "failed"})

=============================================================================
