---------------------------- MODULE DecodeAhead ----------------------------
(***************************************************************************)
(* Decoding ahead of the readers: `DecodeAhead`, `AheadShared` and         *)
(* `AheadReader` of crates/xeibe-core/src/decode.rs.                       *)
(*                                                                         *)
(* The reader of a source (the worker that splits it) takes decoded blocks *)
(* from a queue, or decodes the next one itself; helpers (the other        *)
(* workers) decode blocks into the queue.  The n-th block of a source is   *)
(* n.  An error of the decoder takes the number after the last block; it   *)
(* may come with the data before it, and is then kept for the next call.   *)
(***************************************************************************)
EXTENDS Naturals, Sequences, FiniteSets

CONSTANTS
    Helpers,        \* the threads that call help()
    Sources,        \* the sources, each opened once, all decoded ahead
    Nobody,         \* the holder of a decoder nobody holds
    Contents,       \* what the sources may hold, functions to ContentType
    AHEAD_BLOCKS    \* blocks that may wait for the reader

ContentType == [blocks: Nat, failure: {"none", "alone", "with_data"}]

ASSUME DecodeAssumption ==
    /\ Nobody \notin Helpers \cup Sources
    /\ Helpers \cap Sources = {}
    /\ IsFiniteSet(Helpers) /\ Helpers # {} /\ IsFiniteSet(Sources)
    /\ Contents \subseteq [Sources -> ContentType]
    /\ AHEAD_BLOCKS \in Nat \ {0}

VARIABLES
    content,    \* what each source holds
    streams,    \* DecodeAhead::streams, the sources opened and not known to be dropped
    age,        \* how many sources were opened before a source, the order of that list
    alive,      \* sources whose reader has not been dropped
    decoder,    \* decoder[s]: who holds it (the reader of s is s itself)
    decoded,    \* blocks the decoder has given
    done, error,                    \* AheadDecoder
    blocks,     \* AheadShared::blocks
    got,        \* what the reader has taken
    rpc,        \* where the reader is
    hpc, todo,  \* where a helper is, and the sources it has still to try
    at, hand    \* the source it tries, and the block it has decoded and not queued yet

decoderVars == <<decoded, done, error>>
readerVars == <<got, rpc>>
helperVars == <<hpc, todo, at, hand>>
vars == <<content, streams, age, alive, decoder, decoderVars, blocks, readerVars, helperVars>>

Init ==
    /\ content \in Contents
    /\ streams = {}
    /\ age = [s \in Sources |-> 0]
    /\ alive = Sources
    /\ decoder = [s \in Sources |-> Nobody]
    /\ decoded = [s \in Sources |-> 0]
    /\ done = [s \in Sources |-> FALSE]
    /\ error = [s \in Sources |-> FALSE]
    /\ blocks = [s \in Sources |-> <<>>]
    /\ got = [s \in Sources |-> <<>>]
    /\ rpc = [s \in Sources |-> "unopened"]
    /\ hpc = [h \in Helpers |-> "idle"]
    /\ todo = [h \in Helpers |-> {}]
    /\ at = [h \in Helpers |-> Nobody]
    /\ hand = [h \in Helpers |-> 0]

\* The number an error of the source takes, and the end of its blocks.
ErrorBlock(s) == content[s].blocks + 1
Blocks(s) == IF content[s].failure = "none" THEN content[s].blocks ELSE ErrorBlock(s)

(***************************************************************************)
(* AheadDecoder::block: the block it returns, 0 for None, and what it      *)
(* leaves behind.  The error kept from the call before comes first.        *)
(***************************************************************************)
BlockGiven(s) ==
    IF error[s] THEN ErrorBlock(s)
    ELSE IF done[s] THEN 0
    ELSE IF decoded[s] < content[s].blocks THEN decoded[s] + 1
    ELSE IF content[s].failure = "none" THEN 0
    ELSE ErrorBlock(s)

Block(s) ==
    LET b == BlockGiven(s)
        last == content[s].blocks
    IN  /\ decoded' = [decoded EXCEPT ![s] = IF b = 0 THEN @ ELSE b]
        /\ error' = [error EXCEPT ![s] =
                        ~@ /\ b # 0 /\ b = last /\ content[s].failure = "with_data"]
        /\ done' = [done EXCEPT ![s] =
                        @ \/ b = 0 \/ b > last \/ (b = last /\ content[s].failure = "with_data")]

-----------------------------------------------------------------------------
\* The reader of a source.

\* Source::open_ahead: the stream is made and added (DecodeAhead::add).
Open(s) ==
    /\ rpc[s] = "unopened"
    /\ streams' = streams \cup {s}
    /\ age' = [age EXCEPT ![s] = Cardinality({t \in Sources : rpc[t] # "unopened"})]
    /\ rpc' = [rpc EXCEPT ![s] = "queue"]
    /\ UNCHANGED <<content, alive, decoder, decoderVars, blocks, got, helperVars>>

\* The reader gets a block; read() passes an error on, which ends the source.
Got(s, b) ==
    /\ got' = [got EXCEPT ![s] = Append(@, b)]
    /\ rpc' = [rpc EXCEPT ![s] = IF b = ErrorBlock(s) THEN "ended" ELSE "queue"]

\* AheadShared::next_block: a block from the queue, without the decoder's lock.
PopQueue(s) ==
    /\ rpc[s] = "queue"
    /\ \/ /\ blocks[s] # <<>>
          /\ Got(s, Head(blocks[s]))
          /\ blocks' = [blocks EXCEPT ![s] = Tail(@)]
       \/ /\ blocks[s] = <<>>
          /\ rpc' = [rpc EXCEPT ![s] = "lock"]
          /\ UNCHANGED <<got, blocks>>
    /\ UNCHANGED <<content, streams, age, alive, decoder, decoderVars, helperVars>>

LockDecoder(s) ==
    /\ rpc[s] = "lock"
    /\ decoder[s] = Nobody
    /\ decoder' = [decoder EXCEPT ![s] = s]
    /\ rpc' = [rpc EXCEPT ![s] = "locked"]
    /\ UNCHANGED <<content, streams, age, alive, decoderVars, blocks, got, helperVars>>

MutPopLocked(s) ==               \* Mutant: what was queued meanwhile is not looked at.
    /\ rpc[s] = "locked"
    /\ rpc' = [rpc EXCEPT ![s] = "decode"]
    /\ UNCHANGED <<content, streams, age, alive, decoder, decoderVars, blocks, got, helperVars>>

\* With the decoder held: a block queued while this thread waited for it ...
PopLocked(s) ==
    /\ rpc[s] = "locked"
    /\ \/ /\ blocks[s] # <<>>
          /\ Got(s, Head(blocks[s]))
          /\ blocks' = [blocks EXCEPT ![s] = Tail(@)]
          /\ decoder' = [decoder EXCEPT ![s] = Nobody]
       \/ /\ blocks[s] = <<>>
          /\ rpc' = [rpc EXCEPT ![s] = "decode"]
          /\ UNCHANGED <<got, blocks, decoder>>
    /\ UNCHANGED <<content, streams, age, alive, decoderVars, helperVars>>

\* ... or the next one, or the end.
DecodeNow(s) ==
    /\ rpc[s] = "decode"
    /\ decoder' = [decoder EXCEPT ![s] = Nobody]
    /\ Block(s)
    /\ \/ BlockGiven(s) # 0 /\ Got(s, BlockGiven(s))
       \/ BlockGiven(s) = 0 /\ rpc' = [rpc EXCEPT ![s] = "ended"] /\ UNCHANGED got
    /\ UNCHANGED <<content, streams, age, alive, blocks, helperVars>>

\* The reader is dropped: at the end of its source, or in the middle of it.
DropReader(s) ==
    /\ rpc[s] \in {"queue", "ended"}
    /\ s \in alive
    /\ alive' = alive \ {s}
    /\ rpc' = [rpc EXCEPT ![s] = "dropped"]
    /\ UNCHANGED <<content, streams, age, decoder, decoderVars, blocks, got, helperVars>>

Reader(s) == Open(s) \/ PopQueue(s) \/ LockDecoder(s) \/ PopLocked(s) \/ DecodeNow(s)

-----------------------------------------------------------------------------
\* A helper: one call of DecodeAhead::help.

CallHelp(h) ==
    LET upgraded == streams \cap alive
    IN  /\ hpc[h] = "idle"
        /\ upgraded # {}
        /\ streams' = upgraded
        /\ todo' = [todo EXCEPT ![h] = upgraded]
        /\ hpc' = [hpc EXCEPT ![h] = "room"]
        /\ UNCHANGED <<content, age, alive, decoder, decoderVars, blocks, readerVars, at, hand>>

\* decode_ahead() said false: the next source of those left, or help() says false.
TryNext(h, left) ==
    /\ hpc' = [hpc EXCEPT ![h] = IF left = {} THEN "idle" ELSE "room"]
    /\ at' = [at EXCEPT ![h] = Nobody]

MutHasRoom(s) == TRUE            \* Mutant: a full queue is not noticed.

HasRoom(s) == Len(blocks[s]) < AHEAD_BLOCKS

\* AheadShared::decode_ahead of the oldest looks for room before it has the decoder.
CheckRoom(h) ==
    /\ hpc[h] = "room"
    /\ \E s \in todo[h] :
        /\ \A t \in todo[h] : age[s] <= age[t]
        /\ todo' = [todo EXCEPT ![h] = @ \ {s}]
        /\ \/ /\ HasRoom(s)
              /\ at' = [at EXCEPT ![h] = s]
              /\ hpc' = [hpc EXCEPT ![h] = "try"]
           \/ ~HasRoom(s) /\ TryNext(h, todo[h] \ {s})
    /\ UNCHANGED <<content, streams, age, alive, decoder, decoderVars, blocks, readerVars, hand>>

TryDecoder(h) ==
    LET s == at[h]
    IN  /\ hpc[h] = "try"
        /\ \/ /\ decoder[s] = Nobody
              /\ decoder' = [decoder EXCEPT ![s] = h]
              /\ hpc' = [hpc EXCEPT ![h] = "decode"]
              /\ UNCHANGED at
           \/ decoder[s] # Nobody /\ TryNext(h, todo[h]) /\ UNCHANGED decoder
        /\ UNCHANGED <<content, streams, age, alive, decoderVars, blocks, readerVars, todo, hand>>

MutDecode(h) ==                  \* Mutant: a helper that finds the end keeps the decoder.
    LET s == at[h]
    IN  /\ hpc[h] = "decode"
        /\ Block(s)
        /\ \/ /\ BlockGiven(s) # 0
              /\ hand' = [hand EXCEPT ![h] = BlockGiven(s)]
              /\ hpc' = [hpc EXCEPT ![h] = "push"]
              /\ UNCHANGED at
           \/ BlockGiven(s) = 0 /\ TryNext(h, todo[h]) /\ UNCHANGED hand
        /\ UNCHANGED <<content, streams, age, alive, decoder, blocks, readerVars, todo>>

\* Decodes a block; at the end of the source the decoder is let go.
Decode(h) ==
    LET s == at[h]
    IN  /\ hpc[h] = "decode"
        /\ Block(s)
        /\ \/ /\ BlockGiven(s) # 0
              /\ hand' = [hand EXCEPT ![h] = BlockGiven(s)]
              /\ hpc' = [hpc EXCEPT ![h] = "push"]
              /\ UNCHANGED <<at, decoder>>
           \/ /\ BlockGiven(s) = 0
              /\ TryNext(h, todo[h])
              /\ decoder' = [decoder EXCEPT ![s] = Nobody]
              /\ UNCHANGED hand
        /\ UNCHANGED <<content, streams, age, alive, blocks, readerVars, todo>>

\* The block goes into the queue while the decoder is held, and help() says true.
Push(h) ==
    LET s == at[h]
    IN  /\ hpc[h] = "push"
        /\ blocks' = [blocks EXCEPT ![s] = Append(@, hand[h])]
        /\ decoder' = [decoder EXCEPT ![s] = Nobody]
        /\ hpc' = [hpc EXCEPT ![h] = "idle"]
        /\ todo' = [todo EXCEPT ![h] = {}]
        /\ at' = [at EXCEPT ![h] = Nobody]
        /\ hand' = [hand EXCEPT ![h] = 0]
        /\ UNCHANGED <<content, streams, age, alive, decoderVars, readerVars>>

Helper(h) == CheckRoom(h) \/ TryDecoder(h) \/ Decode(h) \/ Push(h)

Next ==
    \/ \E s \in Sources : Reader(s) \/ DropReader(s)
    \/ \E h \in Helpers : CallHelp(h) \/ Helper(h)

Spec == Init /\ [][Next]_vars

\* Readers read on and a call of help() goes on; nothing makes anyone call help().  A reader
\* that waits for its decoder gets it in the end: a helper that found nothing to decode does
\* not ask for ever, it goes on to wait for a stream (Input::take, parallel.rs 367-372).
FairSpec ==
    /\ Spec
    /\ \A s \in Sources : WF_vars(Reader(s)) /\ SF_vars(LockDecoder(s))
    /\ \A h \in Helpers : WF_vars(Helper(h))

-----------------------------------------------------------------------------

\* The type invariant.
TypeOK ==
    /\ content \in Contents
    /\ streams \subseteq Sources /\ age \in [Sources -> Nat]
    /\ alive \subseteq Sources
    /\ decoder \in [Sources -> Helpers \cup Sources \cup {Nobody}]
    /\ decoded \in [Sources -> Nat] /\ \A s \in Sources : decoded[s] <= Blocks(s)
    /\ done \in [Sources -> BOOLEAN] /\ error \in [Sources -> BOOLEAN]
    /\ blocks \in [Sources -> Seq(Nat)] /\ got \in [Sources -> Seq(Nat)]
    /\ rpc \in [Sources -> {"unopened", "queue", "lock", "locked", "decode", "ended", "dropped"}]
    /\ hpc \in [Helpers -> {"idle", "room", "try", "decode", "push"}]
    /\ todo \in [Helpers -> SUBSET Sources]
    /\ at \in [Helpers -> Sources \cup {Nobody}]
    /\ hand \in [Helpers -> Nat]

\* The reader gets the blocks in order, each once, without a gap: "Blocks are queued while the
\* decoder is locked, so they stay in order" (decode.rs 208-209), although it takes some from
\* the queue and decodes others itself; and it sees the end only after the last block and the
\* error, if there is one, also where a helper met the end before it.
BlocksInOrder ==
    \A s \in Sources :
        /\ \A n \in DOMAIN got[s] : got[s][n] = n
        /\ rpc[s] = "ended" => Len(got[s]) = Blocks(s)

\* The room is looked for before the decoder is held, so each helper but one may add a block
\* beyond the AHEAD_BLOCKS that decode.rs 165-166 speaks of, and no more.
QueueBound ==
    \A s \in Sources : Len(blocks[s]) <= AHEAD_BLOCKS + Cardinality(Helpers) - 1

\* No reader waits for ever, whatever the helpers do with its decoder: it ends or is dropped.
ReadersEnd == \A s \in Sources : <>(rpc[s] \in {"ended", "dropped"})

=============================================================================
