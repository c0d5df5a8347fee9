------------------------- MODULE DecodeAheadProofs -------------------------
(***************************************************************************)
(* Theorems about module DecodeAhead, for any sources, helpers and sizes   *)
(* of the queues: a reader gets its blocks in order and all of them, and   *)
(* the queues are bounded.                                                 *)
(***************************************************************************)
EXTENDS DecodeAhead, FiniteSetTheorems, TLAPS

USE DEF decoderVars, readerVars, helperVars

(***************************************************************************)
(* The inductive invariant.  DecoderInv is what AheadDecoder knows of the  *)
(* end of its source; HolderInv says who may touch it; BlocksInv where its *)
(* blocks are.                                                             *)
(***************************************************************************)
DecoderInv ==
    \A s \in Sources :
        /\ error[s] => /\ done[s] /\ content[s].failure = "with_data"
                       /\ decoded[s] = content[s].blocks
        /\ done[s] /\ ~error[s] => decoded[s] = Blocks(s)
        /\ ~done[s] => decoded[s] <= content[s].blocks

HolderInv ==
    /\ \A s \in Sources : rpc[s] \in {"locked", "decode"} => decoder[s] = s
    /\ \A h \in Helpers : hpc[h] \in {"try", "decode", "push"} => at[h] \in Sources
    /\ \A h \in Helpers : hpc[h] \in {"decode", "push"} => decoder[at[h]] = h

\* The blocks a source's reader has or will find in the queue.
Given(s) == Len(got[s]) + Len(blocks[s])

BlocksOf(s) ==
    /\ \A n \in DOMAIN got[s] : got[s][n] = n
    /\ \A n \in DOMAIN blocks[s] : blocks[s][n] = Len(got[s]) + n
    /\ rpc[s] = "decode" => blocks[s] = <<>>
    /\ rpc[s] = "ended" => Len(got[s]) = Blocks(s)
    /\ (\A h \in Helpers : ~(hpc[h] = "push" /\ at[h] = s)) => decoded[s] = Given(s)
    /\ \A h \in Helpers : hpc[h] = "push" /\ at[h] = s =>
           hand[h] = decoded[s] /\ decoded[s] = Given(s) + 1

BlocksInv == \A s \in Sources : BlocksOf(s)

OrderInv == DecoderInv /\ HolderInv /\ BlocksInv

\* The helpers that looked for room in the queue of a source and may still add to it.
Adding(s) == {h \in Helpers : hpc[h] \in {"try", "decode", "push"} /\ at[h] = s}

RoomInv ==
    \A s \in Sources :
        Len(blocks[s]) + Cardinality(Adding(s)) <= AHEAD_BLOCKS + Cardinality(Helpers) - 1

-----------------------------------------------------------------------------

LEMMA ContentFacts ==
  ASSUME TypeOK, NEW s \in Sources
  PROVE  /\ content[s].blocks \in Nat
         /\ content[s].failure \in {"none", "alone", "with_data"}
         /\ ErrorBlock(s) = content[s].blocks + 1
         /\ Blocks(s) \in Nat /\ Blocks(s) <= ErrorBlock(s)
  <1>1. content[s] \in ContentType
    BY DecodeAssumption DEF TypeOK
  <1>2. QED
    BY <1>1 DEF ContentType, ErrorBlock, Blocks

LEMMA BlocksStay ==
  ASSUME content' = content, NEW s \in Sources
  PROVE  Blocks(s)' = Blocks(s) /\ ErrorBlock(s)' = ErrorBlock(s)
  BY DEF Blocks, ErrorBlock

(***************************************************************************)
(* What AheadDecoder::block gives: the next number, or nothing and then    *)
(* every block has been given.                                             *)
(***************************************************************************)
LEMMA BlockFacts ==
  ASSUME TypeOK, DecoderInv, NEW s \in Sources, Block(s), content' = content
  PROVE  /\ \/ /\ BlockGiven(s) = decoded[s] + 1 /\ BlockGiven(s) # 0
               /\ BlockGiven(s) <= Blocks(s)
               /\ decoded' = [decoded EXCEPT ![s] = decoded[s] + 1]
            \/ /\ BlockGiven(s) = 0
               /\ decoded' = decoded /\ decoded[s] = Blocks(s)
         /\ decoded' \in [Sources -> Nat] /\ \A x \in Sources : decoded'[x] <= Blocks(x)'
         /\ done' \in [Sources -> BOOLEAN] /\ error' \in [Sources -> BOOLEAN]
         /\ DecoderInv'
  <1> DEFINE b == BlockGiven(s)
  <1>1. /\ content[s].blocks \in Nat
        /\ content[s].failure \in {"none", "alone", "with_data"}
        /\ ErrorBlock(s) = content[s].blocks + 1
        /\ Blocks(s) = IF content[s].failure = "none" THEN content[s].blocks ELSE ErrorBlock(s)
    BY ContentFacts DEF Blocks
  <1>2. /\ decoded \in [Sources -> Nat]
        /\ done \in [Sources -> BOOLEAN] /\ error \in [Sources -> BOOLEAN]
    BY DEF TypeOK
  <1>3. /\ error[s] => /\ done[s] /\ content[s].failure = "with_data"
                       /\ decoded[s] = content[s].blocks
        /\ done[s] /\ ~error[s] => decoded[s] = Blocks(s)
        /\ ~done[s] => decoded[s] <= content[s].blocks
    BY DEF DecoderInv
  <1>4. \/ /\ b = decoded[s] + 1 /\ b # 0 /\ b <= Blocks(s)
           /\ error[s] => b = content[s].blocks + 1
           /\ b > content[s].blocks => content[s].failure # "none"
        \/ b = 0 /\ decoded[s] = Blocks(s) /\ ~error[s]
    BY <1>1, <1>2, <1>3 DEF BlockGiven
  <1>5. /\ decoded' = [decoded EXCEPT ![s] = IF b = 0 THEN decoded[s] ELSE b]
        /\ error' = [error EXCEPT ![s] = ~error[s] /\ b # 0 /\ b = content[s].blocks
                                            /\ content[s].failure = "with_data"]
        /\ done' = [done EXCEPT ![s] = done[s] \/ b = 0 \/ b > content[s].blocks
                        \/ (b = content[s].blocks /\ content[s].failure = "with_data")]
    BY DEF Block
  <1> HIDE DEF b
  <1>6. \/ /\ b = decoded[s] + 1 /\ b # 0 /\ b <= Blocks(s)
           /\ decoded' = [decoded EXCEPT ![s] = decoded[s] + 1]
        \/ b = 0 /\ decoded' = decoded /\ decoded[s] = Blocks(s)
    BY <1>2, <1>4, <1>5
  <1>7. done' \in [Sources -> BOOLEAN] /\ error' \in [Sources -> BOOLEAN]
    BY <1>2, <1>5
  <1>8. decoded' \in [Sources -> Nat] /\ \A x \in Sources : decoded'[x] <= Blocks(x)'
    <2>1. \A x \in Sources : Blocks(x)' = Blocks(x)
      BY BlocksStay
    <2>2. \A x \in Sources : decoded[x] <= Blocks(x)
      BY DEF TypeOK
    <2>3. QED
      BY <1>2, <1>6, <2>1, <2>2
  <1>9. DecoderInv'
    <2> SUFFICES ASSUME NEW x \in Sources
                 PROVE  /\ error'[x] => /\ done'[x] /\ content'[x].failure = "with_data"
                                        /\ decoded'[x] = content'[x].blocks
                        /\ done'[x] /\ ~error'[x] => decoded'[x] = Blocks(x)'
                        /\ ~done'[x] => decoded'[x] <= content'[x].blocks
      BY DEF DecoderInv
    <2>1. Blocks(x)' = Blocks(x)
      BY BlocksStay
    <2>2. CASE x = s
      <3>1. /\ decoded'[s] = IF b = 0 THEN decoded[s] ELSE b
            /\ error'[s] <=> (~error[s] /\ b # 0 /\ b = content[s].blocks
                              /\ content[s].failure = "with_data")
            /\ done'[s] <=> (done[s] \/ b = 0 \/ b > content[s].blocks
                             \/ (b = content[s].blocks /\ content[s].failure = "with_data"))
        BY <1>2, <1>5
      <3>2. content'[s] = content[s] /\ decoded[s] \in Nat
        BY <1>2
      <3>3. CASE b = 0
        BY <1>1, <1>3, <1>4, <2>1, <2>2, <3>1, <3>2, <3>3
      <3>4. CASE b # 0
        <4>1. done'[s] /\ ~error'[s] => decoded'[s] = Blocks(s)
          BY <1>1, <1>3, <1>4, <3>1, <3>2, <3>4
        <4>2. /\ error'[s] => done'[s] /\ content[s].failure = "with_data" /\ decoded'[s] = content[s].blocks
              /\ ~done'[s] => decoded'[s] <= content[s].blocks
          BY <1>1, <1>3, <1>4, <3>1, <3>2, <3>4
        <4>3. QED
          BY <2>1, <2>2, <3>2, <4>1, <4>2
      <3>5. QED
        BY <3>3, <3>4
    <2>3. CASE x # s
      BY <1>2, <1>5, <2>1, <2>3 DEF DecoderInv
    <2>4. QED
      BY <2>2, <2>3
  <1>10. QED
    BY <1>6, <1>7, <1>8, <1>9 DEF b

-----------------------------------------------------------------------------
\* The initial states.

LEMMA OrderInit == Init => TypeOK /\ OrderInv
  <1> SUFFICES ASSUME Init PROVE TypeOK /\ OrderInv
    OBVIOUS
  <1>1. \A s \in Sources : content[s] \in ContentType
    BY DecodeAssumption DEF Init
  <1>2. \A s \in Sources : content[s].blocks \in Nat
    BY <1>1 DEF ContentType
  <1>3. \A s \in Sources : Blocks(s) \in Nat
    BY <1>2 DEF Blocks, ErrorBlock
  <1>4. TypeOK
    BY <1>3 DEF Init, TypeOK
  <1>5. DecoderInv
    BY <1>2 DEF Init, DecoderInv
  <1>6. HolderInv
    BY DEF Init, HolderInv
  <1>7. BlocksInv
    BY DEF Init, BlocksInv, BlocksOf, Given
  <1>8. QED
    BY <1>4, <1>5, <1>6, <1>7 DEF OrderInv

-----------------------------------------------------------------------------
\* The types and the decoders.

LEMMA TypeStep == TypeOK /\ DecoderInv /\ HolderInv /\ [Next]_vars => TypeOK' /\ DecoderInv'
  <1> SUFFICES ASSUME TypeOK, DecoderInv, HolderInv, [Next]_vars PROVE TypeOK' /\ DecoderInv'
    OBVIOUS
  <1>1. ASSUME content' = content, UNCHANGED decoderVars
        PROVE  DecoderInv' /\ \A s \in Sources : decoded'[s] <= Blocks(s)'
    <2>1. \A s \in Sources : Blocks(s)' = Blocks(s)
      BY <1>1, BlocksStay
    <2>2. QED
      BY <1>1, <2>1 DEF DecoderInv, TypeOK
  <1>2. ASSUME NEW s \in Sources, NEW b \in Nat, Got(s, b)
        PROVE  /\ got' \in [Sources -> Seq(Nat)]
               /\ rpc' \in [Sources -> {"unopened", "queue", "lock", "locked", "decode", "ended",
                                        "dropped"}]
    BY <1>2 DEF Got, TypeOK
  <1>3. ASSUME NEW s \in Sources, blocks[s] # <<>>
        PROVE  Head(blocks[s]) \in Nat /\ Tail(blocks[s]) \in Seq(Nat)
    BY <1>3 DEF TypeOK
  <1>4. ASSUME NEW s \in Sources, Open(s) PROVE TypeOK' /\ DecoderInv'
    <2>1. Cardinality({t \in Sources : rpc[t] # "unopened"}) \in Nat
      BY DecodeAssumption, FS_Subset, FS_CardinalityType
    <2>2. QED
      BY <1>1, <1>4, <2>1 DEF Open, TypeOK
  <1>5. ASSUME NEW s \in Sources, PopQueue(s) PROVE TypeOK' /\ DecoderInv'
    <2>1. UNCHANGED <<content, streams, age, alive, decoder, decoderVars, helperVars>>
      BY <1>5 DEF PopQueue
    <2>2. /\ blocks' \in [Sources -> Seq(Nat)] /\ got' \in [Sources -> Seq(Nat)]
          /\ rpc' \in [Sources -> {"unopened", "queue", "lock", "locked", "decode", "ended",
                                   "dropped"}]
      <3>1. CASE blocks[s] # <<>>
        <4>1. Got(s, Head(blocks[s])) /\ blocks' = [blocks EXCEPT ![s] = Tail(blocks[s])]
          BY <1>5, <3>1 DEF PopQueue
        <4>2. QED
          BY <1>2, <1>3, <3>1, <4>1 DEF TypeOK
      <3>2. CASE blocks[s] = <<>>
        BY <1>5, <3>2 DEF PopQueue, TypeOK
      <3>3. QED
        BY <3>1, <3>2
    <2>3. QED
      BY <1>1, <2>1, <2>2 DEF TypeOK
  <1>6. ASSUME NEW s \in Sources, LockDecoder(s) PROVE TypeOK' /\ DecoderInv'
    BY <1>1, <1>6 DEF LockDecoder, TypeOK
  <1>7. ASSUME NEW s \in Sources, PopLocked(s) PROVE TypeOK' /\ DecoderInv'
    <2>1. decoder' \in [Sources -> Helpers \cup Sources \cup {Nobody}]
      BY <1>7 DEF PopLocked, TypeOK
    <2>2. UNCHANGED <<content, streams, age, alive, decoderVars, helperVars>>
      BY <1>7 DEF PopLocked
    <2>3. /\ blocks' \in [Sources -> Seq(Nat)] /\ got' \in [Sources -> Seq(Nat)]
          /\ rpc' \in [Sources -> {"unopened", "queue", "lock", "locked", "decode", "ended",
                                   "dropped"}]
      <3>1. CASE blocks[s] # <<>>
        <4>1. Got(s, Head(blocks[s])) /\ blocks' = [blocks EXCEPT ![s] = Tail(blocks[s])]
          BY <1>7, <3>1 DEF PopLocked
        <4>2. QED
          BY <1>2, <1>3, <3>1, <4>1 DEF TypeOK
      <3>2. CASE blocks[s] = <<>>
        BY <1>7, <3>2 DEF PopLocked, TypeOK
      <3>3. QED
        BY <3>1, <3>2
    <2>4. QED
      BY <1>1, <2>1, <2>2, <2>3 DEF TypeOK
  <1>8. ASSUME NEW s \in Sources, DecodeNow(s) PROVE TypeOK' /\ DecoderInv'
    <2>1. /\ Block(s) /\ content' = content
          /\ UNCHANGED <<streams, age, alive, blocks, helperVars>>
          /\ decoder' = [decoder EXCEPT ![s] = Nobody]
      BY <1>8 DEF DecodeNow
    <2>2. BlockGiven(s) \in Nat
      <3>1. decoded[s] \in Nat
        BY DEF TypeOK
      <3>2. QED
        BY <2>1, <3>1, BlockFacts
    <2>3. /\ got' \in [Sources -> Seq(Nat)]
          /\ rpc' \in [Sources -> {"unopened", "queue", "lock", "locked", "decode", "ended",
                                   "dropped"}]
      BY <1>2, <1>8, <2>2 DEF DecodeNow, TypeOK
    <2>4. QED
      BY <2>1, <2>3, BlockFacts DEF TypeOK
  <1>9. ASSUME NEW s \in Sources, DropReader(s) PROVE TypeOK' /\ DecoderInv'
    BY <1>1, <1>9 DEF DropReader, TypeOK
  <1>10. ASSUME NEW h \in Helpers, CallHelp(h) PROVE TypeOK' /\ DecoderInv'
    BY <1>1, <1>10 DEF CallHelp, TypeOK
  <1>11. ASSUME NEW h \in Helpers, CheckRoom(h) PROVE TypeOK' /\ DecoderInv'
    <2>1. PICK s \in todo[h] : todo' = [todo EXCEPT ![h] = todo[h] \ {s}]
                               /\ (at' = [at EXCEPT ![h] = s] \/ at' = [at EXCEPT ![h] = Nobody])
      BY <1>11 DEF CheckRoom, TryNext
    <2>2. todo' \in [Helpers -> SUBSET Sources] /\ at' \in [Helpers -> Sources \cup {Nobody}]
      BY <2>1 DEF TypeOK
    <2>3. hpc' \in [Helpers -> {"idle", "room", "try", "decode", "push"}]
      BY <1>11 DEF CheckRoom, TryNext, TypeOK
    <2>4. UNCHANGED <<content, streams, age, alive, decoder, decoderVars, blocks, readerVars, hand>>
      BY <1>11 DEF CheckRoom
    <2>5. QED
      BY <1>1, <2>2, <2>3, <2>4 DEF TypeOK
  <1>12. ASSUME NEW h \in Helpers, TryDecoder(h) PROVE TypeOK' /\ DecoderInv'
    <2>1. /\ hpc' \in [Helpers -> {"idle", "room", "try", "decode", "push"}]
          /\ at' \in [Helpers -> Sources \cup {Nobody}]
          /\ decoder' \in [Sources -> Helpers \cup Sources \cup {Nobody}]
      <3>1. CASE decoder[at[h]] = Nobody
        <4>1. /\ decoder' = [decoder EXCEPT ![at[h]] = h] /\ at' = at
              /\ hpc' = [hpc EXCEPT ![h] = "decode"]
          BY <1>12, <3>1 DEF TryDecoder
        <4>2. QED
          BY <4>1 DEF TypeOK
      <3>2. CASE decoder[at[h]] # Nobody
        <4>1. /\ decoder' = decoder /\ at' = [at EXCEPT ![h] = Nobody]
              /\ \E c \in {"idle", "room"} : hpc' = [hpc EXCEPT ![h] = c]
          BY <1>12, <3>2 DEF TryDecoder, TryNext
        <4>2. QED
          BY <4>1 DEF TypeOK
      <3>3. QED
        BY <3>1, <3>2
    <2>2. UNCHANGED <<content, streams, age, alive, decoderVars, blocks, readerVars, todo, hand>>
      BY <1>12 DEF TryDecoder
    <2>3. QED
      BY <1>1, <2>1, <2>2 DEF TypeOK
  <1>13. ASSUME NEW h \in Helpers, Decode(h) PROVE TypeOK' /\ DecoderInv'
    <2>0. at[h] \in Sources
      BY <1>13 DEF HolderInv, Decode
    <2>1. /\ Block(at[h]) /\ content' = content
          /\ UNCHANGED <<streams, age, alive, blocks, readerVars, todo>>
      BY <1>13 DEF Decode
    <2>2. BlockGiven(at[h]) \in Nat
      <3>1. decoded[at[h]] \in Nat
        BY <2>0 DEF TypeOK
      <3>2. QED
        BY <2>0, <2>1, <3>1, BlockFacts
    <2>3. /\ hand' \in [Helpers -> Nat]
          /\ at' \in [Helpers -> Sources \cup {Nobody}]
          /\ hpc' \in [Helpers -> {"idle", "room", "try", "decode", "push"}]
          /\ decoder' \in [Sources -> Helpers \cup Sources \cup {Nobody}]
      <3>1. CASE BlockGiven(at[h]) # 0
        <4>1. /\ hand' = [hand EXCEPT ![h] = BlockGiven(at[h])] /\ UNCHANGED <<at, decoder>>
              /\ hpc' = [hpc EXCEPT ![h] = "push"]
          BY <1>13, <3>1 DEF Decode
        <4>2. QED
          BY <2>2, <4>1 DEF TypeOK
      <3>2. CASE BlockGiven(at[h]) = 0
        <4>1. /\ decoder' = [decoder EXCEPT ![at[h]] = Nobody] /\ hand' = hand
              /\ at' = [at EXCEPT ![h] = Nobody]
              /\ \E c \in {"idle", "room"} : hpc' = [hpc EXCEPT ![h] = c]
          BY <1>13, <3>2 DEF Decode, TryNext
        <4>2. QED
          BY <4>1 DEF TypeOK
      <3>3. QED
        BY <3>1, <3>2
    <2>4. QED
      BY <2>0, <2>1, <2>3, BlockFacts DEF TypeOK
  <1>14. ASSUME NEW h \in Helpers, Push(h) PROVE TypeOK' /\ DecoderInv'
    <2>1. blocks' \in [Sources -> Seq(Nat)]
      <3>1. at[h] \in Sources
        BY <1>14 DEF HolderInv, Push
      <3>2. Append(blocks[at[h]], hand[h]) \in Seq(Nat)
        BY <3>1 DEF TypeOK
      <3>3. blocks' = [blocks EXCEPT ![at[h]] = Append(blocks[at[h]], hand[h])]
        BY <1>14 DEF Push
      <3>4. QED
        BY <3>2, <3>3 DEF TypeOK
    <2>2. /\ hpc' \in [Helpers -> {"idle", "room", "try", "decode", "push"}]
          /\ at' \in [Helpers -> Sources \cup {Nobody}] /\ todo' \in [Helpers -> SUBSET Sources]
          /\ hand' \in [Helpers -> Nat]
          /\ decoder' \in [Sources -> Helpers \cup Sources \cup {Nobody}]
      BY <1>14 DEF Push, TypeOK
    <2>3. UNCHANGED <<content, streams, age, alive, decoderVars, readerVars>>
      BY <1>14 DEF Push
    <2>4. QED
      BY <1>1, <2>1, <2>2, <2>3 DEF TypeOK
  <1>15. CASE UNCHANGED vars
    BY <1>1, <1>15 DEF vars, TypeOK
  <1>16. QED
    BY <1>4, <1>5, <1>6, <1>7, <1>8, <1>9, <1>10, <1>11, <1>12, <1>13, <1>14, <1>15
    DEF Next, Reader, Helper

(***************************************************************************)
(* One thread holds a decoder: it is taken when nobody has it, and only    *)
(* its holder lets it go.                                                  *)
(***************************************************************************)
LEMMA HolderStep == TypeOK /\ HolderInv /\ [Next]_vars => HolderInv'
  <1> SUFFICES ASSUME TypeOK, HolderInv, [Next]_vars PROVE HolderInv'
    OBVIOUS
  <1> USE DecodeAssumption
  <1>0. /\ decoder \in [Sources -> Helpers \cup Sources \cup {Nobody}]
        /\ rpc \in [Sources -> {"unopened", "queue", "lock", "locked", "decode", "ended",
                                "dropped"}]
        /\ hpc \in [Helpers -> {"idle", "room", "try", "decode", "push"}]
        /\ at \in [Helpers -> Sources \cup {Nobody}]
        /\ todo \in [Helpers -> SUBSET Sources]
    BY DEF TypeOK
  <1>1. ASSUME NEW s \in Sources, UNCHANGED helperVars,
               \A r \in Sources : r # s => rpc'[r] = rpc[r] /\ decoder'[r] = decoder[r],
               rpc'[s] \in {"locked", "decode"} => decoder'[s] = s,
               \A h \in Helpers : decoder[s] = h => decoder'[s] = h
        PROVE  HolderInv'
    BY <1>0, <1>1 DEF HolderInv
  <1>2. ASSUME NEW s \in Sources, Open(s) PROVE HolderInv'
    BY <1>0, <1>2 DEF HolderInv, Open
  <1>3. ASSUME NEW s \in Sources, NEW b, Got(s, b)
        PROVE  /\ \A r \in Sources : r # s => rpc'[r] = rpc[r]
               /\ rpc'[s] \in {"queue", "ended"}
    BY <1>0, <1>3 DEF Got
  <1>4. ASSUME NEW s \in Sources, PopQueue(s) PROVE HolderInv'
    <2>1. UNCHANGED <<decoder, helperVars>>
      BY <1>4 DEF PopQueue
    <2>2. (\A r \in Sources : r # s => rpc'[r] = rpc[r]) /\ rpc'[s] \notin {"locked", "decode"}
      BY <1>0, <1>3, <1>4 DEF PopQueue
    <2>3. QED
      BY <1>1, <2>1, <2>2
  <1>5. ASSUME NEW s \in Sources, LockDecoder(s) PROVE HolderInv'
    BY <1>0, <1>1, <1>5 DEF LockDecoder
  <1>6. ASSUME NEW s \in Sources, PopLocked(s) PROVE HolderInv'
    <2>1. UNCHANGED helperVars /\ decoder[s] = s
      BY <1>6 DEF PopLocked, HolderInv
    <2>2. CASE blocks[s] # <<>>
      <3>1. Got(s, Head(blocks[s])) /\ decoder' = [decoder EXCEPT ![s] = Nobody]
        BY <1>6, <2>2 DEF PopLocked
      <3>2. (\A r \in Sources : r # s => rpc'[r] = rpc[r]) /\ rpc'[s] \in {"queue", "ended"}
        BY <1>3, <3>1
      <3>3. QED
        BY <1>0, <1>1, <2>1, <3>1, <3>2
    <2>3. CASE blocks[s] = <<>>
      BY <1>0, <1>1, <1>6, <2>1, <2>3 DEF PopLocked
    <2>4. QED
      BY <2>2, <2>3
  <1>7. ASSUME NEW s \in Sources, DecodeNow(s) PROVE HolderInv'
    <2>1. UNCHANGED helperVars /\ decoder[s] = s /\ decoder' = [decoder EXCEPT ![s] = Nobody]
      BY <1>7 DEF DecodeNow, HolderInv
    <2>2. (\A r \in Sources : r # s => rpc'[r] = rpc[r]) /\ rpc'[s] \in {"queue", "ended"}
      BY <1>0, <1>3, <1>7 DEF DecodeNow
    <2>3. QED
      BY <1>0, <1>1, <2>1, <2>2
  <1>8. ASSUME NEW s \in Sources, DropReader(s) PROVE HolderInv'
    BY <1>0, <1>1, <1>8 DEF DropReader
  <1>9. ASSUME NEW h \in Helpers, UNCHANGED rpc,
               \A g \in Helpers : g # h => hpc'[g] = hpc[g] /\ at'[g] = at[g],
               hpc'[h] \in {"try", "decode", "push"} => at'[h] \in Sources,
               hpc'[h] \in {"decode", "push"} => decoder'[at'[h]] = h,
               \A r \in Sources : decoder[r] \notin {h, Nobody} => decoder'[r] = decoder[r]
        PROVE  HolderInv'
    BY <1>0, <1>9 DEF HolderInv
  <1>10. ASSUME NEW h \in Helpers, CallHelp(h) PROVE HolderInv'
    BY <1>0, <1>9, <1>10 DEF CallHelp
  <1>11. ASSUME NEW h \in Helpers, NEW left, TryNext(h, left)
         PROVE  /\ \A g \in Helpers : g # h => hpc'[g] = hpc[g] /\ at'[g] = at[g]
                /\ hpc'[h] \in {"idle", "room"}
    BY <1>0, <1>11 DEF TryNext
  <1>12. ASSUME NEW h \in Helpers, CheckRoom(h) PROVE HolderInv'
    <2>1. UNCHANGED <<decoder, rpc>>
      BY <1>12 DEF CheckRoom
    <2>2. PICK s \in todo[h] :
            \/ at' = [at EXCEPT ![h] = s] /\ hpc' = [hpc EXCEPT ![h] = "try"]
            \/ TryNext(h, todo[h] \ {s})
      BY <1>12 DEF CheckRoom
    <2>3. CASE at' = [at EXCEPT ![h] = s] /\ hpc' = [hpc EXCEPT ![h] = "try"]
      BY <1>0, <1>9, <2>1, <2>3
    <2>4. CASE TryNext(h, todo[h] \ {s})
      <3>1. /\ \A g \in Helpers : g # h => hpc'[g] = hpc[g] /\ at'[g] = at[g]
            /\ hpc'[h] \in {"idle", "room"}
        BY <1>11, <2>4
      <3>2. QED
        BY <1>9, <2>1, <3>1
    <2>5. QED
      BY <2>2, <2>3, <2>4
  <1>13. ASSUME NEW h \in Helpers, TryDecoder(h) PROVE HolderInv'
    <2>1. at[h] \in Sources /\ UNCHANGED rpc
      BY <1>13 DEF TryDecoder, HolderInv
    <2>2. CASE decoder[at[h]] = Nobody
      <3>1. /\ decoder' = [decoder EXCEPT ![at[h]] = h] /\ at' = at
            /\ hpc' = [hpc EXCEPT ![h] = "decode"]
        BY <1>13, <2>2 DEF TryDecoder
      <3>2. QED
        BY <1>0, <1>9, <2>1, <2>2, <3>1
    <2>3. CASE decoder[at[h]] # Nobody
      <3>1. TryNext(h, todo[h]) /\ UNCHANGED decoder
        BY <1>13, <2>3 DEF TryDecoder
      <3>2. QED
        BY <1>9, <1>11, <2>1, <3>1
    <2>4. QED
      BY <2>2, <2>3
  <1>14. ASSUME NEW h \in Helpers, Decode(h) PROVE HolderInv'
    <2>1. at[h] \in Sources /\ decoder[at[h]] = h /\ UNCHANGED rpc
      BY <1>14 DEF Decode, HolderInv
    <2>2. CASE BlockGiven(at[h]) # 0
      <3>1. at' = at /\ decoder' = decoder /\ hpc' = [hpc EXCEPT ![h] = "push"]
        BY <1>14, <2>2 DEF Decode
      <3>2. QED
        BY <1>0, <1>9, <2>1, <3>1
    <2>3. CASE BlockGiven(at[h]) = 0
      <3>1. TryNext(h, todo[h]) /\ decoder' = [decoder EXCEPT ![at[h]] = Nobody]
        BY <1>14, <2>3 DEF Decode
      <3>2. /\ \A g \in Helpers : g # h => hpc'[g] = hpc[g] /\ at'[g] = at[g]
            /\ hpc'[h] \in {"idle", "room"}
        BY <1>11, <3>1
      <3>3. QED
        BY <1>0, <1>9, <2>1, <3>1, <3>2
    <2>4. QED
      BY <2>2, <2>3
  <1>15. ASSUME NEW h \in Helpers, Push(h) PROVE HolderInv'
    <2>1. at[h] \in Sources /\ decoder[at[h]] = h /\ UNCHANGED rpc
      BY <1>15 DEF Push, HolderInv
    <2>2. /\ decoder' = [decoder EXCEPT ![at[h]] = Nobody]
          /\ hpc' = [hpc EXCEPT ![h] = "idle"] /\ at' = [at EXCEPT ![h] = Nobody]
      BY <1>15 DEF Push
    <2>3. QED
      BY <1>0, <1>9, <2>1, <2>2
  <1>16. CASE UNCHANGED vars
    BY <1>16 DEF vars, HolderInv
  <1>17. QED
    BY <1>2, <1>4, <1>5, <1>6, <1>7, <1>8, <1>10, <1>12, <1>13, <1>14, <1>15, <1>16
    DEF Next, Reader, Helper

-----------------------------------------------------------------------------
\* The blocks.

\* What no step of another source touches.
LEMMA BlocksFrame ==
  ASSUME NEW s \in Sources, BlocksOf(s), content' = content,
         got'[s] = got[s], blocks'[s] = blocks[s], decoded'[s] = decoded[s],
         rpc'[s] = rpc[s] \/ rpc'[s] \notin {"decode", "ended"},
         \A h \in Helpers : (hpc'[h] = "push" /\ at'[h] = s) <=> (hpc[h] = "push" /\ at[h] = s),
         \A h \in Helpers : hpc[h] = "push" /\ at[h] = s => hand'[h] = hand[h]
  PROVE  BlocksOf(s)'
  <1>1. Blocks(s)' = Blocks(s) /\ Given(s)' = Given(s)
    BY BlocksStay DEF Given
  <1>2. QED
    BY <1>1 DEF BlocksOf

\* One thread at most holds a block of a source that is not in its queue yet.
LEMMA OnePusher ==
  ASSUME TypeOK, HolderInv, NEW s \in Sources, NEW h \in Helpers, decoder[s] = h
  PROVE  /\ \A g \in Helpers : hpc[g] = "push" /\ at[g] = s => g = h
         /\ rpc[s] # "decode"
  BY DecodeAssumption DEF HolderInv

LEMMA NoPusher ==
  ASSUME TypeOK, HolderInv, NEW s \in Sources, decoder[s] = s
  PROVE  \A g \in Helpers : ~(hpc[g] = "push" /\ at[g] = s)
  BY DecodeAssumption DEF HolderInv

\* A number got is the next one: all before it are there, and an error is the last.
LEMMA GotNext ==
  ASSUME TypeOK, NEW s \in Sources, \A n \in DOMAIN got[s] : got[s][n] = n,
         NEW b, b = Len(got[s]) + 1, b <= Blocks(s), Got(s, b), content' = content
  PROVE  /\ Len(got'[s]) = b /\ \A n \in DOMAIN got'[s] : got'[s][n] = n
         /\ rpc'[s] # "decode"
         /\ rpc'[s] = "ended" => Len(got'[s]) = Blocks(s)'
         /\ \A x \in Sources : x # s => got'[x] = got[x] /\ rpc'[x] = rpc[x]
  <1>1. got \in [Sources -> Seq(Nat)] /\ DOMAIN rpc = Sources
    BY DEF TypeOK
  <1>2. /\ got'[s] = Append(got[s], b)
        /\ rpc'[s] = IF b = ErrorBlock(s) THEN "ended" ELSE "queue"
        /\ \A x \in Sources : x # s => got'[x] = got[x] /\ rpc'[x] = rpc[x]
    BY <1>1 DEF Got
  <1>3. Len(got'[s]) = b /\ \A n \in DOMAIN got'[s] : got'[s][n] = n
    BY <1>1, <1>2
  <1>4. Blocks(s)' = Blocks(s) /\ Blocks(s) \in Nat /\ Blocks(s) <= ErrorBlock(s)
        /\ ErrorBlock(s) \in Nat
    BY BlocksStay, ContentFacts
  <1>5. rpc'[s] = "ended" => Len(got'[s]) = Blocks(s)'
    BY <1>1, <1>2, <1>3, <1>4
  <1>6. QED
    BY <1>2, <1>3, <1>5

\* The reader takes a block from the queue.
LEMMA PopStep ==
  ASSUME TypeOK, BlocksInv, NEW s \in Sources, blocks[s] # <<>>,
         Got(s, Head(blocks[s])), blocks' = [blocks EXCEPT ![s] = Tail(blocks[s])],
         UNCHANGED <<content, decoded, helperVars>>
  PROVE  BlocksInv'
  <1>1. /\ got[s] \in Seq(Nat) /\ blocks[s] \in Seq(Nat) /\ DOMAIN blocks = Sources
        /\ decoded[s] \in Nat /\ decoded[s] <= Blocks(s)
    BY DEF TypeOK
  <1>2. BlocksOf(s)
    BY DEF BlocksInv
  <1>3. Head(blocks[s]) = Len(got[s]) + 1
    BY <1>1, <1>2 DEF BlocksOf
  <1>4. Given(s) <= decoded[s]
    <2>1. Given(s) \in Nat
      BY <1>1 DEF Given
    <2>2. decoded[s] = Given(s) \/ decoded[s] = Given(s) + 1
      BY <1>2 DEF BlocksOf
    <2>3. QED
      BY <2>1, <2>2
  <1>5. Head(blocks[s]) <= Blocks(s)
    <2>1. Len(blocks[s]) >= 1 /\ Blocks(s) \in Nat
      BY <1>1, ContentFacts
    <2>2. QED
      BY <1>1, <1>3, <1>4, <2>1 DEF Given
  <1>6. /\ Len(got'[s]) = Len(got[s]) + 1 /\ \A n \in DOMAIN got'[s] : got'[s][n] = n
        /\ rpc'[s] # "decode"
        /\ rpc'[s] = "ended" => Len(got'[s]) = Blocks(s)'
        /\ \A x \in Sources : x # s => got'[x] = got[x] /\ rpc'[x] = rpc[x]
    BY <1>2, <1>3, <1>5, GotNext DEF BlocksOf
  <1>7. blocks'[s] = Tail(blocks[s]) /\ \A x \in Sources : x # s => blocks'[x] = blocks[x]
    BY <1>1
  <1>8. \A n \in DOMAIN blocks'[s] : blocks'[s][n] = Len(got'[s]) + n
    <2>1. /\ DOMAIN Tail(blocks[s]) = 1 .. Len(blocks[s]) - 1 /\ Len(blocks[s]) \in Nat
          /\ \A n \in 1 .. Len(blocks[s]) - 1 : Tail(blocks[s])[n] = blocks[s][n + 1]
      BY <1>1
    <2>2. \A n \in 1 .. Len(blocks[s]) : blocks[s][n] = Len(got[s]) + n
      BY <1>1, <1>2 DEF BlocksOf
    <2>3. Len(got[s]) \in Nat
      BY <1>1
    <2>4. SUFFICES ASSUME NEW n \in 1 .. Len(blocks[s]) - 1
                   PROVE  Tail(blocks[s])[n] = Len(got'[s]) + n
      BY <1>7, <2>1
    <2>5. n + 1 \in 1 .. Len(blocks[s])
      BY <2>1
    <2>6. QED
      BY <1>6, <2>1, <2>2, <2>3, <2>5
  <1>9. Given(s)' = Given(s)
    BY <1>1, <1>6, <1>7 DEF Given
  <1>10. BlocksOf(s)'
    BY <1>2, <1>6, <1>8, <1>9 DEF BlocksOf
  <1>11. ASSUME NEW x \in Sources, x # s PROVE BlocksOf(x)'
    BY <1>6, <1>7, <1>11, BlocksFrame DEF BlocksInv
  <1>12. QED
    BY <1>10, <1>11 DEF BlocksInv

\* The reader decodes the next block itself: nobody else holds one, and the queue is empty.
LEMMA DecodeNowStep ==
  ASSUME TypeOK, OrderInv, NEW s \in Sources, DecodeNow(s)
  PROVE  BlocksInv'
  <1>1. /\ rpc[s] = "decode" /\ Block(s) /\ UNCHANGED <<content, blocks, helperVars>>
        /\ \/ BlockGiven(s) # 0 /\ Got(s, BlockGiven(s))
           \/ BlockGiven(s) = 0 /\ rpc' = [rpc EXCEPT ![s] = "ended"] /\ UNCHANGED got
    BY DEF DecodeNow
  <1>2. BlocksOf(s) /\ decoder[s] = s
    BY <1>1 DEF OrderInv, BlocksInv, HolderInv
  <1>3. /\ got \in [Sources -> Seq(Nat)] /\ DOMAIN rpc = Sources
        /\ decoded \in [Sources -> Nat]
    BY DEF TypeOK
  <1>4. \A g \in Helpers : ~(hpc[g] = "push" /\ at[g] = s)
    BY <1>2, NoPusher DEF OrderInv
  <1>5. blocks[s] = <<>> /\ decoded[s] = Len(got[s])
    BY <1>1, <1>2, <1>3, <1>4 DEF BlocksOf, Given
  <1>6. \/ /\ BlockGiven(s) = decoded[s] + 1 /\ BlockGiven(s) # 0 /\ BlockGiven(s) <= Blocks(s)
           /\ decoded' = [decoded EXCEPT ![s] = decoded[s] + 1]
        \/ BlockGiven(s) = 0 /\ decoded' = decoded /\ decoded[s] = Blocks(s)
    BY <1>1, BlockFacts DEF OrderInv
  <1>7. Blocks(s)' = Blocks(s)
    BY <1>1, BlocksStay
  <1>8. /\ BlocksOf(s)'
        /\ \A x \in Sources : x # s =>
               got'[x] = got[x] /\ rpc'[x] = rpc[x] /\ decoded'[x] = decoded[x]
    <2>1. CASE BlockGiven(s) # 0
      <3>1. Got(s, BlockGiven(s)) /\ BlockGiven(s) = Len(got[s]) + 1 /\ BlockGiven(s) <= Blocks(s)
            /\ decoded' = [decoded EXCEPT ![s] = decoded[s] + 1]
        BY <1>1, <1>5, <1>6, <2>1
      <3>2. /\ Len(got'[s]) = Len(got[s]) + 1 /\ \A n \in DOMAIN got'[s] : got'[s][n] = n
            /\ rpc'[s] # "decode"
            /\ rpc'[s] = "ended" => Len(got'[s]) = Blocks(s)'
            /\ \A x \in Sources : x # s => got'[x] = got[x] /\ rpc'[x] = rpc[x]
        BY <1>1, <1>2, <3>1, GotNext DEF BlocksOf
      <3>3. decoded'[s] = Len(got'[s]) + Len(blocks'[s])
        BY <1>1, <1>3, <1>5, <3>1, <3>2
      <3>4. QED
        BY <1>1, <1>3, <1>4, <1>5, <3>1, <3>2, <3>3 DEF BlocksOf, Given
    <2>2. CASE BlockGiven(s) = 0
      <3>1. /\ rpc' = [rpc EXCEPT ![s] = "ended"] /\ got' = got
            /\ decoded' = decoded /\ decoded[s] = Blocks(s)
        BY <1>1, <1>6, <2>2
      <3>2. Len(got'[s]) = Blocks(s)' /\ Given(s)' = decoded'[s]
        BY <1>1, <1>3, <1>5, <1>7, <3>1 DEF Given
      <3>3. QED
        BY <1>1, <1>2, <1>3, <1>4, <3>1, <3>2 DEF BlocksOf
    <2>3. QED
      BY <2>1, <2>2
  <1>9. ASSUME NEW x \in Sources, x # s PROVE BlocksOf(x)'
    BY <1>1, <1>8, <1>9, BlocksFrame DEF OrderInv, BlocksInv
  <1>10. QED
    BY <1>8, <1>9 DEF BlocksInv

\* A helper decodes a block, which it then holds.
LEMMA DecodeStep ==
  ASSUME TypeOK, OrderInv, NEW h \in Helpers, Decode(h)
  PROVE  BlocksInv'
  <1>0. PICK s \in Sources : s = at[h]
    BY DEF Decode, OrderInv, HolderInv
  <1>1. s \in Sources /\ decoder[s] = h /\ hpc[h] = "decode"
    BY <1>0 DEF Decode, OrderInv, HolderInv
  <1>2. Block(s) /\ UNCHANGED <<content, blocks, readerVars>>
    BY <1>0 DEF Decode
  <1>3. /\ hpc \in [Helpers -> {"idle", "room", "try", "decode", "push"}]
        /\ DOMAIN at = Helpers /\ hand \in [Helpers -> Nat] /\ decoded \in [Sources -> Nat]
    BY DEF TypeOK
  <1>4. BlocksOf(s) /\ rpc[s] # "decode" /\ \A g \in Helpers : ~(hpc[g] = "push" /\ at[g] = s)
    BY <1>1, OnePusher DEF OrderInv, BlocksInv
  <1>5. decoded[s] = Given(s)
    BY <1>4 DEF BlocksOf
  <1>6. \/ /\ BlockGiven(s) = decoded[s] + 1 /\ BlockGiven(s) # 0 /\ BlockGiven(s) <= Blocks(s)
           /\ decoded' = [decoded EXCEPT ![s] = decoded[s] + 1]
        \/ BlockGiven(s) = 0 /\ decoded' = decoded /\ decoded[s] = Blocks(s)
    BY <1>1, <1>2, BlockFacts DEF OrderInv
  <1>7. \A x \in Sources : Given(x)' = Given(x) /\ Blocks(x)' = Blocks(x)
    BY <1>2, BlocksStay DEF Given
  <1>8. CASE BlockGiven(s) # 0
    <2>1. /\ hand' = [hand EXCEPT ![h] = BlockGiven(s)] /\ hpc' = [hpc EXCEPT ![h] = "push"]
          /\ at' = at
      BY <1>0, <1>8 DEF Decode
    <2>2. decoded' = [decoded EXCEPT ![s] = decoded[s] + 1] /\ BlockGiven(s) = decoded[s] + 1
      BY <1>6, <1>8
    <2>3. /\ hand'[h] = decoded'[s] /\ decoded'[s] = Given(s)' + 1
          /\ \A g \in Helpers : hpc'[g] = "push" /\ at'[g] = s => g = h
      BY <1>0, <1>1, <1>3, <1>4, <1>5, <1>7, <2>1, <2>2
    <2>4. hpc'[h] = "push" /\ at'[h] = s
      BY <1>0, <1>3, <2>1
    <2>5. BlocksOf(s)'
      BY <1>1, <1>2, <1>4, <1>7, <2>3, <2>4 DEF BlocksOf
    <2>6. ASSUME NEW x \in Sources, x # s PROVE BlocksOf(x)'
      <3>1. /\ decoded'[x] = decoded[x] /\ BlocksOf(x)
            /\ \A g \in Helpers : (hpc'[g] = "push" /\ at'[g] = x) <=> (hpc[g] = "push" /\ at[g] = x)
            /\ \A g \in Helpers : hpc[g] = "push" /\ at[g] = x => hand'[g] = hand[g]
        BY <1>1, <1>3, <2>1, <2>2, <2>4, <2>6 DEF OrderInv, BlocksInv
      <3>2. QED
        BY <1>2, <3>1, BlocksFrame
    <2>7. QED
      BY <2>5, <2>6 DEF BlocksInv
  <1>9. CASE BlockGiven(s) = 0
    <2>1. TryNext(h, todo[h]) /\ hand' = hand /\ decoded' = decoded
      BY <1>0, <1>6, <1>9 DEF Decode
    <2>2. ASSUME NEW x \in Sources PROVE BlocksOf(x)'
      <3>1. \A g \in Helpers : (hpc'[g] = "push" /\ at'[g] = x) <=> (hpc[g] = "push" /\ at[g] = x)
        BY <1>1, <1>3, <2>1 DEF TryNext
      <3>2. BlocksOf(x)
        BY DEF OrderInv, BlocksInv
      <3>3. QED
        BY <1>2, <2>1, <3>1, <3>2, BlocksFrame
    <2>3. QED
      BY <2>2 DEF BlocksInv
  <1>10. QED
    BY <1>8, <1>9

\* It puts the block at the end of the queue, with the decoder still held.
LEMMA PushStep ==
  ASSUME TypeOK, OrderInv, NEW h \in Helpers, Push(h)
  PROVE  BlocksInv'
  <1>0. PICK s \in Sources : s = at[h]
    BY DEF Push, OrderInv, HolderInv
  <1>1. s \in Sources /\ decoder[s] = h /\ hpc[h] = "push"
    BY <1>0 DEF Push, OrderInv, HolderInv
  <1>2. /\ UNCHANGED <<content, decoded, readerVars>>
        /\ blocks' = [blocks EXCEPT ![s] = Append(blocks[s], hand[h])]
        /\ hpc' = [hpc EXCEPT ![h] = "idle"] /\ at' = [at EXCEPT ![h] = Nobody]
        /\ hand' = [hand EXCEPT ![h] = 0]
    BY <1>0 DEF Push
  <1>3. /\ hpc \in [Helpers -> {"idle", "room", "try", "decode", "push"}]
        /\ DOMAIN at = Helpers /\ hand \in [Helpers -> Nat]
        /\ blocks \in [Sources -> Seq(Nat)] /\ got \in [Sources -> Seq(Nat)]
    BY DEF TypeOK
  <1>4. /\ BlocksOf(s) /\ rpc[s] # "decode"
        /\ \A g \in Helpers : hpc[g] = "push" /\ at[g] = s => g = h
    BY <1>1, OnePusher DEF OrderInv, BlocksInv
  <1>5. hand[h] = Given(s) + 1 /\ decoded[s] = Given(s) + 1
    <2>1. hand[h] = decoded[s] /\ decoded[s] = Given(s) + 1
      BY <1>0, <1>1, <1>4 DEF BlocksOf
    <2>2. QED
      BY <2>1
  <1>6. Blocks(s)' = Blocks(s)
    BY <1>1, <1>2, BlocksStay
  <1>7. blocks'[s] = Append(blocks[s], hand[h]) /\ blocks[s] \in Seq(Nat) /\ hand[h] \in Nat
        /\ got[s] \in Seq(Nat)
    BY <1>1, <1>2, <1>3
  <1>8. Given(s)' = Given(s) + 1
    <2>1. PICK b \in Nat : b = Len(blocks[s]) /\ Len(blocks'[s]) = b + 1
      BY <1>7
    <2>2. PICK g \in Nat : g = Len(got[s]) /\ g = Len(got'[s])
      BY <1>2, <1>7
    <2>3. Given(s)' = g + (b + 1) /\ Given(s) = g + b
      BY <2>1, <2>2 DEF Given
    <2>4. QED
      BY <2>3
  <1>9. \A n \in DOMAIN blocks'[s] : blocks'[s][n] = Len(got[s]) + n
    <2>1. PICK b \in Nat : b = Len(blocks[s])
      BY <1>7
    <2>2. PICK g \in Nat : g = Len(got[s])
      BY <1>7
    <2>3. /\ DOMAIN blocks'[s] = 1 .. b + 1 /\ blocks'[s][b + 1] = hand[h]
          /\ \A n \in 1 .. b : blocks'[s][n] = blocks[s][n]
      BY <1>7, <2>1
    <2>4. \A n \in 1 .. b : blocks[s][n] = g + n
      <3>1. \A n \in DOMAIN blocks[s] : blocks[s][n] = Len(got[s]) + n
        BY <1>4 DEF BlocksOf
      <3>2. DOMAIN blocks[s] = 1 .. b
        BY <1>7, <2>1
      <3>3. QED
        BY <2>2, <3>1, <3>2
    <2>5. hand[h] = g + (b + 1)
      <3>1. Given(s) = g + b
        BY <2>1, <2>2 DEF Given
      <3>2. QED
        BY <1>5, <3>1
    <2>6. \A n \in 1 .. b + 1 : n \in 1 .. b \/ n = b + 1
      OBVIOUS
    <2>7. \A n \in 1 .. b + 1 : blocks'[s][n] = g + n
      BY <2>3, <2>4, <2>5, <2>6
    <2>8. QED
      BY <2>2, <2>3, <2>7
  <1>10. \A g \in Helpers : ~(hpc'[g] = "push" /\ at'[g] = s)
    BY <1>2, <1>3, <1>4
  <1>11. BlocksOf(s)'
    BY <1>2, <1>4, <1>5, <1>6, <1>8, <1>9, <1>10 DEF BlocksOf
  <1>12. ASSUME NEW x \in Sources, x # s PROVE BlocksOf(x)'
    <2>1. /\ blocks'[x] = blocks[x] /\ BlocksOf(x)
          /\ \A g \in Helpers : (hpc'[g] = "push" /\ at'[g] = x) <=> (hpc[g] = "push" /\ at[g] = x)
          /\ \A g \in Helpers : hpc[g] = "push" /\ at[g] = x => hand'[g] = hand[g]
      BY <1>0, <1>2, <1>3, <1>12 DEF OrderInv, BlocksInv
    <2>2. QED
      BY <1>2, <2>1, BlocksFrame
  <1>13. QED
    BY <1>11, <1>12 DEF BlocksInv

LEMMA BlocksStep == TypeOK /\ OrderInv /\ [Next]_vars => BlocksInv'
  <1> SUFFICES ASSUME TypeOK, OrderInv, [Next]_vars PROVE BlocksInv'
    OBVIOUS
  <1>0. /\ rpc \in [Sources -> {"unopened", "queue", "lock", "locked", "decode", "ended",
                                "dropped"}]
        /\ hpc \in [Helpers -> {"idle", "room", "try", "decode", "push"}]
        /\ DOMAIN at = Helpers
    BY DEF TypeOK
  <1>1. ASSUME UNCHANGED <<content, decoded, got, blocks, helperVars>>,
               NEW s \in Sources, \A x \in Sources : x # s => rpc'[x] = rpc[x],
               rpc'[s] \notin {"decode", "ended"}
        PROVE  BlocksInv'
    BY <1>1, BlocksFrame DEF OrderInv, BlocksInv
  <1>2. ASSUME NEW s \in Sources, Open(s) PROVE BlocksInv'
    BY <1>0, <1>1, <1>2 DEF Open
  <1>3. ASSUME NEW s \in Sources, PopQueue(s) PROVE BlocksInv'
    <2>1. UNCHANGED <<content, decoded, helperVars>>
      BY <1>3 DEF PopQueue
    <2>2. CASE blocks[s] # <<>>
      <3>1. Got(s, Head(blocks[s])) /\ blocks' = [blocks EXCEPT ![s] = Tail(blocks[s])]
        BY <1>3, <2>2 DEF PopQueue
      <3>2. QED
        BY <2>1, <2>2, <3>1, PopStep DEF OrderInv
    <2>3. CASE blocks[s] = <<>>
      BY <1>0, <1>1, <1>3, <2>1, <2>3 DEF PopQueue
    <2>4. QED
      BY <2>2, <2>3
  <1>4. ASSUME NEW s \in Sources, LockDecoder(s) PROVE BlocksInv'
    BY <1>0, <1>1, <1>4 DEF LockDecoder
  <1>5. ASSUME NEW s \in Sources, PopLocked(s) PROVE BlocksInv'
    <2>1. UNCHANGED <<content, decoded, helperVars>>
      BY <1>5 DEF PopLocked
    <2>2. CASE blocks[s] # <<>>
      <3>1. Got(s, Head(blocks[s])) /\ blocks' = [blocks EXCEPT ![s] = Tail(blocks[s])]
        BY <1>5, <2>2 DEF PopLocked
      <3>2. QED
        BY <2>1, <2>2, <3>1, PopStep DEF OrderInv
    <2>3. CASE blocks[s] = <<>>
      <3>1. rpc' = [rpc EXCEPT ![s] = "decode"] /\ UNCHANGED <<got, blocks>>
        BY <1>5, <2>3 DEF PopLocked
      <3>2. \A x \in Sources : BlocksOf(x) /\ Given(x)' = Given(x) /\ Blocks(x)' = Blocks(x)
        BY <2>1, <3>1, BlocksStay DEF OrderInv, BlocksInv, Given
      <3>3. BlocksOf(s)'
        BY <1>0, <2>1, <2>3, <3>1, <3>2 DEF BlocksOf
      <3>4. ASSUME NEW x \in Sources, x # s PROVE BlocksOf(x)'
        BY <1>0, <2>1, <3>1, <3>2, <3>4, BlocksFrame
      <3>5. QED
        BY <3>3, <3>4 DEF BlocksInv
    <2>4. QED
      BY <2>2, <2>3
  <1>6. ASSUME NEW s \in Sources, DropReader(s) PROVE BlocksInv'
    BY <1>0, <1>1, <1>6 DEF DropReader
  <1>7. ASSUME NEW h \in Helpers, UNCHANGED <<content, decoded, got, rpc, blocks, hand>>,
               \A g \in Helpers : g # h => hpc'[g] = hpc[g] /\ at'[g] = at[g],
               hpc[h] # "push", hpc'[h] # "push"
        PROVE  BlocksInv'
    <2>1. ASSUME NEW x \in Sources, NEW g \in Helpers
          PROVE  (hpc'[g] = "push" /\ at'[g] = x) <=> (hpc[g] = "push" /\ at[g] = x)
      BY <1>7
    <2>2. ASSUME NEW x \in Sources PROVE BlocksOf(x)'
      BY <1>7, <2>1, BlocksFrame DEF OrderInv, BlocksInv
    <2>3. QED
      BY <2>2 DEF BlocksInv
  <1>8. ASSUME NEW h \in Helpers, CallHelp(h) PROVE BlocksInv'
    BY <1>0, <1>7, <1>8 DEF CallHelp
  <1>9. ASSUME NEW h \in Helpers, CheckRoom(h) PROVE BlocksInv'
    <2>1. /\ UNCHANGED <<content, decoded, got, rpc, blocks, hand>> /\ hpc[h] = "room"
          /\ \E c \in {"idle", "room", "try"} : hpc' = [hpc EXCEPT ![h] = c]
          /\ \E c \in Sources \cup {Nobody} : at' = [at EXCEPT ![h] = c]
      BY <1>9 DEF CheckRoom, TryNext, TypeOK
    <2>2. QED
      BY <1>0, <1>7, <2>1
  <1>10. ASSUME NEW h \in Helpers, TryDecoder(h) PROVE BlocksInv'
    <2>1. /\ UNCHANGED <<content, decoded, got, rpc, blocks, hand>> /\ hpc[h] = "try"
          /\ \E c \in {"idle", "room", "decode"} : hpc' = [hpc EXCEPT ![h] = c]
          /\ \A g \in Helpers : g # h => at'[g] = at[g]
      BY <1>10 DEF TryDecoder, TryNext, TypeOK
    <2>2. QED
      BY <1>0, <1>7, <2>1
  <1>11. CASE UNCHANGED vars
    BY <1>11, BlocksFrame DEF vars, OrderInv, BlocksInv
  <1>12. QED
    BY <1>2, <1>3, <1>4, <1>5, <1>6, <1>8, <1>9, <1>10, <1>11, DecodeNowStep, DecodeStep, PushStep
    DEF Next, Reader, Helper

-----------------------------------------------------------------------------
\* The room in the queues.

\* Only a helper that found room comes to add to a queue, and a step adds one block at most.
LEMMA RoomStep == TypeOK /\ HolderInv /\ RoomInv /\ [Next]_vars => RoomInv'
  <1> SUFFICES ASSUME TypeOK, HolderInv, RoomInv, [Next]_vars, NEW s \in Sources
               PROVE  Len(blocks'[s]) + Cardinality(Adding(s)')
                          <= AHEAD_BLOCKS + Cardinality(Helpers) - 1
    BY DEF RoomInv
  <1>0. /\ Len(blocks[s]) + Cardinality(Adding(s)) <= AHEAD_BLOCKS + Cardinality(Helpers) - 1
        /\ blocks \in [Sources -> Seq(Nat)] /\ Len(blocks[s]) \in Nat
        /\ hpc \in [Helpers -> {"idle", "room", "try", "decode", "push"}]
        /\ at \in [Helpers -> Sources \cup {Nobody}]
        /\ \A h \in Helpers : todo[h] \subseteq Sources
    BY DEF RoomInv, TypeOK
  <1>1. /\ Adding(s) \subseteq Helpers /\ Adding(s)' \subseteq Helpers
        /\ IsFiniteSet(Adding(s)) /\ Cardinality(Adding(s)) \in Nat
        /\ IsFiniteSet(Adding(s)') /\ Cardinality(Adding(s)') \in Nat
        /\ Cardinality(Adding(s)') <= Cardinality(Helpers)
        /\ Cardinality(Helpers) \in Nat /\ AHEAD_BLOCKS \in Nat
    <2>1. Adding(s) \subseteq Helpers /\ Adding(s)' \subseteq Helpers /\ IsFiniteSet(Helpers)
      BY DecodeAssumption DEF Adding
    <2>2. QED
      BY <2>1, FS_Subset, FS_CardinalityType, DecodeAssumption
  <1>2. ASSUME Len(blocks'[s]) <= Len(blocks[s]), Len(blocks'[s]) \in Nat,
               Adding(s)' \subseteq Adding(s)
        PROVE  Len(blocks'[s]) + Cardinality(Adding(s)')
                   <= AHEAD_BLOCKS + Cardinality(Helpers) - 1
    <2>1. Cardinality(Adding(s)') <= Cardinality(Adding(s))
      BY <1>1, <1>2, FS_Subset
    <2>2. QED
      BY <1>0, <1>1, <1>2, <2>1
  <1>3. ASSUME UNCHANGED <<hpc, at>> PROVE Adding(s)' = Adding(s)
    BY <1>3 DEF Adding
  <1>4. ASSUME NEW r \in Sources, Open(r) \/ LockDecoder(r) \/ DecodeNow(r) \/ DropReader(r)
        PROVE  Len(blocks'[s]) + Cardinality(Adding(s)')
                   <= AHEAD_BLOCKS + Cardinality(Helpers) - 1
    <2>1. UNCHANGED <<blocks, hpc, at>>
      BY <1>4 DEF Open, LockDecoder, DecodeNow, DropReader
    <2>2. QED
      BY <1>0, <1>2, <1>3, <2>1
  <1>5. ASSUME NEW r \in Sources, PopQueue(r) \/ PopLocked(r)
        PROVE  Len(blocks'[s]) + Cardinality(Adding(s)')
                   <= AHEAD_BLOCKS + Cardinality(Helpers) - 1
    <2>1. /\ UNCHANGED <<hpc, at>>
          /\ \/ blocks' = blocks
             \/ blocks[r] # <<>> /\ blocks' = [blocks EXCEPT ![r] = Tail(blocks[r])]
      BY <1>5 DEF PopQueue, PopLocked
    <2>2. Len(blocks'[s]) <= Len(blocks[s]) /\ Len(blocks'[s]) \in Nat
      BY <1>0, <2>1
    <2>3. QED
      BY <1>2, <1>3, <2>1, <2>2
  <1>6. ASSUME NEW h \in Helpers, CallHelp(h) \/ TryDecoder(h) \/ Decode(h)
        PROVE  Len(blocks'[s]) + Cardinality(Adding(s)')
                   <= AHEAD_BLOCKS + Cardinality(Helpers) - 1
    <2>1. blocks' = blocks
      BY <1>6 DEF CallHelp, TryDecoder, Decode
    <2>2. ASSUME NEW g \in Helpers, g \in Adding(s)' PROVE g \in Adding(s)
      BY <1>0, <1>6, <2>2 DEF CallHelp, TryDecoder, Decode, TryNext, Adding
    <2>3. QED
      BY <1>0, <1>1, <1>2, <2>1, <2>2
  <1>7. ASSUME NEW h \in Helpers, CheckRoom(h)
        PROVE  Len(blocks'[s]) + Cardinality(Adding(s)')
                   <= AHEAD_BLOCKS + Cardinality(Helpers) - 1
    <2>1. PICK r \in todo[h] :
             \/ HasRoom(r) /\ at' = [at EXCEPT ![h] = r] /\ hpc' = [hpc EXCEPT ![h] = "try"]
             \/ TryNext(h, todo[h] \ {r})
      BY <1>7 DEF CheckRoom
    <2>2. blocks' = blocks
      BY <1>7 DEF CheckRoom
    <2>3. CASE HasRoom(r) /\ r = s
      BY <1>0, <1>1, <2>2, <2>3 DEF HasRoom
    <2>4. CASE ~(HasRoom(r) /\ r = s)
      <3>1. ASSUME NEW g \in Helpers, g \in Adding(s)' PROVE g \in Adding(s)
        BY <1>0, <2>1, <2>4, <3>1 DEF TryNext, Adding
      <3>2. QED
        BY <1>0, <1>1, <1>2, <2>2, <3>1
    <2>5. QED
      BY <2>3, <2>4
  <1>8. ASSUME NEW h \in Helpers, Push(h)
        PROVE  Len(blocks'[s]) + Cardinality(Adding(s)')
                   <= AHEAD_BLOCKS + Cardinality(Helpers) - 1
    <2>1. /\ blocks' = [blocks EXCEPT ![at[h]] = Append(blocks[at[h]], hand[h])]
          /\ hpc' = [hpc EXCEPT ![h] = "idle"] /\ at' = [at EXCEPT ![h] = Nobody]
          /\ hpc[h] = "push"
      BY <1>8 DEF Push
    <2>2. Adding(s)' = Adding(s) \ {h}
      BY <1>0, <2>1 DEF Adding
    <2>3. CASE at[h] = s
      <3>1. Len(blocks'[s]) = Len(blocks[s]) + 1
        BY <1>0, <2>1, <2>3
      <3>2. Cardinality(Adding(s)') = Cardinality(Adding(s)) - 1
        <4>1. h \in Adding(s)
          BY <2>1, <2>3 DEF Adding
        <4>2. QED
          BY <1>1, <2>2, <4>1, FS_RemoveElement
      <3>3. QED
        BY <1>0, <1>1, <3>1, <3>2
    <2>4. CASE at[h] # s
      BY <1>0, <1>2, <2>1, <2>2, <2>4
    <2>5. QED
      BY <2>3, <2>4
  <1>9. CASE UNCHANGED vars
    BY <1>0, <1>2, <1>3, <1>9 DEF vars
  <1>10. QED
    BY <1>4, <1>5, <1>6, <1>7, <1>8, <1>9 DEF Next, Reader, Helper

-----------------------------------------------------------------------------

LEMMA Invariance == Spec => [](TypeOK /\ OrderInv /\ RoomInv)
  <1>1. Init => TypeOK /\ OrderInv /\ RoomInv
    <2> SUFFICES ASSUME Init, NEW s \in Sources
                 PROVE  Len(blocks[s]) + Cardinality(Adding(s))
                            <= AHEAD_BLOCKS + Cardinality(Helpers) - 1
      BY OrderInit DEF RoomInv
    <2>1. Adding(s) = {} /\ blocks[s] = <<>>
      BY DEF Init, Adding
    <2>2. Cardinality(Helpers) \in Nat /\ Cardinality(Helpers) # 0
      BY DecodeAssumption, FS_EmptySet, FS_CardinalityType
    <2>3. QED
      BY <2>1, <2>2, FS_EmptySet, DecodeAssumption
  <1>2. TypeOK /\ OrderInv /\ RoomInv /\ [Next]_vars => (TypeOK /\ OrderInv /\ RoomInv)'
    BY TypeStep, HolderStep, BlocksStep, RoomStep DEF OrderInv
  <1>3. QED
    BY <1>1, <1>2, PTL DEF Spec

(***************************************************************************)
(* The types: in particular a decoder never gives more than its source's   *)
(* blocks and the error, however its calls are shared out among threads    *)
(* (AheadDecoder::block, decode.rs).                                       *)
(***************************************************************************)
THEOREM TypeCorrect == Spec => []TypeOK
  BY Invariance, PTL

(***************************************************************************)
(* A reader gets the blocks of its source in order, each once and without  *)
(* a gap, and the end only after all of them, for any number of sources    *)
(* and helpers and whatever the sources hold (AheadShared::next_block and  *)
(* decode_ahead, decode.rs).                                               *)
(***************************************************************************)
THEOREM OrderCorrect == Spec => []BlocksInOrder
  <1>1. OrderInv => BlocksInOrder
    BY DEF OrderInv, BlocksInv, BlocksOf, BlocksInOrder
  <1>2. QED
    BY <1>1, Invariance, PTL

(***************************************************************************)
(* A queue holds AHEAD_BLOCKS blocks and one more for each other helper    *)
(* that looked for room before the decoder was free, never more: what      *)
(* decode_ahead's look at `blocks` outside of the decoder's lock costs.    *)
(***************************************************************************)
THEOREM QueuesBounded == Spec => []QueueBound
  <1>1. TypeOK /\ RoomInv => QueueBound
    <2> SUFFICES ASSUME TypeOK, RoomInv, NEW s \in Sources
                 PROVE  Len(blocks[s]) <= AHEAD_BLOCKS + Cardinality(Helpers) - 1
      BY DEF QueueBound
    <2>1. Adding(s) \subseteq Helpers /\ IsFiniteSet(Helpers)
      BY DecodeAssumption DEF Adding
    <2>2. Cardinality(Adding(s)) \in Nat /\ Cardinality(Helpers) \in Nat
      BY <2>1, FS_Subset, FS_CardinalityType
    <2>3. Len(blocks[s]) \in Nat
      BY DEF TypeOK
    <2>4. Len(blocks[s]) + Cardinality(Adding(s)) <= AHEAD_BLOCKS + Cardinality(Helpers) - 1
      BY DEF RoomInv
    <2>5. QED
      BY <2>2, <2>3, <2>4, DecodeAssumption
  <1>2. QED
    BY <1>1, Invariance, PTL

=============================================================================
