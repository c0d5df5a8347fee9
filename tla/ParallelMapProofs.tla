------------------------- MODULE ParallelMapProofs -------------------------
(***************************************************************************)
(* Theorems about modules Input and ParallelMap, for any number of         *)
(* workers, tickets, streams and items.                                    *)
(*                                                                         *)
(* The first part is about Input alone, whoever takes its items: it cites  *)
(* no definition of ParallelMap and not MapAssumption.  The types, and     *)
(* that the numbers given to items are each given once, in the order of a  *)
(* stream, and never after the end; then about the end of an input: how    *)
(* many streams are open at once, that what comes last comes after         *)
(* everything, and that nothing is left behind when the workers give up.   *)
(*                                                                         *)
(* The second part is about the map on top of it: the bound on the items   *)
(* in flight, and that the map keeps the contract of MapContract.          *)
(***************************************************************************)
EXTENDS ParallelMap, FiniteSetTheorems, SequenceTheorems, TLAPS

-----------------------------------------------------------------------------
\* The shared input.

USE DEF listVars, streamVars, numberVars, localVars, handVars

(***************************************************************************)
(* What is proved of a step of take() holds wherever the other workers     *)
(* are: what runs them (Call and Use in Input, in ParallelMap a map) has   *)
(* points of its own.                                                      *)
(***************************************************************************)
Points == TakePcs \cup {"new", "idle", "wait", "got", "none", "notify", "exit"}

InputTyped == InputTypeOK /\ pc \in [Workers -> Points]

LEMMA InputTypeInit == InputInit => InputTypeOK
  <1> SUFFICES ASSUME InputInit PROVE InputTypeOK
    OBVIOUS
  <1> USE DEF InputInit
  <1>1. inp \in InputType
    BY InputAssumption
  <1>2. Total \in Nat
    BY <1>1 DEF Total, InputType
  <1>3. started \in 0 .. Total /\ open \subseteq 1 .. started
    BY <1>2
  <1>4. taken \in Seq(ItemType) /\ Len(taken) = 0
    OBVIOUS
  <1>5. snap \in [Workers -> SUBSET (1 .. started)] /\ cur \in [Workers -> 0 .. started]
    BY <1>3
  <1>6. seq \in [Workers -> 0 .. Len(taken)] /\ item \in [Workers -> ItemType]
    BY <1>4 DEF ItemType
  <1>7. /\ state \in [Streams -> Workers \cup {NoWorker}]
        /\ done \in [Streams -> BOOLEAN]
        /\ pos \in [Streams -> Nat]
    OBVIOUS
  <1>8. QED
    BY <1>2, <1>3, <1>4, <1>5, <1>6, <1>7 DEF InputTypeOK

LEMMA TypeInit == Init => TypeOK
  BY InputTypeInit DEF Init, TypeOK

\* The types of what giving an item a number changes.
NumberedTypes ==
    /\ taken \in Seq(ItemType)
    /\ stopped \in BOOLEAN /\ exhausted \in BOOLEAN
    /\ item \in [Workers -> ItemType]
    /\ seq \in [Workers -> 0 .. Len(taken)]
    /\ seen \in [Workers -> BOOLEAN]
    /\ snap \in [Workers -> SUBSET (1 .. started)]
    /\ cur \in [Workers -> 0 .. started]
    /\ pc \in [Workers -> Points]

(***************************************************************************)
(* What giving an item a number does to the types.                         *)
(***************************************************************************)
LEMMA NumberedType ==
  ASSUME InputTyped, inp' = inp, started' = started,
         NEW w \in Workers, NEW i \in ItemType, NEW ends \in BOOLEAN,
         Numbered(w, i, ends)
  PROVE  NumberedTypes'
  <1> USE DEF InputTyped, InputTypeOK, Numbered, NumberedTypes
  <1>1. ItemType' = ItemType
    BY DEF ItemType, LastItem, StreamItems
  <1>2. taken' \in Seq(ItemType) /\ Len(taken') = Len(taken) + 1 /\ Len(taken) \in Nat
    OBVIOUS
  <1>3. seq' \in [Workers -> 0 .. Len(taken')]
    BY <1>2
  <1>4. stopped' \in BOOLEAN /\ exhausted' \in BOOLEAN
    OBVIOUS
  <1>5. snap' \in [Workers -> SUBSET (1 .. started)]
    BY DEF ForgetLocals
  <1>6. seen' \in [Workers -> BOOLEAN] /\ cur' \in [Workers -> 0 .. started]
    BY DEF ForgetLocals, Total
  <1>7. pc' \in [Workers -> Points]
    BY DEF Goto, Points
  <1>8. item' \in [Workers -> ItemType]
    OBVIOUS
  <1>9. QED
    BY <1>1, <1>2, <1>3, <1>4, <1>5, <1>6, <1>7, <1>8

LEMMA HelperType ==
  ASSUME InputTyped, NEW w \in Workers, NEW again \in TakePcs, NEW nothing \in TakePcs,
         CallHelper(w, again, nothing)
  PROVE  InputTyped'
  <1> USE DEF InputTyped, InputTypeOK, CallHelper
  <1>1. CASE HelperFails(w) /\ ~stopped /\ UNCHANGED help
    <2>1. HelperPanic \in ItemType
      BY DEF ItemType
    <2>2. NumberedTypes'
      BY <1>1, <2>1, NumberedType DEF HelperFails
    <2>3. QED
      BY <1>1, <2>2 DEF NumberedTypes, Streams, Total
  <1>2. CASE HelperFails(w) /\ stopped /\ UNCHANGED help
    BY <1>2 DEF HelperFails, Goto, Points, ItemType, Streams, Total, LastItem, StreamItems
  <1>3. CASE ~(HelperFails(w) /\ UNCHANGED help)
    <2>1. UNCHANGED <<inp, listVars, open, streamVars, numberVars, localVars, handVars>>
      BY <1>3
    <2>2. help' \in 0 .. MaxHelp
      BY <1>3, InputAssumption
    <2>3. pc' \in [Workers -> Points]
      BY <1>3 DEF Goto, Points
    <2>4. QED
      BY <2>1, <2>2, <2>3 DEF ItemType, Streams, Total, LastItem, StreamItems
  <1>4. QED
    BY <1>1, <1>2, <1>3

(***************************************************************************)
(* A worker's clone of the open streams holds streams of the input.        *)
(***************************************************************************)
LEMMA SnapStreams ==
  ASSUME InputTyped, NEW w \in Workers, NEW s \in snap[w]
  PROVE  s \in 1 .. started /\ s \in Streams
  <1>1. Total \in Nat /\ Streams = 1 .. Total
    <2>1. inp \in InputType
      BY InputAssumption DEF InputTyped, InputTypeOK
    <2>2. QED
      BY <2>1 DEF InputType, Total, Streams
  <1>2. s \in 1 .. started /\ started \in 0 .. Total
    BY DEF InputTyped, InputTypeOK
  <1>3. QED
    BY <1>1, <1>2

LEMMA TakeTyped ==
  ASSUME InputTyped, NEW w \in Workers, Take(w)
  PROVE  InputTyped'
  <1> USE DEF InputTyped, InputTypeOK, ItemType, Streams, Total, TakePcs, Points, Goto,
              LastItem, StreamItems
  <1>1. CASE Help(w)
    BY <1>1, HelperType DEF Help
  <1>2. CASE CheckStopped(w)
    BY <1>2 DEF CheckStopped, ForgetLocals
  <1>3. CASE ReadExhausted(w)
    BY <1>3 DEF ReadExhausted
  <1>4. CASE CloneOpen(w)
    BY <1>4 DEF CloneOpen
  <1>5. CASE TryLock(w)
    <2> PICK s \in Untried(w) : TryLock(w)!2!(s)
      BY <1>5 DEF TryLock
    <2>1. s \in 1 .. started
      BY DEF Untried
    <2>2. cur' \in [Workers -> 0 .. started]
      BY <2>1
    <2>3. state' \in [Streams -> Workers \cup {NoWorker}]
      OBVIOUS
    <2>4. pc' \in [Workers -> Points]
      OBVIOUS
    <2>5. QED
      BY <1>5, <2>2, <2>3, <2>4 DEF TryLock
  <1>6. CASE AllHeld(w)
    BY <1>6 DEF AllHeld
  <1>7. CASE HelpAgain(w)
    BY <1>7, HelperType DEF HelpAgain
  <1>8. CASE BlockOnHead(w)
    <2> PICK s \in snap[w] : BlockOnHead(w)!2!(s)
      BY <1>8 DEF BlockOnHead
    <2>1. s \in 1 .. started
      OBVIOUS
    <2>2. cur' \in [Workers -> 0 .. started]
      BY <2>1
    <2>3. state' \in [Streams -> Workers \cup {NoWorker}]
      OBVIOUS
    <2>4. pc' \in [Workers -> Points]
      BY <1>8 DEF BlockOnHead
    <2>5. QED
      BY <1>8, <2>2, <2>3, <2>4 DEF BlockOnHead
  <1>9. CASE PullDone(w)
    BY <1>9 DEF PullDone
  <1>10. CASE PullItem(w)
    <2>1. done' \in [Streams -> BOOLEAN]
      BY <1>10 DEF PullItem
    <2>2. item' \in [Workers -> ItemType]
      BY <1>10 DEF PullItem
    <2>3. pos' \in [Streams -> Nat]
      <3>1. cur[w] \in Streams
        BY <1>10 DEF PullItem, StreamItemsOf
      <3>2. pos[cur[w]] + 1 \in Nat
        BY <3>1
      <3>3. QED
        BY <1>10, <3>2 DEF PullItem
    <2>4. QED
      BY <1>10, <2>1, <2>2, <2>3 DEF PullItem
  <1>11. CASE PullEnd(w)
    BY <1>11 DEF PullEnd
  <1>12. CASE NumberItem(w)
    <2>1. CASE stopped
      BY <1>12, <2>1 DEF NumberItem
    <2>2. CASE ~stopped
      <3>1. Numbered(w, item[w], Ends(item[w])) /\ inp' = inp /\ started' = started
        BY <1>12, <2>2 DEF NumberItem
      <3>2. done' \in [Streams -> BOOLEAN]
        BY <1>12, <2>2 DEF NumberItem
      <3>3. Ends(item[w]) \in BOOLEAN /\ item[w] \in ItemType
        BY DEF Ends, EndsIn
      <3>4. state' \in [Streams -> Workers \cup {NoWorker}]
        BY <1>12 DEF NumberItem
      <3> HIDE DEF ItemType, Streams, Total, TakePcs, Goto, LastItem, StreamItems
      <3>5. NumberedTypes'
        BY <3>1, <3>3, NumberedType
      <3>6. QED
        BY <1>12, <3>2, <3>4, <3>5 DEF NumberItem, NumberedTypes, Streams, Total
    <2>3. QED
      BY <2>1, <2>2
  <1>13. CASE StreamEnded(w)
    BY <1>13 DEF StreamEnded
  <1>14. CASE OpenNotNeeded(w)
    BY <1>14 DEF OpenNotNeeded
  <1>15. CASE OpenStream(w)
    <2>1. /\ started < Total /\ started' = started + 1 /\ open' = open \cup {started + 1}
          /\ pc' = [pc EXCEPT ![w] = "stopped"]
          /\ UNCHANGED <<inp, list, ended, finished, streamVars, numberVars, help,
                        localVars, handVars>>
      BY <1>15 DEF OpenStream
    <2>2. started' \in 0 .. Total /\ 1 .. started \subseteq 1 .. started'
      BY <2>1
    <2>3. open' \subseteq 1 .. started'
      BY <2>1, <2>2
    <2>4. snap' \in [Workers -> SUBSET (1 .. started')] /\ cur' \in [Workers -> 0 .. started']
      BY <2>1, <2>2
    <2>5. pc' \in [Workers -> Points]
      BY <2>1
    <2>6. QED
      BY <2>1, <2>2, <2>3, <2>4, <2>5
  <1>16. CASE NoStreamLeft(w)
    BY <1>16 DEF NoStreamLeft
  <1>17. CASE ListPanics(w)
    BY <1>17 DEF ListPanics
  <1>18. CASE Finish(w)
    BY <1>18 DEF Finish
  <1>19. CASE NumberLast(w)
    <2>1. CASE stopped
      BY <1>19, <2>1 DEF NumberLast
    <2>2. CASE ~stopped
      <3>1. Numbered(w, item[w], Ends(item[w])) /\ inp' = inp /\ started' = started
        BY <1>19, <2>2 DEF NumberLast
      <3>2. Ends(item[w]) \in BOOLEAN /\ item[w] \in ItemType
        BY DEF Ends, EndsIn
      <3> HIDE DEF ItemType, Streams, Total, TakePcs, Goto, LastItem, StreamItems
      <3>3. NumberedTypes'
        BY <3>1, <3>2, NumberedType
      <3>4. QED
        BY <1>19, <3>3 DEF NumberLast, NumberedTypes, Streams, Total
    <2>3. QED
      BY <2>1, <2>2
  <1>20. QED
    BY <1>1, <1>2, <1>3, <1>4, <1>5, <1>6, <1>7, <1>8, <1>9, <1>10, <1>11,
       <1>12, <1>13, <1>14, <1>15, <1>16, <1>17, <1>18, <1>19
    DEF Take

\* A step of take() moves its own worker, between the points of take() or out of it.
LEMMA TakePc ==
  ASSUME NEW w \in Workers, Take(w), DOMAIN pc = Workers
  PROVE  /\ pc[w] \in TakePcs /\ pc'[w] \in TakePcs \cup {"got", "none"}
         /\ DOMAIN pc' = Workers
         /\ \A v \in Workers : v # w => pc'[v] = pc[v]
  <1> USE DEF Goto, TakePcs
  <1>1. CASE Help(w) \/ HelpAgain(w)
    BY <1>1 DEF Help, HelpAgain, CallHelper, HelperFails, Numbered
  <1>2. CASE CheckStopped(w) \/ ReadExhausted(w) \/ CloneOpen(w) \/ AllHeld(w)
    BY <1>2 DEF CheckStopped, ReadExhausted, CloneOpen, AllHeld
  <1>3. CASE TryLock(w) \/ BlockOnHead(w)
    BY <1>3 DEF TryLock, BlockOnHead
  <1>4. CASE PullDone(w) \/ PullItem(w) \/ PullEnd(w) \/ NumberItem(w) \/ StreamEnded(w)
    BY <1>4 DEF PullDone, PullItem, PullEnd, NumberItem, Numbered, StreamEnded
  <1>5. CASE OpenNotNeeded(w) \/ OpenStream(w) \/ NoStreamLeft(w) \/ ListPanics(w)
    BY <1>5 DEF OpenNotNeeded, OpenStream, NoStreamLeft, ListPanics
  <1>6. CASE Finish(w) \/ NumberLast(w)
    BY <1>6 DEF Finish, NumberLast, Numbered
  <1>7. QED
    BY <1>1, <1>2, <1>3, <1>4, <1>5, <1>6 DEF Take

LEMMA TypeStep == TypeOK /\ [Next]_inputVars => TypeOK'
  <1> SUFFICES ASSUME TypeOK, [Next]_inputVars PROVE TypeOK'
    OBVIOUS
  <1>1. ASSUME NEW w \in Workers, Take(w) PROVE TypeOK'
    <2>1. InputTyped
      BY DEF TypeOK, InputTyped, Points
    <2>2. InputTypeOK' /\ pc' \in [Workers -> Points]
      BY <1>1, <2>1, TakeTyped DEF InputTyped
    <2>3. /\ pc'[w] \in TakePcs \cup {"got", "none"}
          /\ \A v \in Workers : v # w => pc'[v] = pc[v]
      BY <1>1, TakePc DEF TypeOK
    <2>4. \A v \in Workers : pc'[v] \in TakePcs \cup {"idle", "got", "none"}
      BY <2>3 DEF TypeOK
    <2>5. QED
      BY <2>2, <2>4 DEF TypeOK
  <1> USE DEF TypeOK, InputTypeOK, ItemType, Streams, Total, TakePcs, Goto, LastItem, StreamItems
  <1>2. ASSUME NEW w \in Workers, Call(w) PROVE TypeOK'
    BY <1>2 DEF Call
  <1>3. ASSUME NEW w \in Workers, Use(w) PROVE TypeOK'
    BY <1>3 DEF Use
  <1>4. CASE UNCHANGED inputVars
    BY <1>4 DEF inputVars
  <1>5. QED
    BY <1>1, <1>2, <1>3, <1>4 DEF Next, Finished

(***************************************************************************)
(* The shared input keeps its types whatever the workers do: in particular *)
(* no stream beyond the list is ever opened, cloned or locked.             *)
(***************************************************************************)
THEOREM InputTypeCorrect == Spec => []TypeOK
  BY TypeInit, TypeStep, PTL DEF Spec

-----------------------------------------------------------------------------
(***************************************************************************)
(* The inductive invariant behind the numbers: who holds which lock, what  *)
(* is in a worker's hands, and how the numbered items relate to both.      *)
(***************************************************************************)
HoldInv ==
    \A w \in Workers :
        /\ pc[w] \in {"pull", "number"} => cur[w] \in Streams /\ state[cur[w]] = w
        /\ pc[w] \in {"finish", "number_last"} => list = w

HandInv ==
    \A w \in Workers :
        /\ pc[w] = "number" => item[w] \in StreamItems /\ item[w] = <<cur[w], pos[cur[w]]>>
        /\ pc[w] = "number_last" => item[w] = LastItem

StopInv ==
    /\ finished \/ stopped => exhausted
    /\ \A i \in DOMAIN taken : Ends(taken[i]) => stopped
    /\ NothingAfterTheEnd

TakenInv ==
    /\ \A i \in DOMAIN taken : taken[i] \in StreamItems \cup {HelperPanic, LastItem}
    /\ \A i \in DOMAIN taken : taken[i] \in StreamItems => taken[i][2] <= pos[taken[i][1]]
    /\ \A w \in Workers, i \in DOMAIN taken :
           pc[w] = "number" /\ taken[i] \in StreamItems /\ taken[i][1] = cur[w]
               => taken[i][2] < item[w][2]

LastInv ==
    /\ \A i \in DOMAIN taken : taken[i] = LastItem => stopped \/ finished
    /\ \A w \in Workers : pc[w] = "number_last" /\ ~stopped =>
           /\ inp.listEnd = "none" => finished
           /\ \A i \in DOMAIN taken : taken[i] # LastItem

NumberInv == HoldInv /\ HandInv /\ StopInv /\ TakenInv /\ LastInv /\ StreamOrder

(***************************************************************************)
(* Where an item is in the input tells its origin.                         *)
(***************************************************************************)
LEMMA ItemOrigins ==
  ASSUME InputTyped
  PROVE  /\ Total \in Nat
         /\ Streams = 1 .. Total
         /\ \A e \in StreamItems : e[1] \in Streams /\ e[2] \in Nat \ {0} /\ e = <<e[1], e[2]>>
         /\ LastItem = <<Total + 1, 1>>
         /\ HelperPanic = <<0, 1>>
         /\ LastItem \notin StreamItems
         /\ HelperPanic \notin StreamItems \cup {LastItem}
         /\ inp.listEnd \in {"none", "panic"}
  <1>1. inp \in InputType
    BY InputAssumption DEF InputTyped, InputTypeOK
  <1>2. Total \in Nat /\ Streams = 1 .. Total /\ inp.listEnd \in {"none", "panic"}
    BY <1>1 DEF InputType, Total, Streams
  <1>3. \A e \in StreamItems : e[1] \in Streams /\ e[2] \in Nat \ {0} /\ e = <<e[1], e[2]>>
    <2> SUFFICES ASSUME NEW e \in StreamItems
                 PROVE  e[1] \in Streams /\ e[2] \in Nat \ {0} /\ e = <<e[1], e[2]>>
      OBVIOUS
    <2>1. PICK s \in Streams : \E p \in DOMAIN inp.streams[s] : e = <<s, p>>
      BY DEF StreamItems, StreamItemsOf, Streams
    <2>2. PICK p \in DOMAIN inp.streams[s] : e = <<s, p>>
      BY <2>1
    <2>3. inp.streams[s] \in Seq(Kinds)
      BY <1>1, <2>1 DEF InputType, Streams
    <2>4. p \in Nat \ {0}
      BY <2>2, <2>3
    <2>5. QED
      BY <2>1, <2>2, <2>4
  <1>4. LastItem = <<Total + 1, 1>> /\ HelperPanic = <<0, 1>>
    BY DEF LastItem, LastItemOf, Total, HelperPanic
  <1>5. LastItem \notin StreamItems
    BY <1>2, <1>3, <1>4
  <1>6. HelperPanic \notin StreamItems \cup {LastItem}
    BY <1>2, <1>3, <1>4
  <1>7. QED
    BY <1>2, <1>3, <1>4, <1>5, <1>6

(***************************************************************************)
(* So the stream of a numbered item tells what it is.                      *)
(***************************************************************************)
LEMMA TakenOrigins ==
  ASSUME InputTyped, NumberInv
  PROVE  \A k \in DOMAIN taken :
             /\ taken[k][1] \in Streams => taken[k] \in StreamItems
             /\ taken[k][1] = LastItem[1] => taken[k] = LastItem
  <1>1. TAKE k \in DOMAIN taken
  <1>2. taken[k] \in StreamItems \cup {HelperPanic, LastItem}
    BY DEF NumberInv, TakenInv
  <1>3. QED
    BY <1>2, ItemOrigins

LEMMA AppendFacts ==
  ASSUME NEW S, NEW q \in Seq(S), NEW e \in S, NEW r, r = Append(q, e)
  PROVE  /\ Len(q) \in Nat /\ Len(r) = Len(q) + 1
         /\ DOMAIN q = 1 .. Len(q) /\ DOMAIN r = 1 .. Len(q) + 1
         /\ \A k \in 1 .. Len(q) : r[k] = q[k]
         /\ r[Len(q) + 1] = e
  OBVIOUS

(***************************************************************************)
(* What a new number keeps: `i` comes after the numbered items of its      *)
(* stream, nobody else is about to number an item of that stream, and the  *)
(* last item is numbered only when it ends the input or finish() was       *)
(* called.                                                                 *)
(***************************************************************************)
LEMMA NumberedKeeps ==
  ASSUME InputTyped, NumberInv, NEW w \in Workers,
         NEW i \in StreamItems \cup {HelperPanic, LastItem},
         ~stopped, Numbered(w, i, Ends(i)),
         inp' = inp, pos' = pos, finished' = finished,
         i \in StreamItems => i[2] <= pos[i[1]],
         \A k \in DOMAIN taken : taken[k][1] = i[1] => taken[k][2] < i[2],
         \A v \in Workers \ {w} : pc[v] = "number" => cur[v] # i[1],
         i = LastItem => /\ Ends(i) \/ finished
                         /\ \A v \in Workers \ {w} : pc[v] # "number_last"
  PROVE  StopInv' /\ TakenInv' /\ LastInv' /\ StreamOrder'
  <1>1. taken \in Seq(ItemType) /\ i \in ItemType
    BY DEF InputTyped, InputTypeOK, ItemType
  <1>2. taken' = Append(taken, i)
    BY DEF Numbered
  <1>3. /\ Len(taken) \in Nat /\ Len(taken') = Len(taken) + 1
        /\ DOMAIN taken = 1 .. Len(taken) /\ DOMAIN taken' = 1 .. Len(taken) + 1
        /\ \A k \in 1 .. Len(taken) : taken'[k] = taken[k]
        /\ taken'[Len(taken) + 1] = i
    BY <1>1, <1>2, AppendFacts
  <1>4. /\ StreamItems' = StreamItems /\ LastItem' = LastItem
        /\ \A e : Ends(e)' = Ends(e)
        /\ stopped' = Ends(i) /\ exhausted' = (exhausted \/ Ends(i))
    BY DEF StreamItems, LastItem, Ends, Numbered
  <1>5. \A v \in Workers \ {w} : pc'[v] = pc[v] /\ cur'[v] = cur[v] /\ item'[v] = item[v]
    BY DEF Numbered, Goto, ForgetLocals, InputTyped, InputTypeOK
  <1>6. pc'[w] = "got"
    BY DEF Numbered, Goto, InputTyped, InputTypeOK
  <1>7. StopInv'
    <2>1. \A k \in DOMAIN taken : ~Ends(taken[k])
      BY DEF NumberInv, StopInv
    <2>2. \A k \in DOMAIN taken' : Ends(taken'[k]) => k = Len(taken') /\ Ends(i)
      BY <1>3, <2>1
    <2>3. finished \/ stopped' => exhausted'
      BY <1>4 DEF NumberInv, StopInv
    <2>4. QED
      BY <1>4, <2>2, <2>3 DEF StopInv, NothingAfterTheEnd, Ends
  <1>8. TakenInv'
    <2>1. \A k \in DOMAIN taken' : taken'[k] \in StreamItems \cup {HelperPanic, LastItem}
      BY <1>3 DEF NumberInv, TakenInv
    <2>2. \A k \in DOMAIN taken' : taken'[k] \in StreamItems => taken'[k][2] <= pos[taken'[k][1]]
      BY <1>3 DEF NumberInv, TakenInv
    <2>3. ASSUME NEW v \in Workers, NEW k \in DOMAIN taken',
                 pc'[v] = "number", taken'[k] \in StreamItems, taken'[k][1] = cur'[v]
          PROVE  taken'[k][2] < item'[v][2]
      BY <1>3, <1>5, <1>6, <2>3 DEF NumberInv, TakenInv
    <2>4. QED
      BY <1>4, <2>1, <2>2, <2>3 DEF TakenInv
  <1>9. LastInv'
    <2>1. \A k \in DOMAIN taken' : taken'[k] = LastItem => stopped' \/ finished
      BY <1>3, <1>4 DEF NumberInv, LastInv
    <2>2. ASSUME NEW v \in Workers, pc'[v] = "number_last", ~stopped'
          PROVE  /\ inp.listEnd = "none" => finished
                 /\ \A k \in DOMAIN taken' : taken'[k] # LastItem
      BY <1>3, <1>5, <1>6, <2>2 DEF NumberInv, LastInv
    <2>3. QED
      BY <1>4, <2>1, <2>2 DEF LastInv
  <1>10. StreamOrder'
    BY <1>3 DEF NumberInv, StreamOrder
  <1>11. QED
    BY <1>7, <1>8, <1>9, <1>10

(***************************************************************************)
(* A panic of the helper, in place of an item.                             *)
(***************************************************************************)
LEMMA HelperNumber ==
  ASSUME InputTyped, NumberInv, NEW w \in Workers, pc[w] \in {"help", "help_again"},
         NEW again \in {"help", "stopped"}, NEW nothing \in {"stopped", "block"},
         CallHelper(w, again, nothing)
  PROVE  NumberInv'
  <1>1. CASE HelperFails(w) /\ ~stopped /\ UNCHANGED help
    <2>1. Numbered(w, HelperPanic, Ends(HelperPanic))
      BY <1>1 DEF HelperFails, Ends, EndsIn
    <2>2. \A k \in DOMAIN taken : taken[k][1] # HelperPanic[1]
      <3>1. ASSUME NEW k \in DOMAIN taken PROVE taken[k] # HelperPanic
        BY <1>1 DEF NumberInv, StopInv, Ends, EndsIn
      <3>2. QED
        BY <3>1, ItemOrigins DEF NumberInv, TakenInv
    <2>3. \A v \in Workers : pc[v] = "number" => cur[v] # HelperPanic[1]
      BY ItemOrigins DEF NumberInv, HoldInv
    <2>4. UNCHANGED <<inp, pos, finished, list, state>>
      BY DEF CallHelper
    <2>5. HelperPanic # LastItem /\ HelperPanic \notin StreamItems
      BY ItemOrigins
    <2>6. StopInv' /\ TakenInv' /\ LastInv' /\ StreamOrder'
      BY <1>1, <2>1, <2>2, <2>3, <2>4, <2>5, NumberedKeeps
    <2>7. HoldInv' /\ HandInv'
      BY <2>1, <2>4 DEF Numbered, Goto, ForgetLocals, NumberInv, HoldInv, HandInv, InputTyped,
         InputTypeOK, StreamItems, LastItem, Streams
    <2>8. QED
      BY <2>6, <2>7 DEF NumberInv
  <1>2. CASE ~(HelperFails(w) /\ ~stopped /\ UNCHANGED help)
    <2>1. UNCHANGED <<inp, listVars, streamVars, numberVars, cur, item>>
      BY <1>2 DEF CallHelper, HelperFails
    <2>2. PICK l \in {"help", "stopped", "block", "none"} : pc' = [pc EXCEPT ![w] = l]
      BY <1>2 DEF CallHelper, HelperFails, Goto
    <2>3. QED
      BY <2>1, <2>2 DEF InputTyped, InputTypeOK, NumberInv, HoldInv, HandInv, StopInv,
         NothingAfterTheEnd, TakenInv, LastInv, StreamOrder, StreamItems, LastItem, Streams, Ends
  <1>3. QED
    BY <1>1, <1>2

(***************************************************************************)
(* A step that pulls nothing and numbers nothing.                          *)
(***************************************************************************)
LEMMA TakenKept ==
  ASSUME TakenInv, UNCHANGED <<inp, pos, taken>>,
         \A v \in Workers :
             pc'[v] = "number" => pc[v] = "number" /\ cur'[v] = cur[v] /\ item'[v] = item[v]
  PROVE  TakenInv'
  <1>1. StreamItems' = StreamItems /\ LastItem' = LastItem
    BY DEF StreamItems, LastItem
  <1>2. QED
    BY <1>1 DEF TakenInv

\* A worker locks the stream it goes to, or finds it locked and stays where it is.
LEMMA NumberLocked ==
  ASSUME InputTyped, NumberInv, NEW w \in Workers, NEW s \in Streams,
         pc[w] \in {"try", "block"}, cur' = [cur EXCEPT ![w] = s],
         UNCHANGED <<inp, listVars, pos, numberVars, item>>,
         \/ /\ state[s] = NoWorker /\ state' = [state EXCEPT ![s] = w]
            /\ pc' = [pc EXCEPT ![w] = "pull"]
         \/ UNCHANGED <<state, pc>>
  PROVE  NumberInv'
  <1>1. /\ StreamItems' = StreamItems /\ LastItem' = LastItem /\ Streams' = Streams
        /\ \A i : Ends(i)' = Ends(i)
    BY DEF StreamItems, LastItem, Streams, Ends
  <1>2. /\ DOMAIN pc = Workers /\ DOMAIN cur = Workers /\ DOMAIN state = Streams
        /\ NoWorker \notin Workers
    BY InputAssumption DEF InputTyped, InputTypeOK
  <1>3. /\ cur'[w] = s /\ \A v \in Workers : v # w => cur'[v] = cur[v] /\ pc'[v] = pc[v]
        /\ \/ pc'[w] = "pull" /\ state[s] = NoWorker /\ state'[s] = w
           \/ pc'[w] \in {"try", "block"}
        /\ \A r \in Streams : state[r] # NoWorker => state'[r] = state[r]
    BY <1>2
  <1>4. HoldInv'
    BY <1>1, <1>2, <1>3 DEF NumberInv, HoldInv
  <1>5. HandInv'
    BY <1>1, <1>3 DEF NumberInv, HandInv
  <1>6. TakenInv'
    BY <1>3, TakenKept DEF NumberInv
  <1>7. StopInv' /\ StreamOrder'
    BY <1>1 DEF NumberInv, StopInv, NothingAfterTheEnd, StreamOrder
  <1>8. LastInv'
    BY <1>1, <1>3 DEF NumberInv, LastInv
  <1>9. QED
    BY <1>4, <1>5, <1>6, <1>7, <1>8 DEF NumberInv

LEMMA NumberInit ==
  ASSUME InputInit, \A w \in Workers : pc[w] \in {"new", "idle"}
  PROVE  NumberInv
  BY DEF InputInit, NumberInv, HoldInv, HandInv, StopInv, NothingAfterTheEnd, TakenInv,
         LastInv, StreamOrder

LEMMA NumberTake ==
  ASSUME InputTyped, NumberInv, NEW w \in Workers, Take(w)
  PROVE  NumberInv'
  <1>0. NoWorker \notin Workers
    BY InputAssumption
  <1> USE <1>0 DEF InputTyped, InputTypeOK, TakePcs, Goto, LastItem, StreamItems, Ends, Streams,
         NumberInv, HoldInv, HandInv, StopInv, NothingAfterTheEnd, TakenInv, LastInv, StreamOrder
  <1>1. CASE Help(w)
    BY <1>1, HelperNumber DEF Help
  <1>2. CASE CheckStopped(w)
    BY <1>2 DEF CheckStopped, ForgetLocals
  <1>3. CASE ReadExhausted(w)
    BY <1>3 DEF ReadExhausted
  <1>4. CASE CloneOpen(w)
    BY <1>4 DEF CloneOpen
  <1>5. CASE TryLock(w)
    <2> PICK s \in Untried(w) : TryLock(w)!2!(s)
      BY <1>5 DEF TryLock
    <2>1. s \in Streams
      <3>1. s \in snap[w]
        BY DEF Untried
      <3> HIDE DEF InputTyped, InputTypeOK, LastItem, StreamItems, Streams, NumberInv, HoldInv,
                     HandInv, StopInv, TakenInv, LastInv, StreamOrder
      <3>2. QED
        BY <3>1, SnapStreams
    <2>2. /\ pc[w] = "try" /\ cur' = [cur EXCEPT ![w] = s]
          /\ UNCHANGED <<inp, listVars, pos, numberVars, item>>
      BY <1>5 DEF TryLock
    <2>3. \/ /\ state[s] = NoWorker /\ state' = [state EXCEPT ![s] = w]
             /\ pc' = [pc EXCEPT ![w] = "pull"]
          \/ UNCHANGED <<state, pc>>
      OBVIOUS
    <2>4. InputTyped /\ NumberInv
      OBVIOUS
    <2>5. QED
      <3> HIDE DEF InputTyped, InputTypeOK, LastItem, StreamItems, Streams, NumberInv, HoldInv,
                     HandInv, StopInv, TakenInv, LastInv, StreamOrder
      <3>1. QED
        BY <2>1, <2>2, <2>3, <2>4, NumberLocked
  <1>6. CASE AllHeld(w)
    BY <1>6 DEF AllHeld
  <1>7. CASE HelpAgain(w)
    BY <1>7, HelperNumber DEF HelpAgain
  <1>8. CASE BlockOnHead(w)
    <2> PICK s \in snap[w] : BlockOnHead(w)!2!(s)
      BY <1>8 DEF BlockOnHead
    <2>0. /\ pc[w] = "block" /\ state[s] = NoWorker
          /\ state' = [state EXCEPT ![s] = w]
          /\ cur' = [cur EXCEPT ![w] = s]
          /\ pc' = [pc EXCEPT ![w] = "pull"]
          /\ UNCHANGED <<inp, listVars, pos, numberVars, item>>
      BY <1>8 DEF BlockOnHead
    <2>1. s \in Streams
      <3> HIDE DEF InputTyped, InputTypeOK, LastItem, StreamItems, Streams, NumberInv, HoldInv,
                     HandInv, StopInv, TakenInv, LastInv, StreamOrder
      <3>1. QED
        BY SnapStreams
    <2>2. InputTyped /\ NumberInv
      OBVIOUS
    <2>3. QED
      <3> HIDE DEF InputTyped, InputTypeOK, LastItem, StreamItems, Streams, NumberInv, HoldInv,
                     HandInv, StopInv, TakenInv, LastInv, StreamOrder
      <3>1. QED
        BY <2>0, <2>1, <2>2, NumberLocked
  <1>9. CASE PullDone(w)
    BY <1>9 DEF PullDone
  <1>10. CASE PullItem(w)
    <2>1. /\ cur[w] \in Streams /\ state[cur[w]] = w /\ pos[cur[w]] \in Nat
          /\ pos' = [pos EXCEPT ![cur[w]] = pos[cur[w]] + 1]
          /\ item' = [item EXCEPT ![w] = <<cur[w], pos[cur[w]] + 1>>]
          /\ <<cur[w], pos[cur[w]] + 1>> \in StreamItems
          /\ pc' = [pc EXCEPT ![w] = "number"]
          /\ UNCHANGED <<inp, listVars, state, numberVars, cur>>
      BY <1>10 DEF PullItem
    <2>2. \A v \in Workers \ {w} : pc[v] = "number" => cur[v] # cur[w]
      BY <2>1
    <2>3. HoldInv'
      BY <2>1
    <2>4. HandInv'
      BY <2>1, <2>2
    <2>5. TakenInv'
      <3>1. \A i \in DOMAIN taken : taken[i] \in StreamItems =>
                taken[i][1] \in Streams /\ taken[i][2] \in Nat /\ pos[taken[i][1]] \in Nat
        BY ItemOrigins
      <3>2. \A i \in DOMAIN taken' :
                taken'[i] \in StreamItems' => taken'[i][2] <= pos'[taken'[i][1]]
        <4> SUFFICES ASSUME NEW k \in DOMAIN taken, taken[k] \in StreamItems
                     PROVE  taken[k][2] <= pos'[taken[k][1]]
          BY <2>1
        <4>1. /\ taken[k][1] \in Streams /\ taken[k][2] \in Nat /\ pos[taken[k][1]] \in Nat
              /\ taken[k][2] <= pos[taken[k][1]]
          BY <3>1
        <4>2. pos'[taken[k][1]] \in {pos[taken[k][1]], pos[taken[k][1]] + 1}
          BY <2>1, <4>1
        <4>3. QED
          BY <4>1, <4>2
      <3>3. ASSUME NEW v \in Workers, NEW i \in DOMAIN taken', pc'[v] = "number",
                   taken'[i] \in StreamItems', taken'[i][1] = cur'[v]
            PROVE  taken'[i][2] < item'[v][2]
        <4>1. CASE v = w
          BY <2>1, <3>1, <3>3, <4>1
        <4>2. CASE v # w
          BY <2>1, <3>3, <4>2
        <4>3. QED
          BY <4>1, <4>2
      <3>4. \A i \in DOMAIN taken' : taken'[i] \in StreamItems' \cup {HelperPanic, LastItem'}
        BY <2>1
      <3>5. QED
        BY <3>2, <3>3, <3>4
    <2>6. StopInv' /\ LastInv' /\ StreamOrder'
      BY <2>1
    <2>7. QED
      BY <2>3, <2>4, <2>5, <2>6
  <1>11. CASE PullEnd(w)
    <2>1. /\ pc[w] = "pull"
          /\ state' = [state EXCEPT ![cur[w]] = NoWorker]
          /\ pc' = [pc EXCEPT ![w] = "ended"]
          /\ UNCHANGED <<inp, listVars, pos, numberVars, cur, item>>
      BY <1>11 DEF PullEnd
    <2>2. cur[w] \in Streams /\ state[cur[w]] = w
      BY <2>1
    <2>3. HoldInv' /\ HandInv'
      BY <2>1, <2>2
    <2>4. StopInv' /\ TakenInv' /\ LastInv' /\ StreamOrder'
      BY <2>1
    <2>5. QED
      BY <2>3, <2>4
  <1>12. CASE NumberItem(w)
    <2>1. CASE stopped
      <3>1. /\ pc[w] = "number"
            /\ state' = [state EXCEPT ![cur[w]] = NoWorker]
            /\ item' = [item EXCEPT ![w] = NoItem]
            /\ pc' = [pc EXCEPT ![w] = "stopped"]
            /\ UNCHANGED <<inp, listVars, pos, numberVars, cur>>
        BY <1>12, <2>1 DEF NumberItem
      <3>2. cur[w] \in Streams /\ state[cur[w]] = w
        BY <3>1
      <3>3. HoldInv' /\ HandInv'
        BY <3>1, <3>2
      <3>4. StopInv' /\ TakenInv' /\ LastInv' /\ StreamOrder'
        BY <3>1
      <3>5. QED
        BY <3>3, <3>4
    <2>2. CASE ~stopped
      <3>1. /\ pc[w] = "number" /\ Numbered(w, item[w], Ends(item[w]))
            /\ state' = [state EXCEPT ![cur[w]] = NoWorker]
            /\ UNCHANGED <<inp, pos, finished, list>>
        BY <1>12, <2>2 DEF NumberItem
      <3>2. item[w] \in StreamItems /\ item[w] = <<cur[w], pos[cur[w]]>>
        BY <3>1
      <3>3. cur[w] \in Streams /\ state[cur[w]] = w /\ pos[cur[w]] \in Nat
        BY <3>1
      <3>4. \A v \in Workers \ {w} : pc[v] \in {"pull", "number"} => cur[v] # item[w][1]
        BY <3>2, <3>3
      <3>5. \A k \in DOMAIN taken : taken[k][1] = item[w][1] => taken[k][2] < item[w][2]
        <4> SUFFICES ASSUME NEW k \in DOMAIN taken, taken[k][1] = item[w][1]
                     PROVE  taken[k][2] < item[w][2]
          OBVIOUS
        <4>1. taken[k] \in StreamItems
          <5>1. item[w][1] \in Streams
            BY <3>2, <3>3
          <5> HIDE DEF InputTyped, InputTypeOK, LastItem, StreamItems, Streams, NumberInv, HoldInv,
                       HandInv, StopInv, TakenInv, LastInv, StreamOrder
          <5>2. QED
            BY <5>1, TakenOrigins
        <4>2. QED
          BY <3>1, <3>2, <4>1
      <3>6. item[w] # LastItem
        BY <3>2, ItemOrigins
      <3>7. item[w][2] <= pos[item[w][1]]
        BY <3>2, <3>3
      <3>8. StopInv' /\ TakenInv' /\ LastInv' /\ StreamOrder'
        <4> HIDE DEF InputTyped, InputTypeOK, LastItem, StreamItems, Ends, Streams, NumberInv,
                     StopInv, TakenInv, LastInv, StreamOrder
        <4>1. QED
          BY <2>2, <3>1, <3>2, <3>4, <3>5, <3>6, <3>7, NumberedKeeps
      <3>9. HoldInv' /\ HandInv'
        BY <3>1, <3>2, <3>3, <3>4 DEF Numbered, ForgetLocals
      <3>10. QED
        BY <3>8, <3>9
    <2>3. QED
      BY <2>1, <2>2
  <1>13. CASE StreamEnded(w)
    BY <1>13 DEF StreamEnded
  <1>14. CASE OpenNotNeeded(w)
    BY <1>14 DEF OpenNotNeeded
  <1>15. CASE OpenStream(w)
    BY <1>15 DEF OpenStream
  <1>16. CASE NoStreamLeft(w)
    BY <1>16 DEF NoStreamLeft
  <1>17. CASE ListPanics(w)
    <2>1. /\ pc[w] = "open_next" /\ list = NoWorker /\ ~exhausted /\ inp.listEnd = "panic"
          /\ list' = w
          /\ item' = [item EXCEPT ![w] = LastItem]
          /\ pc' = [pc EXCEPT ![w] = "number_last"]
          /\ UNCHANGED <<inp, finished, streamVars, numberVars, cur>>
      BY <1>17 DEF ListPanics, MayOpen
    <2>2. \A i \in DOMAIN taken : taken[i] # LastItem
      BY <2>1
    <2>3. HoldInv' /\ HandInv'
      BY <2>1
    <2>4. LastInv'
      BY <2>1, <2>2
    <2>5. StopInv' /\ TakenInv' /\ StreamOrder'
      BY <2>1
    <2>6. QED
      BY <2>3, <2>4, <2>5
  <1>18. CASE Finish(w)
    <2>1. CASE MayFinish /\ inp.last # "none"
      <3>1. /\ pc[w] = "finish" /\ list = w /\ ~finished /\ ~stopped /\ exhausted
            /\ finished' = TRUE
            /\ item' = [item EXCEPT ![w] = LastItem]
            /\ pc' = [pc EXCEPT ![w] = "number_last"]
            /\ UNCHANGED <<inp, list, streamVars, numberVars, cur>>
        BY <1>18, <2>1 DEF Finish, MayFinish
      <3>2. \A i \in DOMAIN taken : taken[i] # LastItem
        BY <3>1
      <3>3. HoldInv' /\ HandInv'
        BY <3>1
      <3>4. LastInv'
        BY <3>1, <3>2
      <3>5. StopInv' /\ TakenInv' /\ StreamOrder'
        BY <3>1
      <3>6. QED
        BY <3>3, <3>4, <3>5
    <2>2. CASE ~(MayFinish /\ inp.last # "none")
      <3>1. /\ pc[w] = "finish" /\ list = w
            /\ finished => finished'
            /\ finished' => finished \/ exhausted
            /\ list' = NoWorker
            /\ pc' = [pc EXCEPT ![w] = "stopped"]
            /\ UNCHANGED <<inp, item, streamVars, numberVars, cur>>
        BY <1>18, <2>2 DEF Finish, MayFinish
      <3>2. HoldInv' /\ HandInv'
        BY <3>1
      <3>3. StopInv' /\ TakenInv' /\ LastInv' /\ StreamOrder'
        BY <3>1
      <3>4. QED
        BY <3>2, <3>3
    <2>3. QED
      BY <2>1, <2>2
  <1>19. CASE NumberLast(w)
    <2>1. CASE stopped
      <3>1. /\ pc[w] = "number_last" /\ list = w
            /\ list' = NoWorker
            /\ item' = [item EXCEPT ![w] = NoItem]
            /\ pc' = [pc EXCEPT ![w] = "stopped"]
            /\ UNCHANGED <<inp, finished, streamVars, numberVars, cur>>
        BY <1>19, <2>1 DEF NumberLast
      <3>2. HoldInv' /\ HandInv'
        BY <3>1
      <3>3. StopInv' /\ TakenInv' /\ LastInv' /\ StreamOrder'
        BY <3>1
      <3>4. QED
        BY <3>2, <3>3
    <2>2. CASE ~stopped
      <3>1. /\ pc[w] = "number_last" /\ Numbered(w, item[w], Ends(item[w]))
            /\ list' = NoWorker
            /\ UNCHANGED <<inp, pos, finished, state>>
        BY <1>19, <2>2 DEF NumberLast
      <3>2. item[w] = LastItem /\ list = w
        BY <3>1
      <3>3. \A v \in Workers \ {w} : pc[v] \notin {"finish", "number_last"}
        BY <3>2
      <3>4. \A v \in Workers : pc[v] = "number" => cur[v] # LastItem[1]
        <4>1. \A v \in Workers : pc[v] = "number" => cur[v] \in Streams
          OBVIOUS
        <4>2. Total \in Nat /\ Streams = 1 .. Total /\ LastItem[1] = Total + 1
          BY ItemOrigins DEF LastItemOf, Total
        <4> HIDE DEF LastItem, Streams
        <4>3. QED
          BY <4>1, <4>2
      <3>5. \A k \in DOMAIN taken : taken[k][1] # LastItem[1]
        <4>1. \A k \in DOMAIN taken : taken[k] # LastItem
          BY <2>2, <3>1
        <4> HIDE DEF InputTyped, InputTypeOK, LastItem, StreamItems, Streams, NumberInv, HoldInv,
                     HandInv, StopInv, TakenInv, LastInv, StreamOrder
        <4>2. QED
          BY <4>1, TakenOrigins
      <3>6. Ends(LastItem) \/ finished
        <4>1. CASE inp.listEnd = "panic"
          BY <4>1 DEF EndsIn
        <4>2. CASE inp.listEnd = "none"
          BY <2>2, <3>1, <4>2
        <4>3. QED
          BY <4>1, <4>2, ItemOrigins
      <3>7. LastItem \notin StreamItems
        BY ItemOrigins
      <3>8. StopInv' /\ TakenInv' /\ LastInv' /\ StreamOrder'
        <4> HIDE DEF InputTyped, InputTypeOK, LastItem, StreamItems, Ends, Streams, NumberInv,
                     StopInv, TakenInv, LastInv, StreamOrder
        <4>1. QED
          BY <2>2, <3>1, <3>2, <3>3, <3>4, <3>5, <3>6, <3>7, NumberedKeeps
      <3>9. HoldInv' /\ HandInv'
        BY <3>1, <3>2, <3>3 DEF Numbered, ForgetLocals
      <3>10. QED
        BY <3>8, <3>9
    <2>3. QED
      BY <2>1, <2>2
  <1>20. QED
    BY <1>1, <1>2, <1>3, <1>4, <1>5, <1>6, <1>7, <1>8, <1>9, <1>10, <1>11,
       <1>12, <1>13, <1>14, <1>15, <1>16, <1>17, <1>18, <1>19
    DEF Take

\* A step outside of take() that leaves what take() works on alone.
LEMMA NumberKept ==
  ASSUME NumberInv,
         UNCHANGED <<inp, list, finished, state, pos, exhausted, stopped, taken, cur>>,
         \A v \in Workers : pc'[v] \in {"pull", "number", "finish", "number_last"} =>
             pc'[v] = pc[v] /\ item'[v] = item[v]
  PROVE  NumberInv'
  <1>1. /\ StreamItems' = StreamItems /\ LastItem' = LastItem /\ Streams' = Streams
        /\ \A i : Ends(i)' = Ends(i)
    BY DEF StreamItems, LastItem, Streams, Ends
  <1>2. HoldInv'
    BY <1>1 DEF NumberInv, HoldInv
  <1>3. HandInv'
    BY <1>1 DEF NumberInv, HandInv
  <1>4. StopInv' /\ StreamOrder'
    BY <1>1 DEF NumberInv, StopInv, NothingAfterTheEnd, StreamOrder
  <1>5. TakenInv'
    BY <1>1 DEF NumberInv, TakenInv
  <1>6. LastInv'
    BY <1>1 DEF NumberInv, LastInv
  <1>7. QED
    BY <1>2, <1>3, <1>4, <1>5, <1>6 DEF NumberInv

LEMMA NumberStep == TypeOK /\ NumberInv /\ [Next]_inputVars => NumberInv'
  <1> SUFFICES ASSUME TypeOK, NumberInv, [Next]_inputVars PROVE NumberInv'
    OBVIOUS
  <1>1. InputTyped /\ DOMAIN pc = Workers /\ DOMAIN item = Workers
    BY DEF TypeOK, InputTyped, InputTypeOK, Points
  <1>2. ASSUME NEW w \in Workers, Call(w) \/ Use(w) PROVE NumberInv'
    BY <1>1, <1>2, NumberKept DEF Call, Use, Goto
  <1>3. CASE UNCHANGED inputVars
    BY <1>3, NumberKept DEF inputVars
  <1>4. QED
    BY <1>1, <1>2, <1>3, NumberTake DEF Next, Finished

(***************************************************************************)
(* Whatever the workers' interleaving: an error or a panic that ends the   *)
(* input is the last item numbered, although other workers hold items they *)
(* pulled before it (Input::number, Input::pull).                          *)
(***************************************************************************)
THEOREM NothingAfterTheEndHolds == Spec => []NothingAfterTheEnd
  <1>1. NumberInv => NothingAfterTheEnd
    BY DEF NumberInv, StopInv
  <1>2. Init => NumberInv
    BY NumberInit DEF Init
  <1>3. QED
    BY <1>1, <1>2, TypeInit, TypeStep, NumberStep, PTL DEF Spec

(***************************************************************************)
(* Whatever the workers' interleaving and the number of streams open: no   *)
(* item gets two numbers, and those of a stream are numbered in order      *)
(* (Input::pull numbers an item while it holds its stream).                *)
(***************************************************************************)
THEOREM StreamOrderHolds == Spec => []StreamOrder
  <1>1. NumberInv => StreamOrder
    BY DEF NumberInv
  <1>2. Init => NumberInv
    BY NumberInit DEF Init
  <1>3. QED
    BY <1>1, <1>2, TypeInit, TypeStep, NumberStep, PTL DEF Spec

-----------------------------------------------------------------------------
(***************************************************************************)
(* The end of an input: the invariant beside NumberInv.  OpenInv says what *)
(* the list of open streams is; CountInv that `ended`, which is counted    *)
(* under another lock than the stream leaves that list, trails it by the   *)
(* workers in between; ListInv when the list has been read to its end;     *)
(* PulledInv where the items pulled are; FinishInv who sees to the last.   *)
(***************************************************************************)
TakenItems == {taken[i] : i \in DOMAIN taken}

OpenInv ==
    /\ Cardinality(open) <= MaxOpen
    /\ \A s \in 1 .. started : ~done[s] => s \in open
    /\ \A w \in Workers : pc[w] = "number" => cur[w] \in open

Ending == {w \in Workers : pc[w] = "ended"}

CountInv == ended + Cardinality(Ending) + Cardinality(open) = started

ListInv ==
    /\ exhausted => stopped \/ started = Total
    /\ \A w \in Workers : seen[w] => exhausted
    /\ \A w \in Workers : pc[w] = "none" => stopped \/ (exhausted /\ open = {})

InHand(e) == \E w \in Workers : pc[w] = "number" /\ item[w] = e

PulledInv ==
    /\ \A s \in (1 .. started) \ open : <<s, pos[s] + 1>> \notin StreamItems
    /\ ~stopped => \A e \in StreamItems : e[2] <= pos[e[1]] => e \in TakenItems \/ InHand(e)

At(l) == \E w \in Workers : pc[w] = l

FinishInv ==
    /\ exhausted /\ ended >= started /\ ~stopped => finished \/ At("finish")
    /\ finished /\ ~stopped /\ inp.last # "none" => LastItem \in TakenItems \/ At("number_last")
    /\ At("number_last") /\ ~stopped /\ inp.listEnd = "none" => StreamItems \subseteq TakenItems
    /\ LastItemAfterAll

EndInv == OpenInv /\ CountInv /\ ListInv /\ PulledInv /\ FinishInv

-----------------------------------------------------------------------------

LEMMA CountFacts ==
  ASSUME InputTyped
  PROVE  /\ Total \in Nat /\ Streams = 1 .. Total /\ MaxOpen \in Nat \ {0}
         /\ started \in 0 .. Total /\ ended \in Nat /\ started \in Nat
         /\ open \subseteq 1 .. started
         /\ IsFiniteSet(open) /\ Cardinality(open) \in Nat
         /\ IsFiniteSet(Ending) /\ Cardinality(Ending) \in Nat
  <1>1. inp \in InputType
    BY InputAssumption DEF InputTyped, InputTypeOK
  <1>2. Total \in Nat /\ Streams = 1 .. Total /\ MaxOpen \in Nat \ {0}
    BY <1>1 DEF InputType, Total, Streams, MaxOpen
  <1>3. started \in 0 .. Total /\ ended \in Nat /\ started \in Nat /\ open \subseteq 1 .. started
    BY <1>2 DEF InputTyped, InputTypeOK
  <1>4. IsFiniteSet(open) /\ IsFiniteSet(Ending)
    <2>1. IsFiniteSet(1 .. started)
      BY <1>3, FS_Interval
    <2>2. Ending \subseteq Workers
      BY DEF Ending
    <2>3. QED
      BY <1>3, <2>1, <2>2, FS_Subset, InputAssumption
  <1>5. QED
    BY <1>2, <1>3, <1>4, FS_CardinalityType

\* A stream that was opened and is not open any more gave all its items.
LEMMA AllPulled ==
  ASSUME InputTyped, EndInv, NEW e \in StreamItems, e[1] \in (1 .. started) \ open
  PROVE  e[2] <= pos[e[1]]
  <1>1. /\ e[1] \in Streams /\ e[2] \in Nat \ {0} /\ e = <<e[1], e[2]>>
        /\ e[1] \in DOMAIN inp.streams /\ e[2] \in DOMAIN inp.streams[e[1]]
    <2>1. PICK s \in DOMAIN inp.streams : \E p \in DOMAIN inp.streams[s] : e = <<s, p>>
      BY DEF StreamItems, StreamItemsOf
    <2>2. QED
      BY <2>1, ItemOrigins
  <1>2. <<e[1], pos[e[1]] + 1>> \notin StreamItems
    BY <1>1 DEF EndInv, PulledInv
  <1>3. pos[e[1]] \in Nat
    BY <1>1 DEF InputTyped, InputTypeOK
  <1>4. pos[e[1]] + 1 \notin DOMAIN inp.streams[e[1]]
    BY <1>1, <1>2 DEF StreamItems, StreamItemsOf
  <1>5. inp.streams[e[1]] \in Seq(Kinds)
    <2>1. inp \in InputType
      BY InputAssumption DEF InputTyped, InputTypeOK
    <2>2. QED
      BY <1>1, <2>1 DEF InputType
  <1>6. DOMAIN inp.streams[e[1]] = 1 .. Len(inp.streams[e[1]]) /\ Len(inp.streams[e[1]]) \in Nat
    BY <1>5
  <1>7. QED
    BY <1>1, <1>3, <1>4, <1>6

\* When every stream has left the list of open streams, every item has been numbered.
LEMMA AllTaken ==
  ASSUME InputTyped, EndInv, started = Total, ~stopped, open = {}
  PROVE  StreamItems \subseteq TakenItems
  <1> SUFFICES ASSUME NEW e \in StreamItems PROVE e \in TakenItems
    OBVIOUS
  <1>1. e[1] \in (1 .. started) \ open
    BY CountFacts, ItemOrigins
  <1>2. e[2] <= pos[e[1]]
    BY <1>1, AllPulled
  <1>3. e \in TakenItems \/ InHand(e)
    BY <1>2 DEF EndInv, PulledInv
  <1>4. ~InHand(e)
    BY DEF InHand, EndInv, OpenInv
  <1>5. QED
    BY <1>3, <1>4

-----------------------------------------------------------------------------
\* What the parts of the invariant depend on.

LEMMA OpenKept ==
  ASSUME OpenInv, UNCHANGED <<inp, started, open>>,
         \A s \in 1 .. started : done[s] => done'[s],
         \A v \in Workers : pc'[v] = "number" => pc[v] = "number" /\ cur'[v] = cur[v]
  PROVE  OpenInv'
  BY DEF OpenInv, MaxOpen

LEMMA CountKept ==
  ASSUME CountInv, UNCHANGED <<started, ended, open>>,
         \A v \in Workers : pc'[v] = "ended" <=> pc[v] = "ended"
  PROVE  CountInv'
  <1>1. Ending' = Ending
    BY DEF Ending
  <1>2. QED
    BY <1>1 DEF CountInv

LEMMA ListKept ==
  ASSUME ListInv, UNCHANGED <<inp, started, open, exhausted, stopped>>,
         \A v \in Workers : seen'[v] => seen[v] \/ exhausted,
         \A v \in Workers : pc'[v] = "none" =>
             pc[v] = "none" \/ stopped \/ (exhausted /\ open = {})
  PROVE  ListInv'
  BY DEF ListInv, Total

LEMMA PulledKept ==
  ASSUME PulledInv, UNCHANGED <<inp, started, open, pos, stopped, taken>>,
         stopped \/ \A v \in Workers : pc[v] = "number" => pc'[v] = "number" /\ item'[v] = item[v]
  PROVE  PulledInv'
  <1>1. StreamItems' = StreamItems /\ TakenItems' = TakenItems
    BY DEF StreamItems, TakenItems
  <1>2. \A e : ~stopped /\ InHand(e) => InHand(e)'
    BY DEF InHand
  <1>3. QED
    BY <1>1, <1>2 DEF PulledInv

LEMMA FinishKept ==
  ASSUME FinishInv, UNCHANGED <<inp, started, ended, finished, exhausted, stopped, taken>>,
         \A v \in Workers : pc[v] = "finish" => pc'[v] = "finish",
         \A v \in Workers : pc'[v] = "number_last" <=> pc[v] = "number_last"
  PROVE  FinishInv'
  <1>1. StreamItems' = StreamItems /\ TakenItems' = TakenItems /\ LastItem' = LastItem
    BY DEF StreamItems, TakenItems, LastItem
  <1>2. (At("finish") => At("finish")') /\ (At("number_last")' <=> At("number_last"))
    BY DEF At
  <1>3. LastItemAfterAll' = LastItemAfterAll
    BY <1>1 DEF LastItemAfterAll
  <1>4. QED
    BY <1>1, <1>2, <1>3 DEF FinishInv

\* A step of a worker between the points the invariant looks at.
LEMMA Quiet ==
  ASSUME EndInv, NEW w \in Workers,
         UNCHANGED <<inp, started, ended, finished, open, done, pos, exhausted, stopped, taken>>,
         \A v \in Workers : v # w =>
             pc'[v] = pc[v] /\ item'[v] = item[v] /\ cur'[v] = cur[v] /\ seen'[v] = seen[v],
         pc[w] \notin {"number", "ended", "finish", "number_last"},
         pc'[w] \notin {"number", "ended", "finish", "number_last"},
         pc'[w] = "none" => stopped \/ (exhausted /\ open = {}),
         seen'[w] => exhausted \/ seen[w]
  PROVE  EndInv'
  <1>1. OpenInv'
    BY OpenKept DEF EndInv
  <1>2. CountInv'
    BY CountKept DEF EndInv
  <1>3. ListInv'
    BY ListKept DEF EndInv
  <1>4. PulledInv'
    BY PulledKept DEF EndInv
  <1>5. FinishInv'
    BY FinishKept DEF EndInv
  <1>6. QED
    BY <1>1, <1>2, <1>3, <1>4, <1>5 DEF EndInv

(***************************************************************************)
(* A number is given: to the item in the worker's hands, which is the last *)
(* one only when all the others have theirs, or to a panic.                *)
(***************************************************************************)
LEMMA NumberedEnd ==
  ASSUME InputTyped, EndInv, NEW w \in Workers, NEW i \in ItemType, ~stopped,
         Numbered(w, i, Ends(i)),
         UNCHANGED <<inp, started, ended, finished, open, pos>>,
         \A s \in Streams : done[s] => done'[s],
         pc[w] \notin {"ended", "finish"},
         pc[w] = "number" => item[w] = i,
         pc[w] = "number_last" => LastItem = i,
         i = LastItem /\ inp.listEnd = "none" => StreamItems \subseteq TakenItems
  PROVE  EndInv'
  <1>1. /\ taken' = Append(taken, i) /\ stopped' = Ends(i)
        /\ exhausted' = (exhausted \/ Ends(i))
        /\ pc' = [pc EXCEPT ![w] = "got"] /\ item' = [item EXCEPT ![w] = i]
        /\ seen' = [seen EXCEPT ![w] = FALSE] /\ cur' = [cur EXCEPT ![w] = 0]
    BY DEF Numbered, Goto, ForgetLocals
  <1>2. /\ DOMAIN pc = Workers /\ DOMAIN item = Workers /\ seen \in [Workers -> BOOLEAN]
        /\ DOMAIN cur = Workers /\ taken \in Seq(ItemType)
        /\ exhausted \in BOOLEAN /\ Ends(i) \in BOOLEAN
    BY DEF InputTyped, InputTypeOK, Ends, EndsIn
  <1>3. /\ StreamItems' = StreamItems /\ LastItem' = LastItem /\ Total' = Total
        /\ MaxOpen' = MaxOpen
    BY DEF StreamItems, LastItem, Total, MaxOpen
  <1>4. /\ pc'[w] = "got" /\ ~seen'[w]
        /\ \A v \in Workers : v # w =>
               pc'[v] = pc[v] /\ item'[v] = item[v] /\ cur'[v] = cur[v] /\ (seen'[v] <=> seen[v])
    BY <1>1, <1>2
  <1>5. /\ Len(taken) \in Nat /\ Len(taken') = Len(taken) + 1
        /\ DOMAIN taken = 1 .. Len(taken) /\ DOMAIN taken' = 1 .. Len(taken) + 1
        /\ \A k \in 1 .. Len(taken) : taken'[k] = taken[k]
        /\ taken'[Len(taken) + 1] = i
    <2> HIDE DEF listVars, streamVars, numberVars, localVars, handVars
    <2>1. QED
      BY <1>1, <1>2, AppendFacts
  <1>6. TakenItems \subseteq TakenItems' /\ i \in TakenItems'
    BY <1>5 DEF TakenItems
  <1>7. OpenInv'
    <2>1. 1 .. started \subseteq Streams
      BY CountFacts
    <2>2. QED
      BY <1>4, <2>1, OpenKept DEF EndInv
  <1>8. CountInv'
    BY <1>4, CountKept DEF EndInv
  <1>9. ListInv'
    <2>1. exhausted' => stopped' \/ started' = Total'
      BY <1>1, <1>3 DEF EndInv, ListInv
    <2>2. ASSUME NEW v \in Workers, seen'[v] PROVE exhausted'
      BY <1>1, <1>4, <2>2 DEF EndInv, ListInv
    <2>3. ASSUME NEW v \in Workers, pc'[v] = "none" PROVE exhausted' /\ open' = {}
      BY <1>1, <1>4, <2>3 DEF EndInv, ListInv
    <2>4. QED
      BY <2>1, <2>2, <2>3 DEF ListInv
  <1>10. PulledInv'
    <2>1. \A s \in (1 .. started') \ open' : <<s, pos'[s] + 1>> \notin StreamItems'
      BY <1>3 DEF EndInv, PulledInv
    <2>2. ASSUME NEW e \in StreamItems, e[2] <= pos[e[1]] PROVE e \in TakenItems' \/ InHand(e)'
      <3>1. e \in TakenItems \/ InHand(e)
        BY <2>2 DEF EndInv, PulledInv
      <3>2. ASSUME NEW v \in Workers, pc[v] = "number", item[v] = e
            PROVE  e \in TakenItems' \/ InHand(e)'
        BY <1>4, <1>6, <3>2 DEF InHand
      <3>3. QED
        BY <1>6, <3>1, <3>2 DEF InHand
    <2>3. QED
      BY <1>3, <2>1, <2>2 DEF PulledInv
  <1>11. FinishInv'
    <2>1. exhausted' /\ ended' >= started' /\ ~stopped' => finished' \/ At("finish")'
      <3>1. At("finish") => At("finish")'
        BY <1>4 DEF At
      <3>2. QED
        BY <1>1, <3>1 DEF EndInv, FinishInv
    <2>2. finished' /\ ~stopped' /\ inp'.last # "none" =>
              LastItem' \in TakenItems' \/ At("number_last")'
      <3>1. At("number_last") => At("number_last")' \/ LastItem \in TakenItems'
        BY <1>4, <1>6 DEF At
      <3>2. QED
        BY <1>3, <1>6, <3>1 DEF EndInv, FinishInv
    <2>3. At("number_last")' /\ ~stopped' /\ inp'.listEnd = "none" =>
              StreamItems' \subseteq TakenItems'
      <3>1. At("number_last")' => At("number_last")
        BY <1>4 DEF At
      <3>2. QED
        BY <1>3, <1>6, <3>1 DEF EndInv, FinishInv
    <2>4. LastItemAfterAll'
      <3> SUFFICES ASSUME inp.listEnd = "none", NEW k \in DOMAIN taken', taken'[k] = LastItem
                   PROVE  StreamItems \subseteq {taken'[j] : j \in 1 .. k - 1}
        BY <1>3 DEF LastItemAfterAll
      <3>1. CASE k \in 1 .. Len(taken)
        <4>1. taken[k] = LastItem /\ k \in DOMAIN taken
          BY <1>5, <3>1
        <4>2. StreamItems \subseteq {taken[j] : j \in 1 .. k - 1}
          BY <4>1 DEF EndInv, FinishInv, LastItemAfterAll
        <4>3. \A j \in 1 .. k - 1 : taken'[j] = taken[j]
          BY <1>5, <3>1
        <4>4. QED
          BY <4>2, <4>3
      <3>2. CASE k = Len(taken) + 1
        <4>1. StreamItems \subseteq TakenItems
          BY <1>5, <3>2
        <4>2. 1 .. k - 1 = DOMAIN taken
          BY <1>5, <3>2
        <4>3. QED
          BY <1>5, <4>1, <4>2 DEF TakenItems
      <3>3. QED
        BY <1>5, <3>1, <3>2
    <2>5. QED
      BY <2>1, <2>2, <2>3, <2>4 DEF FinishInv
  <1>12. QED
    BY <1>7, <1>8, <1>9, <1>10, <1>11 DEF EndInv

\* A call of the helper, between two points of take.
LEMMA HelperEnd ==
  ASSUME InputTyped, EndInv, NEW w \in Workers, NEW again, NEW nothing,
         {again, nothing} \subseteq {"help", "stopped", "block"},
         pc[w] \in {"help", "help_again"}, CallHelper(w, again, nothing)
  PROVE  EndInv'
  <1>1. UNCHANGED <<inp, listVars, open, streamVars>> /\ DOMAIN pc = Workers
    BY DEF CallHelper, InputTyped, InputTypeOK
  <1>2. CASE HelperFails(w) /\ ~stopped
    <2>1. Ends(HelperPanic) = TRUE /\ HelperPanic \in ItemType /\ HelperPanic # LastItem
      BY ItemOrigins DEF Ends, EndsIn, ItemType
    <2>2. Numbered(w, HelperPanic, Ends(HelperPanic))
      BY <1>2, <2>1 DEF HelperFails
    <2>3. QED
      BY <1>1, <1>2, <2>1, <2>2, NumberedEnd
  <1>3. CASE HelperFails(w) /\ stopped
    <2>1. pc' = [pc EXCEPT ![w] = "none"] /\ UNCHANGED <<numberVars, localVars, handVars>>
      BY <1>3 DEF HelperFails, Goto
    <2>2. QED
      BY <1>1, <1>3, <2>1, Quiet
  <1>4. CASE ~HelperFails(w)
    <2>1. /\ \E l \in {"help", "stopped", "block"} : pc' = [pc EXCEPT ![w] = l]
          /\ UNCHANGED <<numberVars, localVars, handVars>>
      BY <1>4 DEF CallHelper, Goto
    <2>2. QED
      BY <1>1, <2>1, Quiet
  <1>5. QED
    BY <1>2, <1>3, <1>4

-----------------------------------------------------------------------------
\* The steps that change the streams and the list.

LEMMA PullItemEnd ==
  ASSUME InputTyped, NumberInv, EndInv, NEW w \in Workers, PullItem(w)
  PROVE  EndInv'
  <1> DEFINE s == cur[w]
             i == <<cur[w], pos[cur[w]] + 1>>
  <1>1. /\ pc[w] = "pull" /\ ~done[s] /\ i \in StreamItems
        /\ pos' = [pos EXCEPT ![s] = pos[s] + 1]
        /\ item' = [item EXCEPT ![w] = i] /\ pc' = [pc EXCEPT ![w] = "number"]
        /\ UNCHANGED <<inp, started, ended, finished, open, state, numberVars, cur, seen>>
        /\ \E b \in BOOLEAN : done' = [done EXCEPT ![s] = b]
    BY DEF PullItem, Goto
  <1>2. /\ DOMAIN pc = Workers /\ DOMAIN item = Workers
        /\ pos \in [Streams -> Nat] /\ DOMAIN done = Streams
    BY DEF InputTyped, InputTypeOK
  <1>3. /\ cur[w] \in Streams /\ cur[w] \in 1 .. started /\ cur[w] \in open
    <2>1. cur[w] \in Streams /\ cur[w] \in 0 .. started
      BY <1>1 DEF NumberInv, HoldInv, InputTyped, InputTypeOK
    <2>2. cur[w] \in 1 .. started
      BY <2>1, CountFacts
    <2>3. QED
      BY <1>1, <2>1, <2>2 DEF EndInv, OpenInv
  <1>4. /\ \A v \in Workers : v # w => pc'[v] = pc[v] /\ item'[v] = item[v]
        /\ pc'[w] = "number" /\ item'[w] = i
    BY <1>1, <1>2
  <1>5. OpenInv'
    <2>1. \A r \in 1 .. started : ~done'[r] => r \in open
      BY <1>1, <1>2, <1>3 DEF EndInv, OpenInv
    <2>2. \A v \in Workers : pc'[v] = "number" => cur'[v] \in open
      BY <1>1, <1>3, <1>4 DEF EndInv, OpenInv
    <2>3. QED
      BY <1>1, <2>1, <2>2 DEF EndInv, OpenInv, MaxOpen
  <1>6. CountInv'
    BY <1>1, <1>4, CountKept DEF EndInv
  <1>7. ListInv'
    BY <1>1, <1>4, ListKept DEF EndInv
  <1>8. FinishInv'
    BY <1>1, <1>4, FinishKept DEF EndInv
  <1>9. PulledInv'
    <2>1. StreamItems' = StreamItems /\ TakenItems' = TakenItems
      BY <1>1 DEF StreamItems, TakenItems
    <2>2. ASSUME NEW r \in (1 .. started) \ open PROVE <<r, pos'[r] + 1>> \notin StreamItems
      <3>1. r # cur[w] /\ r \in Streams
        BY <1>3, CountFacts
      <3>2. pos'[r] = pos[r]
        BY <1>1, <1>2, <3>1
      <3>3. QED
        BY <3>2 DEF EndInv, PulledInv
    <2>3. ASSUME ~stopped, NEW e \in StreamItems, e[2] <= pos'[e[1]]
          PROVE  e \in TakenItems \/ InHand(e)'
      <3>1. e[1] \in Streams /\ e[2] \in Nat /\ e = <<e[1], e[2]>>
        BY ItemOrigins
      <3>2. CASE e[2] <= pos[e[1]]
        <4>1. e \in TakenItems \/ InHand(e)
          BY <2>3, <3>2 DEF EndInv, PulledInv
        <4>2. InHand(e) => InHand(e)'
          BY <1>1, <1>4 DEF InHand
        <4>3. QED
          BY <4>1, <4>2
      <3>3. CASE ~(e[2] <= pos[e[1]])
        <4>1. e[1] = cur[w]
          BY <1>1, <1>2, <2>3, <3>1, <3>3
        <4>2. e[2] = pos[cur[w]] + 1
          BY <1>1, <1>2, <2>3, <3>1, <3>3, <4>1
        <4>3. e = item'[w]
          BY <1>4, <3>1, <4>1, <4>2
        <4>4. QED
          BY <1>4, <4>3 DEF InHand
      <3>4. QED
        BY <3>2, <3>3
    <2>4. QED
      BY <1>1, <2>1, <2>2, <2>3 DEF PulledInv
  <1>10. QED
    BY <1>5, <1>6, <1>7, <1>8, <1>9 DEF EndInv

LEMMA PullEndEnd ==
  ASSUME InputTyped, NumberInv, EndInv, NEW w \in Workers, PullEnd(w)
  PROVE  EndInv'
  <1>0. PICK s \in Streams : s = cur[w]
    BY DEF PullEnd, NumberInv, HoldInv
  <1>1. /\ pc[w] = "pull" /\ ~done[s] /\ <<s, pos[s] + 1>> \notin StreamItems
        /\ done' = [done EXCEPT ![s] = TRUE] /\ open' = open \ {s}
        /\ pc' = [pc EXCEPT ![w] = "ended"]
        /\ UNCHANGED <<inp, started, ended, finished, pos, numberVars, cur, item, seen>>
    BY <1>0 DEF PullEnd, Goto
  <1>2. DOMAIN pc = Workers /\ DOMAIN done = Streams
    BY DEF InputTyped, InputTypeOK
  <1>3. s \in 1 .. started /\ s \in open
    <2>1. s \in 0 .. started
      BY <1>0 DEF InputTyped, InputTypeOK
    <2>2. s \in 1 .. started
      BY <2>1, CountFacts
    <2>3. QED
      BY <1>1, <2>2 DEF EndInv, OpenInv
  <1>4. /\ \A v \in Workers : v # w => pc'[v] = pc[v]
        /\ pc'[w] = "ended"
    BY <1>1, <1>2
  <1>5. Cardinality(open') = Cardinality(open) - 1
    BY <1>1, <1>3, CountFacts, FS_RemoveElement
  <1>6. OpenInv'
    <2>1. Cardinality(open') <= MaxOpen'
      <3>1. Cardinality(open) <= MaxOpen /\ MaxOpen' = MaxOpen
        BY <1>1 DEF EndInv, OpenInv, MaxOpen
      <3>2. QED
        BY <1>5, <3>1, CountFacts
    <2>2. \A r \in 1 .. started : ~done'[r] => r \in open'
      BY <1>1, <1>2, <1>3 DEF EndInv, OpenInv
    <2>3. ASSUME NEW v \in Workers, pc'[v] = "number" PROVE cur'[v] \in open'
      <3>1. v # w /\ pc[v] = "number"
        BY <1>4, <2>3
      <3>2. cur[v] # s
        BY <1>0, <1>1, <3>1 DEF NumberInv, HoldInv
      <3>3. QED
        BY <1>1, <3>1, <3>2 DEF EndInv, OpenInv
    <2>4. QED
      BY <1>1, <2>1, <2>2, <2>3 DEF OpenInv
  <1>7. CountInv'
    <2>1. Ending' = Ending \cup {w} /\ w \notin Ending
      BY <1>1, <1>4 DEF Ending
    <2>2. Cardinality(Ending') = Cardinality(Ending) + 1
      BY <2>1, CountFacts, FS_AddElement
    <2>3. ended + Cardinality(Ending) + Cardinality(open) = started
      BY DEF EndInv, CountInv
    <2>4. ended' + Cardinality(Ending') + Cardinality(open') = started'
      BY <1>1, <1>5, <2>2, <2>3, CountFacts
    <2>5. QED
      BY <2>4 DEF CountInv
  <1>8. ListInv'
    <2>1. \A v \in Workers : pc'[v] = "none" => stopped
      BY <1>3, <1>4 DEF EndInv, ListInv
    <2>2. QED
      BY <1>1, <2>1 DEF EndInv, ListInv, Total
  <1>9. PulledInv'
    <2>1. StreamItems' = StreamItems /\ TakenItems' = TakenItems
      BY <1>1 DEF StreamItems, TakenItems
    <2>2. \A r \in (1 .. started) \ open' : <<r, pos[r] + 1>> \notin StreamItems
      BY <1>1 DEF EndInv, PulledInv
    <2>3. \A e : InHand(e) => InHand(e)'
      BY <1>1, <1>4 DEF InHand
    <2>4. QED
      BY <1>1, <2>1, <2>2, <2>3 DEF EndInv, PulledInv
  <1>10. FinishInv'
    BY <1>1, <1>4, FinishKept DEF EndInv
  <1>11. QED
    BY <1>6, <1>7, <1>8, <1>9, <1>10 DEF EndInv

LEMMA StreamEndedEnd ==
  ASSUME InputTyped, EndInv, NEW w \in Workers, StreamEnded(w)
  PROVE  EndInv'
  <1>1. /\ pc[w] = "ended" /\ ended' = ended + 1 /\ pc' = [pc EXCEPT ![w] = "finish"]
        /\ UNCHANGED <<inp, started, finished, open, streamVars, numberVars, cur, item, seen>>
    BY DEF StreamEnded, Goto
  <1>2. DOMAIN pc = Workers
    BY DEF InputTyped, InputTypeOK
  <1>3. pc'[w] = "finish" /\ \A v \in Workers : v # w => pc'[v] = pc[v]
    BY <1>1, <1>2
  <1>4. OpenInv'
    BY <1>1, <1>3, OpenKept DEF EndInv
  <1>5. CountInv'
    <2>1. Ending' = Ending \ {w} /\ w \in Ending
      BY <1>1, <1>3 DEF Ending
    <2>2. Cardinality(Ending') = Cardinality(Ending) - 1
      BY <2>1, CountFacts, FS_RemoveElement
    <2>3. ended + Cardinality(Ending) + Cardinality(open) = started
      BY DEF EndInv, CountInv
    <2>4. ended' + Cardinality(Ending') + Cardinality(open') = started'
      BY <1>1, <2>2, <2>3, CountFacts
    <2>5. QED
      BY <2>4 DEF CountInv
  <1>6. ListInv'
    BY <1>1, <1>3, ListKept DEF EndInv
  <1>7. PulledInv'
    BY <1>1, <1>3, PulledKept DEF EndInv
  <1>8. FinishInv'
    <2>1. StreamItems' = StreamItems /\ TakenItems' = TakenItems /\ LastItem' = LastItem
      BY <1>1 DEF StreamItems, TakenItems, LastItem
    <2>2. At("finish")' /\ (At("number_last")' <=> At("number_last"))
      BY <1>1, <1>3 DEF At
    <2>3. LastItemAfterAll'
      BY <1>1, <2>1 DEF EndInv, FinishInv, LastItemAfterAll
    <2>4. QED
      BY <1>1, <2>1, <2>2, <2>3 DEF EndInv, FinishInv
  <1>9. QED
    BY <1>4, <1>5, <1>6, <1>7, <1>8 DEF EndInv

LEMMA OpenStreamEnd ==
  ASSUME InputTyped, EndInv, NEW w \in Workers, OpenStream(w)
  PROVE  EndInv'
  <1>1. /\ pc[w] = "open_next" /\ ~exhausted /\ Cardinality(open) < MaxOpen /\ started < Total
        /\ started' = started + 1 /\ open' = open \cup {started + 1}
        /\ pc' = [pc EXCEPT ![w] = "stopped"]
        /\ UNCHANGED <<inp, ended, finished, streamVars, numberVars, cur, item, seen>>
    BY DEF OpenStream, MayOpen, Goto
  <1>2. DOMAIN pc = Workers
    BY DEF InputTyped, InputTypeOK
  <1>3. pc'[w] = "stopped" /\ \A v \in Workers : v # w => pc'[v] = pc[v]
    BY <1>1, <1>2
  <1>4. Cardinality(open') = Cardinality(open) + 1
    <2>1. started + 1 \notin open
      BY CountFacts
    <2>2. QED
      BY <1>1, <2>1, CountFacts, FS_AddElement
  <1>5. \A s \in 1 .. started' : s \in 1 .. started \/ s = started + 1
    BY <1>1, CountFacts
  <1>6. OpenInv'
    <2>1. Cardinality(open') <= MaxOpen'
      <3>1. MaxOpen' = MaxOpen
        BY <1>1 DEF MaxOpen
      <3>2. QED
        BY <1>1, <1>4, <3>1, CountFacts
    <2>2. \A s \in 1 .. started' : ~done'[s] => s \in open'
      BY <1>1, <1>5 DEF EndInv, OpenInv
    <2>3. \A v \in Workers : pc'[v] = "number" => cur'[v] \in open'
      BY <1>1, <1>3 DEF EndInv, OpenInv
    <2>4. QED
      BY <2>1, <2>2, <2>3 DEF OpenInv
  <1>7. CountInv'
    <2>1. Ending' = Ending
      BY <1>1, <1>3 DEF Ending
    <2>2. ended + Cardinality(Ending) + Cardinality(open) = started
      BY DEF EndInv, CountInv
    <2>3. ended' + Cardinality(Ending') + Cardinality(open') = started'
      BY <1>1, <1>4, <2>1, <2>2, CountFacts
    <2>4. QED
      BY <2>3 DEF CountInv
  <1>8. ListInv'
    BY <1>1, <1>3 DEF EndInv, ListInv, Total
  <1>9. PulledInv'
    <2>1. StreamItems' = StreamItems /\ TakenItems' = TakenItems
      BY <1>1 DEF StreamItems, TakenItems
    <2>2. \A e : InHand(e) => InHand(e)'
      BY <1>1, <1>3 DEF InHand
    <2>3. \A s \in (1 .. started') \ open' : s \in (1 .. started) \ open
      BY <1>1, <1>5
    <2>4. QED
      BY <1>1, <2>1, <2>2, <2>3 DEF EndInv, PulledInv
  <1>10. FinishInv'
    <2>1. StreamItems' = StreamItems /\ TakenItems' = TakenItems /\ LastItem' = LastItem
      BY <1>1 DEF StreamItems, TakenItems, LastItem
    <2>2. At("number_last")' <=> At("number_last")
      BY <1>1, <1>3 DEF At
    <2>3. LastItemAfterAll'
      BY <1>1, <2>1 DEF EndInv, FinishInv, LastItemAfterAll
    <2>4. QED
      BY <1>1, <2>1, <2>2, <2>3 DEF EndInv, FinishInv
  <1>11. QED
    BY <1>6, <1>7, <1>8, <1>9, <1>10 DEF EndInv

LEMMA NoStreamLeftEnd ==
  ASSUME InputTyped, EndInv, NEW w \in Workers, NoStreamLeft(w)
  PROVE  EndInv'
  <1>1. /\ pc[w] = "open_next" /\ started = Total /\ exhausted' = TRUE /\ ~exhausted
        /\ pc' = [pc EXCEPT ![w] = "finish"]
        /\ UNCHANGED <<inp, started, ended, finished, open, streamVars, stopped, taken,
                       cur, item, seen>>
    BY DEF NoStreamLeft, MayOpen, Goto
  <1>2. DOMAIN pc = Workers
    BY DEF InputTyped, InputTypeOK
  <1>3. pc'[w] = "finish" /\ \A v \in Workers : v # w => pc'[v] = pc[v]
    BY <1>1, <1>2
  <1>4. OpenInv'
    BY <1>1, <1>3, OpenKept DEF EndInv
  <1>5. CountInv'
    BY <1>1, <1>3, CountKept DEF EndInv
  <1>6. ListInv'
    BY <1>1, <1>3 DEF EndInv, ListInv, Total
  <1>7. PulledInv'
    BY <1>1, <1>3, PulledKept DEF EndInv
  <1>8. FinishInv'
    <2>1. StreamItems' = StreamItems /\ TakenItems' = TakenItems /\ LastItem' = LastItem
      BY <1>1 DEF StreamItems, TakenItems, LastItem
    <2>2. At("finish")' /\ (At("number_last")' <=> At("number_last"))
      BY <1>1, <1>3 DEF At
    <2>3. LastItemAfterAll'
      BY <1>1, <2>1 DEF EndInv, FinishInv, LastItemAfterAll
    <2>4. QED
      BY <1>1, <2>1, <2>2, <2>3 DEF EndInv, FinishInv
  <1>9. QED
    BY <1>4, <1>5, <1>6, <1>7, <1>8 DEF EndInv

LEMMA ListPanicsEnd ==
  ASSUME InputTyped, EndInv, NEW w \in Workers, ListPanics(w)
  PROVE  EndInv'
  <1>1. /\ pc[w] = "open_next" /\ inp.listEnd = "panic"
        /\ pc' = [pc EXCEPT ![w] = "number_last"] /\ item' = [item EXCEPT ![w] = LastItem]
        /\ UNCHANGED <<inp, started, ended, finished, open, streamVars, numberVars, cur, seen>>
    BY DEF ListPanics, Goto
  <1>2. DOMAIN pc = Workers /\ DOMAIN item = Workers
    BY DEF InputTyped, InputTypeOK
  <1>3. /\ pc'[w] = "number_last"
        /\ \A v \in Workers : v # w => pc'[v] = pc[v] /\ item'[v] = item[v]
    BY <1>1, <1>2
  <1>4. OpenInv'
    BY <1>1, <1>3, OpenKept DEF EndInv
  <1>5. CountInv'
    BY <1>1, <1>3, CountKept DEF EndInv
  <1>6. ListInv'
    BY <1>1, <1>3, ListKept DEF EndInv
  <1>7. PulledInv'
    BY <1>1, <1>3, PulledKept DEF EndInv
  <1>8. FinishInv'
    <2>1. StreamItems' = StreamItems /\ TakenItems' = TakenItems /\ LastItem' = LastItem
      BY <1>1 DEF StreamItems, TakenItems, LastItem
    <2>2. At("number_last")' /\ (At("finish") => At("finish")')
      BY <1>1, <1>3 DEF At
    <2>3. LastItemAfterAll'
      BY <1>1, <2>1 DEF EndInv, FinishInv, LastItemAfterAll
    <2>4. QED
      BY <1>1, <2>1, <2>2, <2>3 DEF EndInv, FinishInv
  <1>9. QED
    BY <1>4, <1>5, <1>6, <1>7, <1>8 DEF EndInv

\* finish(): the last item is looked for when every stream has ended, and then all is taken.
LEMMA FinishEnd ==
  ASSUME InputTyped, NumberInv, EndInv, NEW w \in Workers, Finish(w)
  PROVE  EndInv'
  <1>1. /\ pc[w] = "finish" /\ (finished' <=> (finished \/ MayFinish))
        /\ UNCHANGED <<inp, started, ended, open, streamVars, numberVars, cur, seen>>
    BY DEF Finish, InputTyped, InputTypeOK, MayFinish
  <1>2. DOMAIN pc = Workers /\ DOMAIN item = Workers
    BY DEF InputTyped, InputTypeOK
  <1>3. \/ /\ MayFinish /\ inp.last # "none"
           /\ pc' = [pc EXCEPT ![w] = "number_last"] /\ item' = [item EXCEPT ![w] = LastItem]
        \/ /\ ~MayFinish \/ inp.last = "none"
           /\ pc' = [pc EXCEPT ![w] = "stopped"] /\ item' = item
    BY DEF Finish, Goto
  <1>4. /\ \A v \in Workers : v # w => pc'[v] = pc[v] /\ item'[v] = item[v]
        /\ pc'[w] \in {"number_last", "stopped"}
    BY <1>2, <1>3
  <1>5. OpenInv'
    BY <1>1, <1>4, OpenKept DEF EndInv
  <1>6. CountInv'
    BY <1>1, <1>4, CountKept DEF EndInv
  <1>7. ListInv'
    BY <1>1, <1>4, ListKept DEF EndInv
  <1>8. PulledInv'
    BY <1>1, <1>4, PulledKept DEF EndInv
  <1>9. MayFinish => StreamItems \subseteq TakenItems
    <2> SUFFICES ASSUME exhausted, ended >= started, ~stopped
                 PROVE  StreamItems \subseteq TakenItems
      BY DEF MayFinish
    <2>1. ended + Cardinality(Ending) + Cardinality(open) = started
      BY DEF EndInv, CountInv
    <2>2. Cardinality(open) = 0
      BY <2>1, CountFacts
    <2>3. open = {}
      BY <2>2, CountFacts, FS_EmptySet
    <2>4. started = Total
      BY DEF EndInv, ListInv
    <2>5. QED
      BY <2>3, <2>4, AllTaken
  <1>10. FinishInv'
    <2>1. StreamItems' = StreamItems /\ TakenItems' = TakenItems /\ LastItem' = LastItem
      BY <1>1 DEF StreamItems, TakenItems, LastItem
    <2>2. exhausted' /\ ended' >= started' /\ ~stopped' => finished'
      BY <1>1 DEF MayFinish
    <2>3. finished' /\ ~stopped' /\ inp'.last # "none" =>
              LastItem' \in TakenItems' \/ At("number_last")'
      <3>1. CASE MayFinish
        BY <1>1, <1>2, <1>3, <3>1 DEF At
      <3>2. CASE ~MayFinish
        <4>1. At("number_last") => At("number_last")'
          BY <1>1, <1>4 DEF At
        <4>2. QED
          BY <1>1, <2>1, <3>2, <4>1 DEF EndInv, FinishInv
      <3>3. QED
        BY <3>1, <3>2
    <2>4. At("number_last")' /\ ~stopped' /\ inp'.listEnd = "none" =>
              StreamItems' \subseteq TakenItems'
      <3>1. CASE MayFinish
        BY <1>9, <2>1, <3>1
      <3>2. CASE ~MayFinish
        <4>1. At("number_last")' => At("number_last")
          BY <1>1, <1>2, <1>3, <3>2 DEF At
        <4>2. QED
          BY <1>1, <2>1, <4>1 DEF EndInv, FinishInv
      <3>3. QED
        BY <3>1, <3>2
    <2>5. LastItemAfterAll'
      BY <1>1, <2>1 DEF EndInv, FinishInv, LastItemAfterAll
    <2>6. QED
      BY <2>2, <2>3, <2>4, <2>5 DEF FinishInv
  <1>11. QED
    BY <1>5, <1>6, <1>7, <1>8, <1>10 DEF EndInv

\* An item that comes after the stop is dropped.
LEMMA DroppedEnd ==
  ASSUME EndInv, NEW w \in Workers, stopped, DOMAIN pc = Workers,
         pc[w] \in {"number", "number_last"}, pc' = [pc EXCEPT ![w] = "stopped"],
         UNCHANGED <<inp, started, ended, finished, open, done, pos, exhausted, stopped, taken,
                     cur, seen>>
  PROVE  EndInv'
  <1>1. pc'[w] = "stopped" /\ \A v \in Workers : v # w => pc'[v] = pc[v]
    OBVIOUS
  <1>2. OpenInv'
    BY <1>1, OpenKept DEF EndInv
  <1>3. CountInv'
    BY <1>1, CountKept DEF EndInv
  <1>4. ListInv'
    BY <1>1, ListKept DEF EndInv
  <1>5. PulledInv'
    BY <1>1, PulledKept DEF EndInv
  <1>6. FinishInv'
    BY DEF EndInv, FinishInv, LastItemAfterAll, StreamItems, LastItem
  <1>7. QED
    BY <1>2, <1>3, <1>4, <1>5, <1>6 DEF EndInv

LEMMA NumberItemEnd ==
  ASSUME InputTyped, NumberInv, EndInv, NEW w \in Workers, NumberItem(w)
  PROVE  EndInv'
  <1>1. pc[w] = "number" /\ UNCHANGED <<inp, listVars, open, pos>>
    BY DEF NumberItem
  <1>2. CASE stopped
    <2>1. pc' = [pc EXCEPT ![w] = "stopped"] /\ UNCHANGED <<done, numberVars, localVars>>
      BY <1>2 DEF NumberItem, Goto
    <2>2. QED
      BY <1>1, <1>2, <2>1, DroppedEnd DEF InputTyped, InputTypeOK
  <1>3. CASE ~stopped
    <2>1. /\ Numbered(w, item[w], Ends(item[w]))
          /\ done' = [done EXCEPT ![cur[w]] = done[cur[w]] \/ Ends(item[w])]
      BY <1>3 DEF NumberItem
    <2>2. item[w] \in StreamItems
      BY <1>1 DEF NumberInv, HandInv
    <2>3. item[w] \in ItemType /\ item[w] # LastItem
      BY <2>2, ItemOrigins DEF ItemType
    <2>4. \A s \in Streams : done[s] => done'[s]
      BY <2>1 DEF InputTyped, InputTypeOK
    <2>5. QED
      BY <1>1, <1>3, <2>1, <2>3, <2>4, NumberedEnd
  <1>4. QED
    BY <1>2, <1>3

LEMMA NumberLastEnd ==
  ASSUME InputTyped, NumberInv, EndInv, NEW w \in Workers, NumberLast(w)
  PROVE  EndInv'
  <1>1. pc[w] = "number_last" /\ UNCHANGED <<inp, started, ended, finished, open, streamVars>>
    BY DEF NumberLast
  <1>2. CASE stopped
    <2>1. pc' = [pc EXCEPT ![w] = "stopped"] /\ UNCHANGED <<numberVars, localVars>>
      BY <1>2 DEF NumberLast, Goto
    <2>2. QED
      BY <1>1, <1>2, <2>1, DroppedEnd DEF InputTyped, InputTypeOK
  <1>3. CASE ~stopped
    <2>1. Numbered(w, item[w], Ends(item[w])) /\ item[w] = LastItem
      BY <1>1, <1>3 DEF NumberLast, NumberInv, HandInv
    <2>2. LastItem \in ItemType
      BY DEF ItemType
    <2>3. inp.listEnd = "none" => StreamItems \subseteq TakenItems
      BY <1>1, <1>3 DEF EndInv, FinishInv, At
    <2>4. QED
      BY <1>1, <1>3, <2>1, <2>2, <2>3, NumberedEnd
  <1>4. QED
    BY <1>2, <1>3

-----------------------------------------------------------------------------

LEMMA EndInit ==
  ASSUME InputInit, pc \in [Workers -> {"new", "idle"}]
  PROVE  EndInv
  <1> USE DEF InputInit
  <1>1. Cardinality({}) = 0
    BY FS_EmptySet
  <1>2. open = {} /\ Ending = {} /\ started = 0 /\ taken = <<>>
    BY DEF Ending
  <1>3. OpenInv
    <2>1. MaxOpen \in Nat
      BY InputAssumption DEF MaxOpen, InputType
    <2>2. QED
      BY <1>1, <1>2, <2>1 DEF OpenInv
  <1>4. CountInv
    BY <1>1, <1>2 DEF CountInv
  <1>5. ListInv
    BY DEF ListInv
  <1>6. PulledInv
    <2>1. InputTyped
      BY InputTypeInit DEF InputTyped, Points
    <2>2. \A e \in StreamItems : ~(e[2] <= pos[e[1]])
      <3> SUFFICES ASSUME NEW e \in StreamItems PROVE ~(e[2] <= pos[e[1]])
        OBVIOUS
      <3>1. e[1] \in Streams /\ e[2] \in Nat \ {0}
        BY <2>1, ItemOrigins
      <3>2. pos[e[1]] = 0
        BY <3>1
      <3>3. QED
        BY <3>1, <3>2
    <2>3. QED
      BY <1>2, <2>2 DEF PulledInv
  <1>7. FinishInv
    BY <1>2 DEF FinishInv, At, LastItemAfterAll
  <1>8. QED
    BY <1>3, <1>4, <1>5, <1>6, <1>7 DEF EndInv

LEMMA EndTake ==
  ASSUME InputTyped, NumberInv, EndInv, NEW w \in Workers, Take(w)
  PROVE  EndInv'
  <1>0. /\ DOMAIN pc = Workers /\ DOMAIN seen = Workers /\ DOMAIN item = Workers
        /\ DOMAIN cur = Workers /\ exhausted \in BOOLEAN
    BY DEF InputTyped, InputTypeOK
  <1>1. CASE PullDone(w) \/ OpenNotNeeded(w) \/ AllHeld(w)
    <2>1. /\ pc[w] \in {"pull", "open_next", "try"}
          /\ \E l \in {"stopped", "open_next", "help_again"} : pc' = [pc EXCEPT ![w] = l]
          /\ UNCHANGED <<inp, started, ended, finished, open, done, pos, exhausted, stopped, taken,
                         item, cur, seen>>
      <3>1. CASE AllHeld(w)
        BY <3>1 DEF AllHeld, Goto
      <3>2. CASE ~AllHeld(w)
        BY <1>1, <3>2 DEF PullDone, OpenNotNeeded, Goto
      <3>3. QED
        BY <3>1, <3>2
    <2>2. QED
      BY <1>0, <2>1, Quiet
  <1>2. CASE Help(w) \/ HelpAgain(w)
    BY <1>2, HelperEnd DEF Help, HelpAgain
  <1>3. CASE CheckStopped(w)
    <2>1. /\ pc[w] = "stopped"
          /\ \/ pc' = [pc EXCEPT ![w] = "none"] /\ stopped
             \/ pc' = [pc EXCEPT ![w] = "exhausted"]
          /\ seen' = [seen EXCEPT ![w] = FALSE] /\ cur' = [cur EXCEPT ![w] = 0]
          /\ UNCHANGED <<inp, started, ended, finished, open, done, pos, exhausted, stopped, taken,
                         item>>
      BY <1>3 DEF CheckStopped, ForgetLocals, Goto
    <2>2. QED
      BY <1>0, <2>1, Quiet
  <1>4. CASE ReadExhausted(w)
    <2>1. /\ pc[w] = "exhausted" /\ pc' = [pc EXCEPT ![w] = "open"]
          /\ seen' = [seen EXCEPT ![w] = exhausted]
          /\ UNCHANGED <<inp, started, ended, finished, open, done, pos, exhausted, stopped, taken,
                         item, cur>>
      BY <1>4 DEF ReadExhausted, Goto
    <2>2. QED
      BY <1>0, <2>1, Quiet
  <1>5. CASE CloneOpen(w)
    <2>1. /\ pc[w] = "open" /\ cur' = [cur EXCEPT ![w] = 0]
          /\ \/ pc' = [pc EXCEPT ![w] = "none"] /\ open = {} /\ seen[w]
             \/ \E l \in {"try", "open_next"} : pc' = [pc EXCEPT ![w] = l]
          /\ UNCHANGED <<inp, started, ended, finished, open, done, pos, exhausted, stopped, taken,
                         item, seen>>
      BY <1>5 DEF CloneOpen, Goto
    <2>2. seen[w] => exhausted
      BY DEF EndInv, ListInv
    <2>3. QED
      BY <1>0, <2>1, <2>2, Quiet
  <1>6. CASE TryLock(w) \/ BlockOnHead(w)
    <2>1. /\ pc[w] \in {"try", "block"}
          /\ pc' = [pc EXCEPT ![w] = "pull"] \/ pc' = pc
          /\ \E s : cur' = [cur EXCEPT ![w] = s]
          /\ UNCHANGED <<inp, started, ended, finished, open, done, pos, exhausted, stopped, taken,
                         item, seen>>
      BY <1>6 DEF TryLock, BlockOnHead, Goto
    <2>2. QED
      BY <1>0, <2>1, Quiet
  <1>7. QED
    BY <1>1, <1>2, <1>3, <1>4, <1>5, <1>6, PullItemEnd, PullEndEnd, NumberItemEnd, StreamEndedEnd,
       OpenStreamEnd, NoStreamLeftEnd, ListPanicsEnd, FinishEnd, NumberLastEnd
    DEF Take

\* A step outside of take() that leaves what take() works on alone.
LEMMA EndKept ==
  ASSUME EndInv,
         UNCHANGED <<inp, started, ended, finished, open, done, pos, exhausted, stopped, taken,
                     cur, seen>>,
         \A v \in Workers : pc'[v] = "none" => pc[v] = "none",
         \A v \in Workers : {pc[v], pc'[v]} \cap {"number", "ended", "finish", "number_last"} # {}
             => pc'[v] = pc[v] /\ item'[v] = item[v]
  PROVE  EndInv'
  <1>1. ASSUME NEW v \in Workers, NEW l \in {"number", "ended", "finish", "number_last"}
        PROVE  /\ pc'[v] = l <=> pc[v] = l
               /\ pc[v] = l => item'[v] = item[v]
    OBVIOUS
  <1>2. OpenInv'
    BY <1>1, OpenKept DEF EndInv
  <1>3. CountInv'
    BY <1>1, CountKept DEF EndInv
  <1>4. ListInv'
    BY ListKept DEF EndInv
  <1>5. PulledInv'
    BY <1>1, PulledKept DEF EndInv
  <1>6. FinishInv'
    BY <1>1, FinishKept DEF EndInv
  <1>7. QED
    BY <1>2, <1>3, <1>4, <1>5, <1>6 DEF EndInv

LEMMA EndStep == TypeOK /\ NumberInv /\ EndInv /\ [Next]_inputVars => EndInv'
  <1> SUFFICES ASSUME TypeOK, NumberInv, EndInv, [Next]_inputVars PROVE EndInv'
    OBVIOUS
  <1>1. InputTyped /\ DOMAIN pc = Workers
    BY DEF TypeOK, InputTyped, InputTypeOK, Points
  <1>2. ASSUME NEW w \in Workers, Call(w) \/ Use(w) PROVE EndInv'
    <2>1. /\ pc[w] \in {"idle", "got"}
          /\ \E l \in {"help", "idle"} : pc' = [pc EXCEPT ![w] = l]
          /\ item' = item \/ item' = [item EXCEPT ![w] = NoItem]
          /\ UNCHANGED <<inp, started, ended, finished, open, done, pos, exhausted, stopped, taken,
                         cur, seen>>
      BY <1>2 DEF Call, Use, Goto
    <2>2. QED
      BY <1>1, <2>1, EndKept
  <1>3. CASE UNCHANGED inputVars
    BY <1>3, EndKept DEF inputVars
  <1>4. QED
    BY <1>1, <1>2, <1>3, EndTake DEF Next, Finished

LEMMA EndInvariance == Spec => [](InputTyped /\ NumberInv /\ EndInv)
  <1>1. TypeOK => InputTyped
    BY DEF TypeOK, InputTyped, Points
  <1>2. Init => NumberInv /\ EndInv
    BY NumberInit, EndInit DEF Init
  <1>3. QED
    BY <1>1, <1>2, TypeInit, TypeStep, NumberStep, EndStep, PTL DEF Spec

(***************************************************************************)
(* At most max_open streams are opened and not ended, whatever workers     *)
(* race to open the next one: the condition read without the lock of the   *)
(* list is read again with it (Input::open_next).                          *)
(***************************************************************************)
THEOREM BoundedStreamsHolds == Spec => []BoundedStreams
  <1>1. InputTyped /\ EndInv => BoundedStreams
    <2> SUFFICES ASSUME InputTyped, EndInv PROVE BoundedStreams
      OBVIOUS
    <2>1. {s \in 1 .. started : ~done[s]} \subseteq open
      BY DEF EndInv, OpenInv
    <2>2. Cardinality({s \in 1 .. started : ~done[s]}) <= Cardinality(open)
      BY <2>1, CountFacts, FS_Subset
    <2>3. Cardinality({s \in 1 .. started : ~done[s]}) \in Nat
      BY <2>1, CountFacts, FS_Subset, FS_CardinalityType
    <2>4. Cardinality(open) <= MaxOpen
      BY DEF EndInv, OpenInv
    <2>5. QED
      BY <2>2, <2>3, <2>4, CountFacts DEF BoundedStreams
  <1>2. QED
    BY <1>1, EndInvariance, PTL

(***************************************************************************)
(* The last item of an input (Streams::finish) has its number after every  *)
(* item of every stream, although the worker that ends the last stream and *)
(* the one that finds the end of the list need not be the same, and        *)
(* `ended` is counted after the stream has left the list of open ones.     *)
(***************************************************************************)
THEOREM LastItemAfterAllHolds == Spec => []LastItemAfterAll
  <1>1. EndInv => LastItemAfterAll
    BY DEF EndInv, FinishInv
  <1>2. QED
    BY <1>1, EndInvariance, PTL

(***************************************************************************)
(* A worker gives up only when there is nothing left to pull, and when all *)
(* have, every item was numbered, the last one too: take()'s look at       *)
(* `exhausted` before its look at the open streams never misses one.       *)
(***************************************************************************)
THEOREM NoEarlyReturnHolds == Spec => []NoEarlyReturn
  <1>1. InputTyped /\ NumberInv /\ EndInv => NoEarlyReturn
    <2> SUFFICES ASSUME InputTyped, NumberInv, EndInv PROVE NoEarlyReturn
      OBVIOUS
    <2>1. ASSUME NEW w \in Workers, pc[w] = "none"
          PROVE  stopped \/ (exhausted /\ started = Total /\ open = {})
      BY <2>1 DEF EndInv, ListInv
    <2>2. ASSUME \A w \in Workers : pc[w] = "none", ~stopped
          PROVE  /\ StreamItems \subseteq TakenItems
                 /\ inp.last # "none" => LastItem \in TakenItems
      <3>1. exhausted /\ open = {}
        BY <2>1, <2>2, InputAssumption
      <3>2. StreamItems \subseteq TakenItems
        BY <2>1, <2>2, <3>1, AllTaken, InputAssumption
      <3>3. ended >= started
        <4>1. Ending = {}
          BY <2>2 DEF Ending
        <4>2. ended + Cardinality(Ending) + Cardinality(open) = started
          BY DEF EndInv, CountInv
        <4>3. QED
          BY <3>1, <4>1, <4>2, FS_EmptySet, CountFacts
      <3>4. ~At("finish") /\ ~At("number_last")
        BY <2>2 DEF At
      <3>5. QED
        BY <2>2, <3>1, <3>2, <3>3, <3>4 DEF EndInv, FinishInv
    <2>3. QED
      BY <2>1, <2>2 DEF NoEarlyReturn, TakenItems
  <1>2. QED
    BY <1>1, EndInvariance, PTL

-----------------------------------------------------------------------------
\* The parallel map.

USE DEF poolVars, consumerVars

(***************************************************************************)
(* The tickets: each is free, or held by a worker that takes an item, or   *)
(* stands for an item that is numbered and not handed on.                  *)
(***************************************************************************)
Taking == {w \in Workers : pc[w] \in TakePcs \cup {"none"}}

TicketInv == free + Cardinality(Taking) + Len(taken) = Tickets + Len(out)

(***************************************************************************)
(* What is known of the items numbered, whoever takes them.                *)
(***************************************************************************)
KindInv ==
    /\ stopped => taken # <<>> /\ Ends(taken[Len(taken)])
    /\ exhausted => stopped \/ inp.listEnd = "none"
    /\ \A k \in DOMAIN taken :
           /\ taken[k] = HelperPanic => HelperPanics
           /\ taken[k] = LastItem => HasLast(inp)
           /\ taken[k] \in StreamItems => \A p \in 1 .. taken[k][2] - 1 : ~Ends(<<taken[k][1], p>>)
    /\ At("number_last") => HasLast(inp)
    /\ ~stopped => \A s \in Streams :
           /\ \A p \in 1 .. pos[s] - 1 : ~Ends(<<s, p>>)
           /\ pos[s] > 0 /\ Ends(<<s, pos[s]>>) =>
                  done[s] \/ \E w \in Workers : pc[w] = "number" /\ cur[w] = s

SerialInv ==
    MaxOpen = 1 =>
        /\ At("number_last") /\ ~stopped => StreamItems \subseteq TakenItems
        /\ \A k \in DOMAIN taken : taken[k] # HelperPanic =>
               \A e \in StreamItems : Before(e, taken[k]) => \E m \in 1 .. k - 1 : taken[m] = e

(***************************************************************************)
(* Where the items are once they have a number: with the worker that took  *)
(* it, in the channel, waiting for those before it, or handed on.          *)
(***************************************************************************)
Got(k) == \E w \in Workers : pc[w] = "got" /\ seq[w] = k
Sent(k) == \E n \in DOMAIN results : results[n].seq = k
Pending(k) == \E r \in pending : r.seq = k
Out(k) == \E n \in DOMAIN out : out[n] = taken[k]

ItemInv ==
    /\ \A w \in Workers : pc[w] = "got" => seq[w] \in DOMAIN taken /\ item[w] = taken[seq[w]]
    /\ \A n \in DOMAIN results : results[n].item = taken[results[n].seq]
    /\ \A r \in pending : r.item = taken[r.seq]
    /\ \A n \in DOMAIN out : \E k \in DOMAIN taken : out[n] = taken[k]

OnceInv ==
    /\ \A w, v \in Workers : pc[w] = "got" /\ pc[v] = "got" /\ seq[w] = seq[v] => w = v
    /\ \A m, n \in DOMAIN results : results[m].seq = results[n].seq => m = n
    /\ \A k \in DOMAIN taken :
           /\ Got(k) => ~Sent(k) /\ ~Pending(k) /\ ~Out(k)
           /\ Sent(k) => ~Pending(k) /\ ~Out(k)
           /\ Pending(k) => ~Out(k)

AllInv == receiver => \A k \in DOMAIN taken : Got(k) \/ Sent(k) \/ Pending(k) \/ Out(k)

OutInv ==
    IF Ordered
    THEN Len(out) = next - 1 /\ \A n \in DOMAIN out : n \in DOMAIN taken /\ out[n] = taken[n]
    ELSE pending = {}

ExitInv ==
    /\ cpc \in {"start", "idle", "next", "notify"} <=> ~cancelled
    /\ ~cancelled => receiver
    /\ ~cancelled => \A w \in Workers : pc[w] \in {"none", "notify", "exit"} =>
                         stopped \/ (exhausted /\ open = {})

FlowInv == ItemInv /\ OnceInv /\ AllInv /\ OutInv

-----------------------------------------------------------------------------
(***************************************************************************)
(* The steps outside of take() leave what take() works on alone: a worker  *)
(* moves between the points outside of it or begins it.                    *)
(***************************************************************************)
Aside == UNCHANGED <<inp, listVars, open, streamVars, numberVars, help, localVars>>

Moves == {<<"new", "idle">>, <<"idle", "help">>, <<"idle", "wait">>, <<"idle", "exit">>,
          <<"wait", "idle">>, <<"got", "idle">>, <<"got", "exit">>, <<"none", "notify">>,
          <<"notify", "exit">>}

MovesAside ==
    /\ Aside
    /\ pc' \in [Workers -> Points]
    /\ \A v \in Workers : \/ pc'[v] = pc[v] /\ item'[v] = item[v] /\ seq'[v] = seq[v]
                          \/ <<pc[v], pc'[v]>> \in Moves
    /\ \/ item' = item /\ seq' = seq
       \/ \E w \in Workers : /\ item' = [item EXCEPT ![w] = NoItem]
                             /\ seq' = [seq EXCEPT ![w] = 0]

OtherWorker(w) == TakeTicket(w) \/ Send(w) \/ ReturnTicket(w) \/ NotifyAndEnd(w)
                      \/ SpuriousWake(w) \/ Spawn(w)

Consumer == SpawnFails \/ CallNext \/ Serve \/ Drop \/ DropReceiver \/ MapFinished

OtherStep == (\E w \in Workers : OtherWorker(w)) \/ Consumer \/ UNCHANGED mapVars

LEMMA MapSteps ==
  ASSUME [MapNext]_mapVars
  PROVE  (\E w \in Workers : MapTake(w)) \/ OtherStep
  BY DEF MapNext, Worker, OtherStep, OtherWorker, Consumer

LEMMA MapTyped == MapTypeOK => InputTyped
  BY DEF MapTypeOK, InputTyped, Points

LEMMA NotifyMoves ==
  ASSUME NEW p \in [Workers -> Points], NotifyOne(p),
         \A v \in Workers : pc[v] = "wait" => p[v] = "wait"
  PROVE  /\ pc' \in [Workers -> Points]
         /\ \A v \in Workers : pc'[v] = p[v] \/ (pc[v] = "wait" /\ pc'[v] = "idle")
  BY DEF NotifyOne, Waiting, Points, TakePcs

LEMMA CancelMoves ==
  ASSUME pc \in [Workers -> Points], Cancel
  PROVE  /\ pc' \in [Workers -> Points]
         /\ \A v \in Workers : pc'[v] = pc[v] \/ (pc[v] = "wait" /\ pc'[v] = "idle")
  BY DEF Cancel, Points, TakePcs

LEMMA OtherMoves ==
  ASSUME InputTyped, OtherStep
  PROVE  MovesAside
  <1>0. pc \in [Workers -> Points] /\ DOMAIN item = Workers /\ DOMAIN seq = Workers
    BY DEF InputTyped, InputTypeOK
  <1> USE DEF MovesAside, Aside, Moves
  <1>1. ASSUME NEW w \in Workers, TakeTicket(w) \/ ReturnTicket(w) \/ SpuriousWake(w) \/ Spawn(w)
        PROVE  /\ Aside /\ item' = item /\ seq' = seq
               /\ pc' \in [Workers -> Points]
               /\ \A v \in Workers : pc'[v] = pc[v] \/ <<pc[v], pc'[v]>> \in Moves
    BY <1>0, <1>1 DEF TakeTicket, ReturnTicket, SpuriousWake, Spawn, Goto, Points, TakePcs
  <1>2. ASSUME NEW w \in Workers, Send(w)
        PROVE  /\ Aside /\ item' = [item EXCEPT ![w] = NoItem] /\ seq' = [seq EXCEPT ![w] = 0]
               /\ pc[w] = "got" /\ \E l \in {"idle", "exit"} : pc' = [pc EXCEPT ![w] = l]
    BY <1>2 DEF Send, Goto
  <1>3. ASSUME NEW w \in Workers, NotifyAndEnd(w)
        PROVE  /\ Aside /\ item' = item /\ seq' = seq
               /\ pc' \in [Workers -> Points]
               /\ \A v \in Workers : pc'[v] = pc[v] \/ <<pc[v], pc'[v]>> \in Moves
    <2> DEFINE p == [pc EXCEPT ![w] = "exit"]
    <2>1. /\ Aside /\ item' = item /\ seq' = seq /\ pc[w] = "notify" /\ NotifyOne(p)
      BY <1>3 DEF NotifyAndEnd
    <2>2. /\ p \in [Workers -> Points]
          /\ \A v \in Workers : pc[v] = "wait" => p[v] = "wait"
      BY <1>0, <2>1 DEF Points, TakePcs
    <2>3. /\ pc' \in [Workers -> Points]
          /\ \A v \in Workers : pc'[v] = p[v] \/ (pc[v] = "wait" /\ pc'[v] = "idle")
      <3> HIDE DEF p
      <3>1. QED
        BY <2>1, <2>2, NotifyMoves
    <2>4. QED
      BY <1>0, <2>1, <2>3
  <1>4. ASSUME Consumer \/ UNCHANGED mapVars
        PROVE  /\ Aside /\ item' = item /\ seq' = seq
               /\ pc' \in [Workers -> Points]
               /\ \A v \in Workers : pc'[v] = pc[v] \/ <<pc[v], pc'[v]>> \in Moves
    <2>1. CASE SpawnFails \/ Drop
      BY <1>0, <2>1, CancelMoves DEF SpawnFails, Drop
    <2>2. CASE ConsumerNotify
      BY <1>0, <2>2, NotifyMoves DEF ConsumerNotify
    <2>3. CASE CallNext \/ NextPending \/ Receive \/ NextEnds \/ DropReceiver \/ MapFinished
      BY <1>0, <2>3 DEF CallNext, NextPending, Receive, NextEnds, DropReceiver, MapFinished,
                        inputVars, mapVars
    <2>4. QED
      BY <1>0, <1>4, <2>1, <2>2, <2>3 DEF Consumer, Serve, mapVars, inputVars
  <1>5. ASSUME NEW w \in Workers, OtherWorker(w)
        PROVE  MovesAside
    <2>1. CASE Send(w)
      BY <1>0, <1>2, <2>1 DEF Points, TakePcs
    <2>2. CASE ~Send(w)
      BY <1>0, <1>1, <1>3, <1>5, <2>2 DEF OtherWorker
    <2>3. QED
      BY <2>1, <2>2
  <1>6. QED
    BY <1>4, <1>5 DEF OtherStep

LEMMA TypeAside ==
  ASSUME InputTyped, MovesAside
  PROVE  InputTyped'
  <1>1. ItemType' = ItemType /\ Streams' = Streams /\ Total' = Total
    BY DEF MovesAside, Aside, ItemType, LastItem, StreamItems, Streams, Total
  <1>2. item' \in [Workers -> ItemType]
    BY DEF MovesAside, InputTyped, InputTypeOK, ItemType
  <1>3. Len(taken) \in Nat /\ seq \in [Workers -> 0 .. Len(taken)]
    BY DEF InputTyped, InputTypeOK
  <1>4. seq' \in [Workers -> 0 .. Len(taken)]
    BY <1>3 DEF MovesAside
  <1>5. QED
    BY <1>1, <1>2, <1>4 DEF MovesAside, Aside, InputTyped, InputTypeOK

LEMMA NumberAside ==
  ASSUME InputTyped, NumberInv, MovesAside
  PROVE  NumberInv'
  <1>1. ASSUME NEW v \in Workers, pc'[v] \in {"pull", "number", "finish", "number_last"}
        PROVE  pc'[v] = pc[v] /\ item'[v] = item[v]
    BY <1>1 DEF MovesAside, Moves
  <1>2. QED
    BY <1>1, NumberKept DEF MovesAside, Aside

LEMMA EndAside ==
  ASSUME InputTyped, EndInv, MovesAside
  PROVE  EndInv'
  <1>1. ASSUME NEW v \in Workers, pc'[v] = "none"
        PROVE  pc[v] = "none"
    BY <1>1 DEF MovesAside, Moves
  <1>2. ASSUME NEW v \in Workers,
               {pc[v], pc'[v]} \cap {"number", "ended", "finish", "number_last"} # {}
        PROVE  pc'[v] = pc[v] /\ item'[v] = item[v]
    BY <1>2 DEF MovesAside, Moves
  <1>3. QED
    BY <1>1, <1>2, EndKept DEF MovesAside, Aside

(***************************************************************************)
(* What a step of take() may do to what it shares with the map: at most    *)
(* give one item the next number, and hand it to its worker.               *)
(***************************************************************************)
TakesNothing(w) == taken' = taken /\ pc'[w] # "got" /\ stopped' = stopped

TakesItem(w) ==
    /\ ~stopped
    /\ \E i \in ItemType : taken' = Append(taken, i) /\ item'[w] = i
    /\ pc'[w] = "got" /\ seq'[w] = Len(taken) + 1

LEMMA TakeShared ==
  ASSUME InputTyped, NumberInv, NEW w \in Workers, Take(w)
  PROVE  /\ inp' = inp
         /\ \A v \in Workers : v # w => item'[v] = item[v] /\ seq'[v] = seq[v]
         /\ exhausted => exhausted' /\ open' \subseteq open
         /\ TakesNothing(w) \/ TakesItem(w)
  <1>0. /\ DOMAIN pc = Workers /\ DOMAIN item = Workers /\ DOMAIN seq = Workers
        /\ exhausted \in BOOLEAN /\ item[w] \in ItemType /\ HelperPanic \in ItemType
    BY DEF InputTyped, InputTypeOK, ItemType
  <1> USE DEF Goto, TakesNothing, TakesItem
  <1>1. ASSUME NEW i \in ItemType, NEW ends \in BOOLEAN, ~stopped, Numbered(w, i, ends)
        PROVE  /\ exhausted => exhausted'
               /\ \A v \in Workers : v # w => item'[v] = item[v] /\ seq'[v] = seq[v]
               /\ TakesItem(w)
    BY <1>0, <1>1 DEF Numbered
  <1>2. CASE Help(w) \/ HelpAgain(w)
    <2>1. CASE HelperFails(w) /\ ~stopped
      BY <1>0, <1>1, <1>2, <2>1 DEF Help, HelpAgain, CallHelper, HelperFails
    <2>2. CASE ~(HelperFails(w) /\ ~stopped)
      BY <1>0, <1>2, <2>2 DEF Help, HelpAgain, CallHelper, HelperFails
    <2>3. QED
      BY <2>1, <2>2
  <1>3. CASE CheckStopped(w) \/ ReadExhausted(w) \/ CloneOpen(w) \/ AllHeld(w)
    BY <1>0, <1>3 DEF CheckStopped, ReadExhausted, CloneOpen, AllHeld
  <1>4. CASE TryLock(w) \/ BlockOnHead(w)
    BY <1>0, <1>4 DEF TryLock, BlockOnHead
  <1>5. CASE PullDone(w) \/ PullItem(w) \/ PullEnd(w) \/ StreamEnded(w)
    BY <1>0, <1>5 DEF PullDone, PullItem, PullEnd, StreamEnded
  <1>6. CASE OpenNotNeeded(w) \/ OpenStream(w) \/ NoStreamLeft(w) \/ ListPanics(w)
    BY <1>0, <1>6 DEF OpenNotNeeded, OpenStream, NoStreamLeft, ListPanics, MayOpen
  <1>7. CASE Finish(w)
    BY <1>0, <1>7 DEF Finish
  <1>8. CASE NumberItem(w) \/ NumberLast(w)
    <2>1. CASE stopped
      BY <1>0, <1>8, <2>1 DEF NumberItem, NumberLast
    <2>2. CASE ~stopped
      <3>1. /\ Numbered(w, item[w], Ends(item[w])) /\ inp' = inp /\ open' = open
            /\ Ends(item[w]) \in BOOLEAN
        BY <1>8, <2>2 DEF NumberItem, NumberLast, Ends, EndsIn
      <3>2. QED
        BY <1>0, <1>1, <2>2, <3>1
    <2>3. QED
      BY <2>1, <2>2
  <1>9. QED
    BY <1>2, <1>3, <1>4, <1>5, <1>6, <1>7, <1>8 DEF Take

Results == [seq: 1 .. Len(taken), item: ItemType]

LEMMA MapTypeInit == MapInit => MapTypeOK
  <1> SUFFICES ASSUME MapInit PROVE MapTypeOK
    OBVIOUS
  <1>1. InputTypeOK
    BY InputTypeInit DEF MapInit
  <1>2. Cardinality(Workers) \in Nat /\ InFlight \in Nat
    BY InputAssumption, MapAssumption, FS_CardinalityType
  <1>3. free \in Nat
    BY <1>2 DEF MapInit, Tickets
  <1>4. pc \in [Workers -> Points]
    BY DEF MapInit, Points
  <1>5. results \in Seq([seq: 1 .. Len(taken), item: ItemType]) /\ out \in Seq(ItemType)
    BY EmptySeq DEF MapInit
  <1>6. pending = {} /\ cpc = "start" /\ next = 1
    BY DEF MapInit
  <1>7. cancelled \in BOOLEAN /\ receiver \in BOOLEAN
    BY DEF MapInit
  <1>8. \A S : {} \in SUBSET S
    OBVIOUS
  <1>9. pending \in SUBSET [seq: 1 .. Len(taken), item: ItemType]
    BY <1>6, <1>8
  <1>10. QED
    BY <1>1, <1>3, <1>4, <1>5, <1>6, <1>7, <1>9 DEF MapTypeOK, Points

LEMMA MapTypeTake ==
  ASSUME MapTypeOK, NumberInv, NEW w \in Workers, MapTake(w)
  PROVE  MapTypeOK'
  <1>1. InputTyped /\ Take(w) /\ UNCHANGED <<poolVars, consumerVars>>
    BY MapTyped DEF MapTake
  <1>2. InputTyped'
    BY <1>1, TakeTyped
  <1>3. inp' = inp /\ (TakesNothing(w) \/ TakesItem(w))
    BY <1>1, TakeShared
  <1>4. ItemType' = ItemType
    BY <1>3 DEF ItemType, LastItem, StreamItems
  <1>5. Len(taken) \in Nat /\ Len(taken') \in {Len(taken), Len(taken) + 1}
    BY <1>1, <1>3, AppendFacts DEF TakesNothing, TakesItem, InputTyped, InputTypeOK
  <1>6. Results \subseteq Results'
    BY <1>4, <1>5 DEF Results
  <1>7. results \in Seq(Results) /\ pending \in SUBSET Results
    BY DEF MapTypeOK, Results
  <1>8. results' \in Seq(Results') /\ pending' \in SUBSET Results'
    BY <1>1, <1>6, <1>7, SeqMonotonic
  <1>9. QED
    BY <1>1, <1>2, <1>4, <1>8 DEF MapTypeOK, InputTyped, Points, Results

LEMMA MapTypeOther ==
  ASSUME MapTypeOK, ItemInv, OtherStep
  PROVE  MapTypeOK'
  <1>1. MovesAside /\ InputTyped'
    BY MapTyped, OtherMoves, TypeAside
  <1>2. taken' = taken /\ ItemType' = ItemType
    BY <1>1 DEF MovesAside, Aside, ItemType, LastItem, StreamItems
  <1> DEFINE R == [seq: 1 .. Len(taken), item: ItemType]
             Cpcs == {"start", "idle", "next", "notify", "ended", "dropping", "dropped"}
  <1>3. /\ free \in Nat /\ cancelled \in BOOLEAN /\ receiver \in BOOLEAN
        /\ results \in Seq(R) /\ pending \in SUBSET R /\ out \in Seq(ItemType)
        /\ next \in Nat \ {0} /\ cpc \in Cpcs
        /\ item \in [Workers -> ItemType] /\ DOMAIN pc = Workers
    BY DEF MapTypeOK, InputTypeOK
  <1>4. SUFFICES /\ free' \in Nat /\ cancelled' \in BOOLEAN /\ receiver' \in BOOLEAN
                 /\ results' \in Seq(R) /\ pending' \in SUBSET R /\ out' \in Seq(ItemType)
                 /\ next' \in Nat \ {0} /\ cpc' \in Cpcs
    BY <1>1, <1>2 DEF MapTypeOK, InputTyped, Points
  <1>5. ASSUME NEW w \in Workers, OtherWorker(w)
        PROVE  <1>4!1
    <2>1. CASE Send(w)
      <3>1. pc[w] = "got" /\ UNCHANGED <<free, cancelled, receiver, consumerVars>>
        BY <2>1 DEF Send
      <3>2. [seq |-> seq[w], item |-> item[w]] \in R
        <4>1. seq[w] \in DOMAIN taken
          BY <3>1 DEF ItemInv
        <4>2. DOMAIN taken = 1 .. Len(taken)
          BY DEF MapTypeOK, InputTypeOK
        <4>3. QED
          BY <1>3, <4>1, <4>2
      <3>3. results' = results \/ results' = Append(results, [seq |-> seq[w], item |-> item[w]])
        BY <2>1 DEF Send
      <3> HIDE DEF R
      <3>4. results' \in Seq(R)
        BY <1>3, <3>2, <3>3, AppendProperties
      <3>5. QED
        BY <1>3, <3>1, <3>4
    <2>2. CASE ~Send(w)
      <3> HIDE DEF R, Cpcs
      <3>1. /\ UNCHANGED <<cancelled, results, receiver, pending, next, out>>
            /\ free' \in {free, free + 1} \/ (free > 0 /\ free' = free - 1)
            /\ cpc' = cpc \/ cpc' \in {"idle", "start"}
        BY <1>5, <2>2 DEF OtherWorker, TakeTicket, ReturnTicket, NotifyAndEnd, SpuriousWake, Spawn
      <3>2. free' \in Nat
        BY <1>3, <3>1
      <3>3. cpc' \in Cpcs
        BY <1>3, <3>1 DEF Cpcs
      <3>4. QED
        BY <1>3, <3>1, <3>2, <3>3
    <2>3. QED
      BY <2>1, <2>2
  <1>6. ASSUME Consumer \/ UNCHANGED mapVars
        PROVE  <1>4!1
    <2>1. CASE NextPending
      <3>1. PICK r \in Ready : pending' = pending \ {r} /\ HandOn(r.item)
        BY <2>1 DEF NextPending
      <3>2. r \in R
        BY <1>3 DEF Ready
      <3>3. r.item \in ItemType
        BY <3>2
      <3> HIDE DEF R
      <3>4. out' \in Seq(ItemType)
        BY <1>3, <3>1, <3>3 DEF HandOn
      <3>5. QED
        BY <1>3, <2>1, <3>1, <3>4 DEF NextPending, HandOn
    <2>2. CASE Receive
      <3>1. results # <<>> /\ results' = Tail(results) /\ UNCHANGED <<cancelled, receiver, next>>
        BY <2>2 DEF Receive
      <3>2. Head(results) \in R /\ results' \in Seq(R)
        <4> HIDE DEF R
        <4>1. QED
          BY <1>3, <3>1, HeadTailProperties
      <3>3. Head(results).item \in ItemType
        BY <3>2
      <3>4. \/ pending' = pending \cup {Head(results)} /\ UNCHANGED <<cpc, free, out>>
            \/ HandOn(Head(results).item) /\ UNCHANGED pending
        BY <2>2 DEF Receive
      <3> HIDE DEF R
      <3>5. pending' \in SUBSET R
        BY <1>3, <3>2, <3>4
      <3>6. out' \in Seq(ItemType)
        BY <1>3, <3>3, <3>4, AppendProperties DEF HandOn
      <3>7. free' \in Nat /\ cpc' \in Cpcs
        BY <1>3, <3>4 DEF HandOn
      <3>8. QED
        BY <1>3, <3>1, <3>2, <3>5, <3>6, <3>7
    <2>3. CASE SpawnFails \/ Drop \/ CallNext \/ ConsumerNotify \/ NextEnds \/ DropReceiver
      <3> HIDE DEF R
      <3>1. results' = results \/ results' = <<>>
        BY <2>3 DEF SpawnFails, Drop, CallNext, ConsumerNotify, NextEnds, DropReceiver
      <3>2. results' \in Seq(R)
        BY <1>3, <3>1, EmptySeq
      <3>3. QED
        BY <1>3, <2>3, <3>2
        DEF SpawnFails, Drop, CallNext, ConsumerNotify, NextEnds, DropReceiver, Cancel
    <2>4. CASE MapFinished \/ UNCHANGED mapVars
      BY <1>3, <2>4 DEF MapFinished, mapVars
    <2>5. QED
      BY <1>6, <2>1, <2>2, <2>3, <2>4 DEF Consumer, Serve
  <1>7. QED
    BY <1>5, <1>6 DEF OtherStep

-----------------------------------------------------------------------------
\* The tickets.

LEMMA TicketFacts ==
  ASSUME MapTypeOK
  PROVE  /\ IsFiniteSet(Taking) /\ Cardinality(Taking) \in Nat
         /\ \A w \in Workers \ Taking : Cardinality(Taking \cup {w}) = Cardinality(Taking) + 1
         /\ \A w \in Taking : Cardinality(Taking \ {w}) = Cardinality(Taking) - 1
         /\ free \in Nat /\ Len(taken) \in Nat /\ Len(out) \in Nat /\ Tickets \in Nat
  <1>1. IsFiniteSet(Taking)
    BY FS_Subset, InputAssumption DEF Taking
  <1>2. Cardinality(Workers) \in Nat
    BY FS_CardinalityType, InputAssumption
  <1>3. free \in Nat /\ Len(taken) \in Nat /\ Len(out) \in Nat
    BY DEF MapTypeOK, InputTypeOK
  <1>4. QED
    BY <1>1, <1>2, <1>3, MapAssumption, FS_CardinalityType, FS_AddElement, FS_RemoveElement
    DEF Tickets

LEMMA TicketTake ==
  ASSUME MapTypeOK, NumberInv, TicketInv, NEW w \in Workers, MapTake(w)
  PROVE  TicketInv'
  <1>1. InputTyped /\ Take(w) /\ UNCHANGED <<poolVars, consumerVars>>
    BY MapTyped DEF MapTake
  <1>2. /\ pc[w] \in TakePcs /\ pc'[w] \in TakePcs \cup {"got", "none"}
        /\ \A v \in Workers : v # w => pc'[v] = pc[v]
    BY <1>1, TakePc DEF InputTyped
  <1>3. w \in Taking /\ Tickets' = Tickets
    BY <1>2 DEF Taking, Tickets
  <1>4. CASE TakesNothing(w)
    <2>1. Taking' = Taking
      BY <1>2, <1>4 DEF TakesNothing, Taking
    <2>2. QED
      BY <1>1, <1>3, <1>4, <2>1 DEF TakesNothing, TicketInv
  <1>5. CASE TakesItem(w)
    <2>1. Taking' = Taking \ {w}
      BY <1>2, <1>5 DEF TakesItem, Taking, TakePcs
    <2>2. Len(taken') = Len(taken) + 1
      BY <1>1, <1>5, AppendFacts DEF TakesItem, InputTyped, InputTypeOK
    <2>3. Cardinality(Taking') = Cardinality(Taking) - 1
      BY <1>3, <2>1, TicketFacts
    <2>4. QED
      BY <1>1, <1>3, <2>2, <2>3, TicketFacts DEF TicketInv
  <1>6. QED
    BY <1>1, <1>4, <1>5, TakeShared

LEMMA TicketOther ==
  ASSUME MapTypeOK, TicketInv, OtherStep
  PROVE  TicketInv'
  <1>1. /\ InputTyped /\ taken' = taken /\ pc \in [Workers -> Points] /\ Tickets' = Tickets
        /\ \A v \in Workers : pc'[v] = pc[v] \/ <<pc[v], pc'[v]>> \in Moves
    BY MapTyped, OtherMoves DEF MovesAside, Aside, InputTyped, Tickets
  <1>2. ASSUME NEW w \in Workers, TakeTicket(w), free > 0, pc'[w] = "help"
        PROVE  TicketInv'
    <2>1. /\ pc[w] = "idle" /\ free' = free - 1 /\ out' = out
          /\ \A v \in Workers : v # w => pc'[v] = pc[v]
      BY <1>1, <1>2 DEF TakeTicket, Goto
    <2>2. Taking' = Taking \cup {w} /\ w \notin Taking
      BY <1>2, <2>1 DEF Taking, TakePcs
    <2>3. Cardinality(Taking') = Cardinality(Taking) + 1
      BY <2>2, TicketFacts
    <2>4. QED
      BY <1>1, <2>1, <2>3, TicketFacts DEF TicketInv
  <1>3. ASSUME NEW w \in Workers, ReturnTicket(w)
        PROVE  TicketInv'
    <2>1. /\ pc[w] = "none" /\ free' = free + 1 /\ out' = out /\ pc'[w] = "notify"
          /\ \A v \in Workers : v # w => pc'[v] = pc[v]
      BY <1>1, <1>3 DEF ReturnTicket, Goto
    <2>2. Taking' = Taking \ {w} /\ w \in Taking
      BY <2>1 DEF Taking, TakePcs
    <2>3. Cardinality(Taking') = Cardinality(Taking) - 1
      BY <2>2, TicketFacts
    <2>4. QED
      BY <1>1, <2>1, <2>3, TicketFacts DEF TicketInv
  <1>4. ASSUME \A v \in Workers : pc'[v] = pc[v] \/
                   <<pc[v], pc'[v]>> \in Moves \ {<<"idle", "help">>, <<"none", "notify">>}
        PROVE  Taking' = Taking
    BY <1>4 DEF Taking, TakePcs, Moves
  <1>5. ASSUME NEW w \in Workers,
               \/ Send(w) \/ NotifyAndEnd(w) \/ SpuriousWake(w) \/ Spawn(w)
               \/ TakeTicket(w) /\ ~(free > 0 /\ pc'[w] = "help")
        PROVE  TicketInv'
    <2>1. UNCHANGED <<free, out>>
      BY <1>1, <1>5 DEF Send, NotifyAndEnd, SpuriousWake, Spawn, TakeTicket, Goto
    <2>2. pc'[w] \in {"idle", "wait", "exit"} /\
              \A v \in Workers : v # w => pc'[v] \in {pc[v], "idle"}
      <3>1. CASE NotifyAndEnd(w)
        BY <1>1, <3>1 DEF NotifyAndEnd, NotifyOne
      <3>2. CASE ~NotifyAndEnd(w)
        BY <1>1, <1>5, <3>2 DEF Send, SpuriousWake, Spawn, TakeTicket, Goto
      <3>3. QED
        BY <3>1, <3>2
    <2>3. Taking' = Taking
      BY <1>1, <1>4, <2>2
    <2>4. QED
      BY <1>1, <2>1, <2>3 DEF TicketInv
  <1>6. ASSUME Consumer \/ UNCHANGED mapVars
        PROVE  TicketInv'
    <2>1. \A v \in Workers : pc'[v] \in {pc[v], "idle"}
      BY <1>1, <1>6 DEF Consumer, Serve, SpawnFails, CallNext, Drop, DropReceiver, MapFinished,
         NextPending, Receive, ConsumerNotify, NextEnds, Cancel, NotifyOne, mapVars, inputVars
    <2>2. Taking' = Taking
      BY <1>1, <1>4, <2>1
    <2>3. \/ UNCHANGED <<free, out>>
          \/ free' = free + 1 /\ \E i \in ItemType : out' = Append(out, i)
      <3>1. CASE NextPending
        <4>1. PICK r \in Ready : HandOn(r.item)
          BY <3>1 DEF NextPending
        <4>2. r.item \in ItemType
          BY DEF Ready, MapTypeOK
        <4>3. QED
          BY <4>1, <4>2 DEF HandOn
      <3>2. CASE Receive
        <4>1. results \in Seq(Results) /\ results # <<>>
          BY <3>2 DEF Receive, MapTypeOK, Results
        <4>2. Head(results) \in Results
          BY <4>1, HeadTailProperties
        <4>3. Head(results).item \in ItemType
          BY <4>2 DEF Results
        <4>4. QED
          BY <3>2, <4>3 DEF Receive, HandOn
      <3>3. CASE ~NextPending /\ ~Receive
        BY <1>6, <3>3 DEF Consumer, Serve, SpawnFails, CallNext, Drop, DropReceiver, MapFinished,
           ConsumerNotify, NextEnds, mapVars
      <3>4. QED
        BY <3>1, <3>2, <3>3
    <2>4. out \in Seq(ItemType)
      BY DEF MapTypeOK
    <2>5. \/ free' = free /\ Len(out') = Len(out)
          \/ free' = free + 1 /\ Len(out') = Len(out) + 1
      BY <2>3, <2>4, AppendProperties
    <2>6. free + Cardinality(Taking) + Len(taken) = Tickets + Len(out)
      BY DEF TicketInv
    <2>7. free' + Cardinality(Taking) + Len(taken) = Tickets + Len(out')
      BY <2>5, <2>6, TicketFacts
    <2>8. QED
      BY <1>1, <2>2, <2>7 DEF TicketInv
  <1>7. QED
    BY <1>2, <1>3, <1>5, <1>6 DEF OtherStep, OtherWorker

LEMMA TicketsBound ==
  ASSUME MapTypeOK, TicketInv
  PROVE  InFlightBound
  <1> DEFINE Holding == {w \in Workers : pc[w] \in {"number", "number_last"}}
  <1>1. Holding \subseteq Taking
    BY DEF Taking, TakePcs
  <1>2. Cardinality(Holding) <= Cardinality(Taking) /\ Cardinality(Holding) \in Nat
    BY <1>1, TicketFacts, FS_Subset, FS_CardinalityType
  <1>3. QED
    BY <1>2, TicketFacts DEF TicketInv, InFlightBound

-----------------------------------------------------------------------------
\* What is numbered: steps of take() that number nothing, and those that do.

LEMMA KindKept ==
  ASSUME KindInv, UNCHANGED <<inp, exhausted, stopped, taken, pos>>,
         stopped \/ \A s \in Streams : done[s] => done'[s],
         At("number_last")' => At("number_last") \/ HasLast(inp),
         stopped \/ \A v \in Workers : pc[v] = "number" => pc'[v] = "number" /\ cur'[v] = cur[v]
  PROVE  KindInv'
  <1>1. /\ StreamItems' = StreamItems /\ LastItem' = LastItem /\ Streams' = Streams
        /\ \A i : Ends(i)' = Ends(i)
    BY DEF StreamItems, LastItem, Streams, Ends
  <1>2. ASSUME ~stopped, NEW s \in Streams
        PROVE  /\ \A p \in 1 .. pos[s] - 1 : ~Ends(<<s, p>>)
               /\ pos[s] > 0 /\ Ends(<<s, pos[s]>>) =>
                      done'[s] \/ \E w \in Workers : pc'[w] = "number" /\ cur'[w] = s
    BY <1>2 DEF KindInv
  <1>3. QED
    BY <1>1, <1>2 DEF KindInv

LEMMA KindNumbered ==
  ASSUME InputTyped, KindInv, NEW w \in Workers, NEW i \in ItemType, ~stopped,
         Numbered(w, i, Ends(i)), UNCHANGED <<inp, pos>>,
         \A s \in Streams : done[s] => done'[s],
         i = HelperPanic => HelperPanics,
         i = LastItem => HasLast(inp),
         i \in StreamItems => \A p \in 1 .. i[2] - 1 : ~Ends(<<i[1], p>>),
         pc[w] = "number" => i = <<cur[w], pos[cur[w]]>>
  PROVE  KindInv'
  <1>1. /\ StreamItems' = StreamItems /\ LastItem' = LastItem /\ Streams' = Streams
        /\ \A e : Ends(e)' = Ends(e)
    BY DEF StreamItems, LastItem, Streams, Ends
  <1>2. /\ taken' = Append(taken, i) /\ (stopped' <=> Ends(i))
        /\ (exhausted' <=> exhausted \/ Ends(i))
        /\ taken \in Seq(ItemType)
    BY DEF Numbered, InputTyped, InputTypeOK
  <1>3. /\ pc'[w] = "got"
        /\ \A v \in Workers : v # w => pc'[v] = pc[v] /\ cur'[v] = cur[v]
    BY DEF Numbered, Goto, ForgetLocals, InputTyped, InputTypeOK
  <1>4. /\ Len(taken) \in Nat /\ Len(taken') = Len(taken) + 1
        /\ DOMAIN taken = 1 .. Len(taken) /\ DOMAIN taken' = 1 .. Len(taken) + 1
        /\ \A k \in 1 .. Len(taken) : taken'[k] = taken[k]
        /\ taken'[Len(taken) + 1] = i
    BY <1>2, AppendFacts
  <1>5. stopped' => taken' # <<>> /\ Ends(taken'[Len(taken')])
    BY <1>2, <1>4
  <1>6. exhausted' => stopped' \/ inp.listEnd = "none"
    BY <1>2 DEF KindInv
  <1>7. ASSUME NEW k \in DOMAIN taken'
        PROVE  /\ taken'[k] = HelperPanic => HelperPanics
               /\ taken'[k] = LastItem => HasLast(inp)
               /\ taken'[k] \in StreamItems =>
                      \A p \in 1 .. taken'[k][2] - 1 : ~Ends(<<taken'[k][1], p>>)
    <2>1. CASE k = Len(taken) + 1
      BY <1>4, <2>1
    <2>2. CASE k # Len(taken) + 1
      <3>1. k \in DOMAIN taken /\ taken'[k] = taken[k]
        BY <1>4, <2>2
      <3>2. QED
        BY <3>1 DEF KindInv
    <2>3. QED
      BY <2>1, <2>2
  <1>8. At("number_last")' => HasLast(inp)
    BY <1>3 DEF KindInv, At
  <1>9. ASSUME ~Ends(i), NEW s \in Streams
        PROVE  /\ \A p \in 1 .. pos[s] - 1 : ~Ends(<<s, p>>)
               /\ pos[s] > 0 /\ Ends(<<s, pos[s]>>) =>
                      done'[s] \/ \E v \in Workers : pc'[v] = "number" /\ cur'[v] = s
    <2>1. \A p \in 1 .. pos[s] - 1 : ~Ends(<<s, p>>)
      BY DEF KindInv
    <2>2. ASSUME pos[s] > 0, Ends(<<s, pos[s]>>)
          PROVE  done'[s] \/ \E v \in Workers : pc'[v] = "number" /\ cur'[v] = s
      <3>1. done[s] \/ \E v \in Workers : pc[v] = "number" /\ cur[v] = s
        BY <2>2 DEF KindInv
      <3>2. ~(pc[w] = "number" /\ cur[w] = s)
        BY <1>9, <2>2
      <3>3. QED
        BY <1>3, <3>1, <3>2
    <2>3. QED
      BY <2>1, <2>2
  <1>10. QED
    BY <1>1, <1>2, <1>5, <1>6, <1>7, <1>8, <1>9 DEF KindInv

LEMMA HelperKind ==
  ASSUME InputTyped, KindInv, NEW w \in Workers, NEW again, NEW nothing,
         {again, nothing} \subseteq {"help", "stopped", "block"},
         pc[w] \in {"help", "help_again"}, CallHelper(w, again, nothing)
  PROVE  KindInv'
  <1>1. UNCHANGED <<inp, listVars, open, streamVars>> /\ DOMAIN pc = Workers
    BY DEF CallHelper, InputTyped, InputTypeOK
  <1>2. CASE HelperFails(w) /\ HelperPanics /\ ~stopped
    <2>1. Ends(HelperPanic) = TRUE /\ HelperPanic \in ItemType /\ HelperPanic # LastItem
          /\ HelperPanic \notin StreamItems
      BY ItemOrigins DEF Ends, EndsIn, ItemType
    <2>2. Numbered(w, HelperPanic, Ends(HelperPanic))
      BY <1>2, <2>1 DEF HelperFails
    <2>3. QED
      BY <1>1, <1>2, <2>1, <2>2, KindNumbered
  <1>3. CASE ~(HelperFails(w) /\ HelperPanics /\ ~stopped)
    <2>1. /\ \E l \in {"help", "stopped", "block", "none"} : pc' = [pc EXCEPT ![w] = l]
          /\ UNCHANGED <<numberVars, localVars, handVars>>
      BY <1>3 DEF CallHelper, HelperFails, Goto
    <2>2. ~(At("number_last")' /\ ~At("number_last"))
      BY <1>1, <2>1 DEF At
    <2>3. QED
      BY <1>1, <2>1, <2>2, KindKept
  <1>4. QED
    BY <1>2, <1>3

LEMMA PullItemKind ==
  ASSUME InputTyped, NumberInv, KindInv, NEW w \in Workers, PullItem(w)
  PROVE  KindInv'
  <1> DEFINE s == cur[w]
             i == <<cur[w], pos[cur[w]] + 1>>
  <1>1. /\ pc[w] = "pull" /\ ~done[s] /\ i \in StreamItems
        /\ pos' = [pos EXCEPT ![s] = pos[s] + 1]
        /\ pc' = [pc EXCEPT ![w] = "number"]
        /\ UNCHANGED <<inp, numberVars, cur>>
        /\ \E b \in BOOLEAN : done' = [done EXCEPT ![s] = b]
    BY DEF PullItem, Goto
  <1>2. /\ DOMAIN pc = Workers /\ pos \in [Streams -> Nat] /\ DOMAIN done = Streams
        /\ s \in Streams /\ state[s] = w
    BY <1>1 DEF InputTyped, InputTypeOK, NumberInv, HoldInv
  <1>3. /\ StreamItems' = StreamItems /\ LastItem' = LastItem /\ Streams' = Streams
        /\ \A e : Ends(e)' = Ends(e)
    BY <1>1 DEF StreamItems, LastItem, Streams, Ends
  <1>4. At("number_last")' => At("number_last")
    BY <1>1, <1>2 DEF At
  <1>5. ASSUME ~stopped, NEW r \in Streams
        PROVE  /\ \A p \in 1 .. pos'[r] - 1 : ~Ends(<<r, p>>)
               /\ pos'[r] > 0 /\ Ends(<<r, pos'[r]>>) =>
                      done'[r] \/ \E v \in Workers : pc'[v] = "number" /\ cur'[v] = r
    <2>1. CASE r = s
      <3>1. pos'[s] = pos[s] + 1 /\ pos[s] \in Nat
        BY <1>1, <1>2
      <3>2. ~\E v \in Workers : pc[v] = "number" /\ cur[v] = s
        BY <1>1, <1>2 DEF NumberInv, HoldInv
      <3>3. ~(pos[s] > 0 /\ Ends(<<s, pos[s]>>))
        BY <1>1, <1>2, <1>5, <3>2 DEF KindInv
      <3>4. \A p \in 1 .. pos[s] - 1 : ~Ends(<<s, p>>)
        BY <1>2, <1>5 DEF KindInv
      <3>5. \A p \in 1 .. pos[s] : p \in 1 .. pos[s] - 1 \/ (p = pos[s] /\ pos[s] > 0)
        BY <3>1
      <3>6. \A p \in 1 .. pos'[s] - 1 : ~Ends(<<s, p>>)
        BY <3>1, <3>3, <3>4, <3>5
      <3>7. pc'[w] = "number" /\ cur'[w] = s
        BY <1>1, <1>2
      <3>8. QED
        BY <2>1, <3>6, <3>7
    <2>2. CASE r # s
      <3>1. pos'[r] = pos[r] /\ (done'[r] <=> done[r])
        BY <1>1, <1>2, <2>2
      <3>2. \A v \in Workers : pc[v] = "number" => pc'[v] = "number" /\ cur'[v] = cur[v]
        BY <1>1, <1>2
      <3>3. QED
        BY <1>5, <3>1, <3>2 DEF KindInv
    <2>3. QED
      BY <2>1, <2>2
  <1>6. QED
    BY <1>1, <1>3, <1>4, <1>5 DEF KindInv

LEMMA NumberItemKind ==
  ASSUME InputTyped, NumberInv, KindInv, NEW w \in Workers, NumberItem(w)
  PROVE  KindInv'
  <1>1. /\ pc[w] = "number" /\ UNCHANGED <<inp, listVars, open, pos>>
        /\ DOMAIN pc = Workers /\ done \in [Streams -> BOOLEAN] /\ DOMAIN cur = Workers
    BY DEF NumberItem, InputTyped, InputTypeOK
  <1>2. CASE stopped
    <2>1. pc' = [pc EXCEPT ![w] = "stopped"] /\ UNCHANGED <<done, numberVars, localVars>>
      BY <1>2 DEF NumberItem, Goto
    <2>2. At("number_last")' => At("number_last")
      BY <1>1, <2>1 DEF At
    <2>3. QED
      BY <1>1, <1>2, <2>1, <2>2, KindKept
  <1>3. CASE ~stopped
    <2> DEFINE i == item[w]
    <2>1. /\ Numbered(w, i, Ends(i))
          /\ done' = [done EXCEPT ![cur[w]] = done[cur[w]] \/ Ends(i)]
      BY <1>3 DEF NumberItem
    <2>2. /\ i \in StreamItems /\ i = <<cur[w], pos[cur[w]]>> /\ cur[w] \in Streams
      BY <1>1 DEF NumberInv, HandInv, HoldInv
    <2>3. i \in ItemType /\ i # LastItem /\ i # HelperPanic
      BY <2>2, ItemOrigins DEF ItemType
    <2>4. \A s \in Streams : done[s] => done'[s]
      BY <1>1, <2>1
    <2>5. \A p \in 1 .. i[2] - 1 : ~Ends(<<i[1], p>>)
      BY <1>3, <2>2 DEF KindInv
    <2> HIDE DEF i
    <2>6. QED
      BY <1>1, <1>3, <2>1, <2>2, <2>3, <2>4, <2>5, KindNumbered
  <1>4. QED
    BY <1>2, <1>3

LEMMA NumberLastKind ==
  ASSUME InputTyped, NumberInv, KindInv, NEW w \in Workers, NumberLast(w)
  PROVE  KindInv'
  <1>1. /\ pc[w] = "number_last" /\ UNCHANGED <<inp, started, ended, finished, open, streamVars>>
        /\ DOMAIN pc = Workers
    BY DEF NumberLast, InputTyped, InputTypeOK
  <1>2. CASE stopped
    <2>1. pc' = [pc EXCEPT ![w] = "stopped"] /\ UNCHANGED <<numberVars, localVars>>
      BY <1>2 DEF NumberLast, Goto
    <2>2. At("number_last")' => At("number_last")
      BY <1>1, <2>1 DEF At
    <2>3. QED
      BY <1>1, <1>2, <2>1, <2>2, KindKept
  <1>3. CASE ~stopped
    <2>1. Numbered(w, item[w], Ends(item[w])) /\ item[w] = LastItem
      BY <1>1, <1>3 DEF NumberLast, NumberInv, HandInv
    <2>2. /\ LastItem \in ItemType /\ LastItem \notin StreamItems /\ LastItem # HelperPanic
      BY ItemOrigins DEF ItemType
    <2>3. HasLast(inp)
      BY <1>1 DEF KindInv, At
    <2>4. QED
      BY <1>1, <1>3, <2>1, <2>2, <2>3, KindNumbered
  <1>4. QED
    BY <1>2, <1>3

LEMMA KindTake ==
  ASSUME InputTyped, NumberInv, KindInv, NEW w \in Workers, Take(w)
  PROVE  KindInv'
  <1>0. /\ DOMAIN pc = Workers /\ DOMAIN cur = Workers /\ done \in [Streams -> BOOLEAN]
    BY DEF InputTyped, InputTypeOK
  <1>1. \A v \in Workers : v # w => pc'[v] = pc[v]
    BY <1>0, TakePc
  <1>2. ASSUME pc[w] # "number", UNCHANGED <<inp, exhausted, stopped, taken, pos>>,
               \A s \in Streams : done[s] => done'[s],
               pc'[w] = "number_last" => HasLast(inp),
               \A v \in Workers : v # w => cur'[v] = cur[v]
        PROVE  KindInv'
    <2>1. At("number_last")' => At("number_last") \/ HasLast(inp)
      BY <1>1, <1>2 DEF At
    <2>2. QED
      BY <1>1, <1>2, <2>1, KindKept
  <1> USE DEF Goto, ForgetLocals
  <1>3. CASE Help(w) \/ HelpAgain(w)
    BY <1>3, HelperKind DEF Help, HelpAgain
  <1>4. CASE CheckStopped(w) \/ ReadExhausted(w) \/ CloneOpen(w) \/ AllHeld(w)
    BY <1>0, <1>2, <1>4 DEF CheckStopped, ReadExhausted, CloneOpen, AllHeld
  <1>5. CASE TryLock(w) \/ BlockOnHead(w)
    BY <1>0, <1>2, <1>5 DEF TryLock, BlockOnHead
  <1>6. CASE PullDone(w) \/ StreamEnded(w) \/ OpenNotNeeded(w) \/ OpenStream(w)
    BY <1>0, <1>2, <1>6 DEF PullDone, StreamEnded, OpenNotNeeded, OpenStream
  <1>7. CASE PullEnd(w)
    <2>1. /\ pc[w] = "pull" /\ pc' = [pc EXCEPT ![w] = "ended"]
          /\ done' = [done EXCEPT ![cur[w]] = TRUE]
          /\ UNCHANGED <<inp, numberVars, pos, cur>>
      BY <1>7 DEF PullEnd
    <2>2. \A s \in Streams : done[s] => done'[s]
      BY <1>0, <2>1
    <2>3. QED
      BY <1>0, <1>2, <2>1, <2>2
  <1>8. CASE ListPanics(w)
    BY <1>0, <1>2, <1>8 DEF ListPanics, HasLast
  <1>9. CASE Finish(w)
    BY <1>0, <1>2, <1>9 DEF Finish, HasLast
  <1>10. CASE NoStreamLeft(w)
    <2>1. /\ pc[w] = "open_next" /\ pc' = [pc EXCEPT ![w] = "finish"] /\ inp.listEnd = "none"
          /\ UNCHANGED <<inp, stopped, taken, streamVars, cur>>
      BY <1>10 DEF NoStreamLeft
    <2>2. /\ StreamItems' = StreamItems /\ LastItem' = LastItem /\ Streams' = Streams
          /\ \A e : Ends(e)' = Ends(e)
      BY <2>1 DEF StreamItems, LastItem, Streams, Ends
    <2>3. \A v \in Workers : /\ pc'[v] = "number" <=> pc[v] = "number"
                             /\ pc'[v] = "number_last" <=> pc[v] = "number_last"
      BY <1>0, <2>1
    <2>4. QED
      BY <2>1, <2>2, <2>3 DEF KindInv, At
  <1>11. QED
    BY <1>3, <1>4, <1>5, <1>6, <1>7, <1>8, <1>9, <1>10, PullItemKind, NumberItemKind,
       NumberLastKind
    DEF Take

LEMMA KindAside ==
  ASSUME InputTyped, KindInv, MovesAside
  PROVE  KindInv'
  <1>1. \A v \in Workers : /\ pc'[v] = "number" <=> pc[v] = "number"
                           /\ pc'[v] = "number_last" <=> pc[v] = "number_last"
    BY DEF MovesAside, Moves
  <1>2. At("number_last")' <=> At("number_last")
    BY <1>1 DEF At
  <1>3. QED
    BY <1>1, <1>2, KindKept DEF MovesAside, Aside

LEMMA KindInit ==
  ASSUME InputInit, pc \in [Workers -> {"new", "idle"}]
  PROVE  KindInv
  BY DEF KindInv, InputInit, At

-----------------------------------------------------------------------------
(***************************************************************************)
(* With one stream open at a time, items are numbered in the order of the  *)
(* input.                                                                  *)
(***************************************************************************)
LEMMA Early ==
  ASSUME InputTyped, NumberInv, EndInv, MaxOpen = 1, ~stopped,
         NEW w \in Workers, pc[w] = "number",
         NEW e \in StreamItems, Before(e, item[w])
  PROVE  e \in TakenItems
  <1> DEFINE s == cur[w]
  <1>1. item[w] = <<s, pos[s]>> /\ s \in Streams /\ state[s] = w /\ s \in open /\ pos[s] \in Nat
    BY DEF NumberInv, HandInv, HoldInv, EndInv, OpenInv, InputTyped, InputTypeOK
  <1>2. /\ e[1] \in Streams /\ e[2] \in Nat \ {0} /\ e = <<e[1], e[2]>>
        /\ Streams = 1 .. Total /\ Total \in Nat
    BY ItemOrigins
  <1>3. e[1] < s \/ (e[1] = s /\ e[2] < pos[s])
    BY <1>1 DEF Before
  <1>4. \A r \in open : r = s
    <2>1. Cardinality(open) <= 1 /\ IsFiniteSet(open) /\ Cardinality(open) \in Nat
      BY CountFacts DEF EndInv, OpenInv
    <2>2. Cardinality(open \ {s}) = Cardinality(open) - 1
      BY <1>1, <2>1, FS_RemoveElement
    <2>3. IsFiniteSet(open \ {s}) /\ Cardinality(open \ {s}) \in Nat
      BY <2>1, FS_Subset, FS_CardinalityType
    <2>4. Cardinality(open \ {s}) = 0
      BY <2>1, <2>2, <2>3
    <2>5. open \ {s} = {}
      BY <2>3, <2>4, FS_EmptySet
    <2>6. QED
      BY <2>5
  <1>5. e[2] <= pos[e[1]]
    <2>1. CASE e[1] < s
      <3>1. s \in 1 .. started /\ started \in Nat
        BY <1>1, CountFacts
      <3>2. e[1] \in (1 .. started) \ open
        BY <1>1, <1>2, <1>4, <2>1, <3>1
      <3>3. QED
        BY <3>2, AllPulled
    <2>2. CASE e[1] = s /\ e[2] < pos[s]
      BY <1>1, <1>2, <2>2
    <2>3. QED
      BY <1>3, <2>1, <2>2
  <1>6. e \in TakenItems \/ InHand(e)
    BY <1>5 DEF EndInv, PulledInv
  <1>7. ASSUME NEW v \in Workers, pc[v] = "number", item[v] = e PROVE FALSE
    <2>1. cur[v] \in open /\ item[v] = <<cur[v], pos[cur[v]]>> /\ state[cur[v]] = v
      BY <1>7 DEF NumberInv, HandInv, HoldInv, EndInv, OpenInv
    <2>2. cur[v] = s
      BY <1>4, <2>1
    <2>3. e = <<s, pos[s]>>
      BY <1>7, <2>1, <2>2
    <2>4. QED
      BY <1>1, <1>2, <1>3, <2>3
  <1>8. QED
    BY <1>6, <1>7 DEF InHand

LEMMA SerialKept ==
  ASSUME SerialInv, UNCHANGED <<inp, stopped, taken>>,
         MaxOpen = 1 /\ At("number_last")' /\ ~stopped =>
             At("number_last") \/ StreamItems \subseteq TakenItems
  PROVE  SerialInv'
  <1>1. /\ StreamItems' = StreamItems /\ MaxOpen' = MaxOpen /\ TakenItems' = TakenItems
    BY DEF StreamItems, MaxOpen, TakenItems
  <1>2. QED
    BY <1>1 DEF SerialInv

LEMMA SerialNumbered ==
  ASSUME InputTyped, SerialInv, NEW w \in Workers, NEW i \in ItemType, ~stopped,
         Numbered(w, i, Ends(i)), inp' = inp,
         MaxOpen = 1 /\ i # HelperPanic => \A e \in StreamItems : Before(e, i) => e \in TakenItems
  PROVE  SerialInv'
  <1>1. /\ StreamItems' = StreamItems /\ MaxOpen' = MaxOpen
    BY DEF StreamItems, MaxOpen
  <1>2. taken' = Append(taken, i) /\ taken \in Seq(ItemType)
    BY DEF Numbered, InputTyped, InputTypeOK
  <1>3. At("number_last")' => At("number_last")
    BY DEF At, Numbered, Goto, InputTyped, InputTypeOK
  <1>4. /\ Len(taken) \in Nat /\ Len(taken') = Len(taken) + 1
        /\ DOMAIN taken = 1 .. Len(taken) /\ DOMAIN taken' = 1 .. Len(taken) + 1
        /\ \A k \in 1 .. Len(taken) : taken'[k] = taken[k]
        /\ taken'[Len(taken) + 1] = i
    BY <1>2, AppendFacts
  <1>5. TakenItems \subseteq TakenItems'
    BY <1>4 DEF TakenItems
  <1>6. ASSUME MaxOpen = 1, NEW k \in DOMAIN taken', taken'[k] # HelperPanic,
               NEW e \in StreamItems, Before(e, taken'[k])
        PROVE  \E m \in 1 .. k - 1 : taken'[m] = e
    <2>1. CASE k = Len(taken) + 1
      <3>1. e \in TakenItems
        BY <1>4, <1>6, <2>1
      <3>2. PICK m \in DOMAIN taken : taken[m] = e
        BY <3>1 DEF TakenItems
      <3>3. m \in 1 .. k - 1 /\ taken'[m] = e
        BY <1>4, <2>1, <3>2
      <3>4. QED
        BY <3>3
    <2>2. CASE k # Len(taken) + 1
      <3>1. k \in DOMAIN taken /\ taken'[k] = taken[k]
        BY <1>4, <2>2
      <3>2. PICK m \in 1 .. k - 1 : taken[m] = e
        BY <1>6, <3>1 DEF SerialInv
      <3>3. taken'[m] = e
        BY <1>4, <3>1, <3>2
      <3>4. QED
        BY <3>3
    <2>3. QED
      BY <2>1, <2>2
  <1>7. MaxOpen = 1 /\ At("number_last")' /\ ~stopped' => StreamItems \subseteq TakenItems'
    BY <1>3, <1>5 DEF SerialInv
  <1>8. QED
    BY <1>1, <1>6, <1>7 DEF SerialInv

LEMMA SerialTake ==
  ASSUME InputTyped, NumberInv, EndInv, KindInv, SerialInv, NEW w \in Workers, Take(w)
  PROVE  SerialInv'
  <1>0. /\ DOMAIN pc = Workers
    BY DEF InputTyped, InputTypeOK
  <1>1. \A v \in Workers : v # w => pc'[v] = pc[v]
    BY <1>0, TakePc
  <1>2. ASSUME UNCHANGED <<inp, stopped, taken>>,
               MaxOpen = 1 /\ pc'[w] = "number_last" /\ ~stopped => StreamItems \subseteq TakenItems
        PROVE  SerialInv'
    <2>1. MaxOpen = 1 /\ At("number_last")' /\ ~stopped =>
              At("number_last") \/ StreamItems \subseteq TakenItems
      BY <1>1, <1>2 DEF At
    <2>2. QED
      BY <1>2, <2>1, SerialKept
  <1>3. ASSUME Help(w) \/ HelpAgain(w) PROVE SerialInv'
    <2>1. CASE HelperFails(w) /\ ~stopped
      <3>1. Ends(HelperPanic) = TRUE /\ HelperPanic \in ItemType
        BY DEF Ends, EndsIn, ItemType
      <3>2. Numbered(w, HelperPanic, Ends(HelperPanic)) /\ inp' = inp
        BY <1>3, <2>1, <3>1 DEF HelperFails, Help, HelpAgain, CallHelper
      <3>3. QED
        BY <2>1, <3>1, <3>2, SerialNumbered
    <2>2. CASE ~(HelperFails(w) /\ ~stopped)
      <3>1. /\ UNCHANGED <<inp, stopped, taken>>
            /\ \E l \in {"help", "stopped", "block", "none"} : pc' = [pc EXCEPT ![w] = l]
        BY <1>3, <2>2 DEF HelperFails, Help, HelpAgain, CallHelper, Goto
      <3>2. QED
        BY <1>0, <1>2, <3>1
    <2>3. QED
      BY <2>1, <2>2
  <1> USE DEF Goto
  <1>4. CASE CheckStopped(w) \/ ReadExhausted(w) \/ CloneOpen(w) \/ AllHeld(w)
    BY <1>0, <1>2, <1>4 DEF CheckStopped, ReadExhausted, CloneOpen, AllHeld
  <1>5. CASE TryLock(w) \/ BlockOnHead(w)
    BY <1>0, <1>2, <1>5 DEF TryLock, BlockOnHead
  <1>6. CASE PullDone(w) \/ PullItem(w) \/ PullEnd(w) \/ StreamEnded(w)
    BY <1>0, <1>2, <1>6 DEF PullDone, PullItem, PullEnd, StreamEnded
  <1>7. CASE OpenNotNeeded(w) \/ OpenStream(w) \/ NoStreamLeft(w)
    BY <1>0, <1>2, <1>7 DEF OpenNotNeeded, OpenStream, NoStreamLeft
  <1>8. CASE ListPanics(w)
    <2>1. started = Total /\ Cardinality(open) < MaxOpen /\ UNCHANGED <<inp, stopped, taken>>
      BY <1>8 DEF ListPanics, MayOpen
    <2>2. ASSUME MaxOpen = 1, ~stopped PROVE StreamItems \subseteq TakenItems
      <3>1. Cardinality(open) = 0
        BY <2>1, <2>2, CountFacts
      <3>2. open = {}
        BY <3>1, CountFacts, FS_EmptySet
      <3>3. QED
        BY <2>1, <2>2, <3>2, AllTaken
    <2>3. QED
      BY <1>2, <2>1, <2>2
  <1>9. CASE Finish(w)
    <2>1. UNCHANGED <<inp, stopped, taken>> /\ (pc'[w] = "number_last" => MayFinish)
      BY <1>0, <1>9 DEF Finish
    <2>2. ASSUME pc'[w] = "number_last", ~stopped PROVE StreamItems \subseteq TakenItems
      <3>1. inp.listEnd = "none"
        BY <2>1, <2>2 DEF MayFinish, KindInv
      <3>2. EndInv'
        BY <1>9, FinishEnd
      <3>3. At("number_last")' /\ ~stopped' /\ inp'.listEnd = "none"
        BY <2>1, <2>2, <3>1 DEF At
      <3>4. (StreamItems \subseteq TakenItems)'
        BY <3>2, <3>3 DEF EndInv, FinishInv
      <3>5. QED
        BY <2>1, <3>4 DEF StreamItems, TakenItems
    <2>3. QED
      BY <1>2, <2>1, <2>2
  <1>10. CASE NumberItem(w)
    <2>1. CASE stopped
      BY <1>0, <1>2, <1>10, <2>1 DEF NumberItem
    <2>2. CASE ~stopped
      <3>1. pc[w] = "number" /\ Numbered(w, item[w], Ends(item[w])) /\ inp' = inp
        BY <1>10, <2>2 DEF NumberItem
      <3>2. item[w] \in ItemType
        BY DEF InputTyped, InputTypeOK
      <3>3. QED
        BY <2>2, <3>1, <3>2, Early, SerialNumbered
    <2>3. QED
      BY <2>1, <2>2
  <1>11. CASE NumberLast(w)
    <2>1. CASE stopped
      BY <1>0, <1>2, <1>11, <2>1 DEF NumberLast
    <2>2. CASE ~stopped
      <3>1. /\ pc[w] = "number_last" /\ Numbered(w, item[w], Ends(item[w])) /\ inp' = inp
            /\ item[w] \in ItemType
        BY <1>11, <2>2 DEF NumberLast, InputTyped, InputTypeOK
      <3>2. MaxOpen = 1 => StreamItems \subseteq TakenItems
        BY <2>2, <3>1 DEF SerialInv, At
      <3>3. QED
        BY <2>2, <3>1, <3>2, SerialNumbered
    <2>3. QED
      BY <2>1, <2>2
  <1>12. QED
    BY <1>3, <1>4, <1>5, <1>6, <1>7, <1>8, <1>9, <1>10, <1>11 DEF Take

LEMMA SerialAside ==
  ASSUME InputTyped, SerialInv, MovesAside
  PROVE  SerialInv'
  <1>1. At("number_last")' => At("number_last")
    BY DEF MovesAside, Moves, At
  <1>2. QED
    BY <1>1, SerialKept DEF MovesAside, Aside

LEMMA SerialInit ==
  ASSUME InputInit, pc \in [Workers -> {"new", "idle"}]
  PROVE  SerialInv
  BY DEF SerialInv, InputInit, At

-----------------------------------------------------------------------------
\* The way of the items from the workers to the consumer.

TakenDiffer == \A j, k \in DOMAIN taken : taken[j] = taken[k] => j = k

LEMMA TakenOnce == InputTyped /\ NumberInv => TakenDiffer
  <1> SUFFICES ASSUME InputTyped, NumberInv, NEW j \in DOMAIN taken, NEW k \in DOMAIN taken,
                      taken[j] = taken[k]
               PROVE  j = k
    BY DEF TakenDiffer
  <1>1. j \in Nat /\ k \in Nat
    BY DEF InputTyped, InputTypeOK
  <1>2. taken[j] \in StreamItems \cup {HelperPanic, LastItem}
    BY DEF NumberInv, TakenInv
  <1>3. taken[j][2] \in Nat
    BY <1>2, ItemOrigins
  <1>4. ~(j < k) /\ ~(k < j)
    BY <1>3 DEF NumberInv, StreamOrder
  <1>5. QED
    BY <1>1, <1>4

LEMMA FlowKept ==
  ASSUME FlowInv, UNCHANGED <<inp, taken, results, pending, out, next, receiver>>,
         \A v \in Workers : /\ pc'[v] = "got" <=> pc[v] = "got"
                            /\ pc[v] = "got" => seq'[v] = seq[v] /\ item'[v] = item[v]
  PROVE  FlowInv'
  <1>1. \A k : /\ Got(k)' <=> Got(k)
               /\ Sent(k)' <=> Sent(k)
               /\ Pending(k)' <=> Pending(k)
               /\ Out(k)' <=> Out(k)
    BY DEF Got, Sent, Pending, Out
  <1>2. ItemInv'
    BY DEF FlowInv, ItemInv
  <1>3. OnceInv'
    BY <1>1 DEF FlowInv, OnceInv
  <1>4. AllInv' /\ OutInv'
    BY <1>1 DEF FlowInv, AllInv, OutInv, Ordered
  <1>5. QED
    BY <1>2, <1>3, <1>4 DEF FlowInv

LEMMA FlowTake ==
  ASSUME MapTypeOK, NumberInv, NumberInv', FlowInv, NEW w \in Workers, MapTake(w)
  PROVE  FlowInv'
  <1>1. /\ InputTyped /\ Take(w) /\ UNCHANGED <<poolVars, consumerVars>> /\ InputTyped'
    BY MapTyped, TakeTyped DEF MapTake
  <1>2. /\ pc[w] # "got" /\ inp' = inp
        /\ \A v \in Workers : v # w => pc'[v] = pc[v] /\ item'[v] = item[v] /\ seq'[v] = seq[v]
        /\ TakesNothing(w) \/ TakesItem(w)
    BY <1>1, TakePc, TakeShared DEF InputTyped, TakePcs
  <1>3. CASE TakesNothing(w)
    BY <1>1, <1>2, <1>3, FlowKept DEF TakesNothing
  <1>4. CASE TakesItem(w)
    <2>0. Len(taken) \in Nat
      BY <1>1 DEF InputTyped, InputTypeOK
    <2> PICK n \in Nat : n = Len(taken) + 1
      BY <2>0
    <2>1. PICK i \in ItemType : taken' = Append(taken, i) /\ item'[w] = i
      BY <1>4 DEF TakesItem
    <2>2. pc'[w] = "got" /\ seq'[w] = n
      BY <1>4 DEF TakesItem
    <2>3. /\ Len(taken) \in Nat
          /\ DOMAIN taken = 1 .. Len(taken) /\ DOMAIN taken' = 1 .. n
          /\ \A k \in 1 .. Len(taken) : taken'[k] = taken[k]
          /\ taken'[n] = i
      <3>1. taken \in Seq(ItemType)
        BY <1>1 DEF InputTyped, InputTypeOK
      <3>2. n = Len(taken) + 1
        OBVIOUS
      <3>3. QED
        BY <2>1, <3>1, <3>2, AppendFacts
    <2>4. results \in Seq(Results) /\ pending \subseteq Results
      BY DEF MapTypeOK, Results
    <2>5. /\ \A m \in DOMAIN results : results[m].seq \in DOMAIN taken
          /\ \A r \in pending : r.seq \in DOMAIN taken
      <3>1. \A m \in DOMAIN results : results[m] \in Results
        BY <2>4, LenProperties, ElementOfSeq
      <3>2. QED
        BY <2>3, <2>4, <3>1 DEF Results
    <2>6. UNCHANGED <<results, pending, out, next, receiver>>
      BY <1>1
    <2>7. ItemInv'
      <3>1. ASSUME NEW v \in Workers, pc'[v] = "got"
            PROVE  seq'[v] \in DOMAIN taken' /\ item'[v] = taken'[seq'[v]]
        <4>1. CASE v = w
          BY <2>1, <2>2, <2>3, <4>1
        <4>2. CASE v # w
          <5>1. seq[v] \in DOMAIN taken /\ item[v] = taken[seq[v]]
            BY <1>2, <3>1, <4>2 DEF FlowInv, ItemInv
          <5>2. QED
            BY <1>2, <2>3, <4>2, <5>1
        <4>3. QED
          BY <4>1, <4>2
      <3>2. ASSUME NEW m \in DOMAIN results PROVE results[m].item = taken'[results[m].seq]
        BY <2>3, <2>5 DEF FlowInv, ItemInv
      <3>3. ASSUME NEW r \in pending PROVE r.item = taken'[r.seq]
        BY <2>3, <2>5 DEF FlowInv, ItemInv
      <3>4. ASSUME NEW m \in DOMAIN out PROVE \E k \in DOMAIN taken' : out[m] = taken'[k]
        <4>1. PICK k \in DOMAIN taken : out[m] = taken[k]
          BY DEF FlowInv, ItemInv
        <4>2. k \in DOMAIN taken' /\ taken'[k] = taken[k]
          BY <2>3
        <4>3. QED
          BY <4>1, <4>2
      <3>5. QED
        BY <2>6, <3>1, <3>2, <3>3, <3>4 DEF ItemInv
    <2>8. ASSUME NEW k \in DOMAIN taken
          PROVE  /\ Got(k)' <=> Got(k)
                 /\ Sent(k)' <=> Sent(k)
                 /\ Pending(k)' <=> Pending(k)
                 /\ Out(k)' <=> Out(k)
      <3>1. k # seq'[w] /\ taken'[k] = taken[k]
        BY <2>2, <2>3
      <3>2. Got(k)' <=> Got(k)
        BY <1>2, <3>1 DEF Got
      <3>3. QED
        BY <2>6, <3>1, <3>2 DEF Sent, Pending, Out
    <2>9. /\ Got(n)' /\ ~Sent(n)' /\ ~Pending(n)' /\ ~Out(n)'
      <3>1. n \notin DOMAIN taken
        BY <2>3
      <3>2. ASSUME NEW m \in DOMAIN out, out[m] = taken'[n] PROVE FALSE
        <4>1. PICK k \in DOMAIN taken : out[m] = taken[k]
          BY DEF FlowInv, ItemInv
        <4>2. k \in DOMAIN taken' /\ n \in DOMAIN taken' /\ taken'[k] = taken'[n] /\ k # n
          BY <2>3, <3>1, <3>2, <4>1
        <4>3. TakenDiffer'
          <5>1. (InputTyped /\ NumberInv => TakenDiffer)'
            BY TakenOnce, PTL
          <5>2. QED
            BY <1>1, <5>1
        <4>4. QED
          BY <4>2, <4>3 DEF TakenDiffer
      <3>3. QED
        BY <2>2, <2>5, <2>6, <3>1, <3>2 DEF Got, Sent, Pending, Out
    <2>10. \A k \in DOMAIN taken' : k \in DOMAIN taken \/ k = n
      BY <2>3
    <2>11. OnceInv'
      <3>1. ASSUME NEW v \in Workers, NEW u \in Workers, pc'[v] = "got", pc'[u] = "got",
                   seq'[v] = seq'[u]
            PROVE  v = u
        <4>1. \A x \in Workers : x # w /\ pc'[x] = "got" => seq'[x] # n
          <5> SUFFICES ASSUME NEW x \in Workers, x # w, pc'[x] = "got", seq'[x] = n PROVE FALSE
            OBVIOUS
          <5>1. seq[x] \in DOMAIN taken
            BY <1>2 DEF FlowInv, ItemInv
          <5>2. QED
            BY <1>2, <2>3, <5>1
        <4>2. CASE v # w /\ u # w
          BY <1>2, <3>1, <4>2 DEF FlowInv, OnceInv
        <4>3. QED
          BY <2>2, <3>1, <4>1, <4>2
      <3>2. \A k \in DOMAIN taken' :
                /\ Got(k)' => ~Sent(k)' /\ ~Pending(k)' /\ ~Out(k)'
                /\ Sent(k)' => ~Pending(k)' /\ ~Out(k)'
                /\ Pending(k)' => ~Out(k)'
        BY <2>8, <2>9, <2>10 DEF FlowInv, OnceInv
      <3>3. QED
        BY <2>6, <3>1, <3>2 DEF OnceInv, FlowInv
    <2>12. AllInv'
      BY <2>6, <2>8, <2>9, <2>10 DEF AllInv, FlowInv
    <2>13. OutInv'
      <3>1. \A m \in DOMAIN taken : m \in DOMAIN taken' /\ taken'[m] = taken[m]
        BY <2>3
      <3>2. QED
        BY <1>2, <2>6, <3>1 DEF OutInv, FlowInv, Ordered
    <2>14. QED
      BY <2>7, <2>11, <2>12, <2>13 DEF FlowInv
  <1>5. QED
    BY <1>2, <1>3, <1>4

LEMMA FlowSend ==
  ASSUME MapTypeOK, FlowInv, NEW w \in Workers, Send(w)
  PROVE  FlowInv'
  <1>1. /\ pc[w] = "got" /\ pc'[w] # "got"
        /\ \A v \in Workers : v # w => pc'[v] = pc[v] /\ item'[v] = item[v] /\ seq'[v] = seq[v]
        /\ UNCHANGED <<inp, taken, receiver, pending, next, out>>
    BY DEF Send, Goto, MapTypeOK, InputTypeOK
  <1>2. seq[w] \in DOMAIN taken /\ item[w] = taken[seq[w]]
    BY <1>1 DEF FlowInv, ItemInv
  <1>3. \A k : k # seq[w] => (Got(k)' <=> Got(k))
    BY <1>1 DEF Got
  <1>4. Got(seq[w]) /\ \A v \in Workers : pc'[v] = "got" => seq'[v] # seq[w]
    BY <1>1 DEF Got, FlowInv, OnceInv
  <1>5. \A k : (Pending(k)' <=> Pending(k)) /\ (Out(k)' <=> Out(k))
    BY <1>1 DEF Pending, Out
  <1>6. CASE receiver
    <2> PICK r : r = [seq |-> seq[w], item |-> item[w]]
      OBVIOUS
    <2>1. results' = Append(results, r) /\ r.seq = seq[w] /\ r.item = item[w]
      BY <1>6 DEF Send
    <2>2. r \in Results /\ results \in Seq(Results)
      <3>1. r \in [seq: DOMAIN taken, item: ItemType]
        BY <1>2 DEF MapTypeOK, InputTypeOK
      <3>2. DOMAIN taken = 1 .. Len(taken)
        BY DEF MapTypeOK, InputTypeOK
      <3>3. QED
        BY <3>1, <3>2 DEF MapTypeOK, Results
    <2>3. /\ Len(results) \in Nat
          /\ DOMAIN results = 1 .. Len(results) /\ DOMAIN results' = 1 .. Len(results) + 1
          /\ \A m \in 1 .. Len(results) : results'[m] = results[m]
          /\ results'[Len(results) + 1] = r
      BY <2>1, <2>2, AppendFacts
    <2>4. \A k : Sent(k)' <=> Sent(k) \/ k = seq[w]
      BY <2>1, <2>3 DEF Sent
    <2>5. ItemInv'
      <3>1. ASSUME NEW v \in Workers, pc'[v] = "got"
            PROVE  seq'[v] \in DOMAIN taken /\ item'[v] = taken[seq'[v]]
        BY <1>1, <3>1 DEF FlowInv, ItemInv
      <3>2. ASSUME NEW m \in DOMAIN results' PROVE results'[m].item = taken[results'[m].seq]
        BY <1>2, <2>1, <2>3 DEF FlowInv, ItemInv
      <3>3. QED
        BY <1>1, <3>1, <3>2 DEF FlowInv, ItemInv
    <2>6. OnceInv'
      <3>1. ~Sent(seq[w]) /\ ~Pending(seq[w]) /\ ~Out(seq[w])
        BY <1>2, <1>4 DEF FlowInv, OnceInv
      <3>2. ASSUME NEW m \in DOMAIN results', NEW n \in DOMAIN results',
                   results'[m].seq = results'[n].seq
            PROVE  m = n
        <4>1. \A j \in 1 .. Len(results) : results[j].seq # seq[w]
          BY <2>3, <3>1 DEF Sent
        <4>2. QED
          BY <2>1, <2>3, <3>2, <4>1 DEF FlowInv, OnceInv
      <3>3. ASSUME NEW v \in Workers, NEW u \in Workers, pc'[v] = "got", pc'[u] = "got",
                   seq'[v] = seq'[u]
            PROVE  v = u
        BY <1>1, <3>3 DEF FlowInv, OnceInv
      <3>4. ASSUME NEW k \in DOMAIN taken
            PROVE  /\ Got(k)' => ~Sent(k)' /\ ~Pending(k)' /\ ~Out(k)'
                   /\ Sent(k)' => ~Pending(k)' /\ ~Out(k)'
                   /\ Pending(k)' => ~Out(k)'
        <4>1. CASE k = seq[w]
          <5>1. ~Got(k)'
            BY <1>4, <4>1 DEF Got
          <5>2. QED
            BY <1>5, <3>1, <4>1, <5>1
        <4>2. CASE k # seq[w]
          BY <1>3, <1>5, <2>4, <4>2 DEF FlowInv, OnceInv
        <4>3. QED
          BY <4>1, <4>2
      <3>5. QED
        BY <1>1, <3>2, <3>3, <3>4 DEF OnceInv
    <2>7. AllInv'
      <3>1. ASSUME NEW k \in DOMAIN taken, receiver
            PROVE  Got(k)' \/ Sent(k)' \/ Pending(k)' \/ Out(k)'
        <4>1. Got(k) \/ Sent(k) \/ Pending(k) \/ Out(k)
          BY <3>1 DEF FlowInv, AllInv
        <4>2. QED
          BY <1>3, <1>5, <2>4, <4>1
      <3>2. QED
        BY <1>1, <3>1 DEF AllInv
    <2>8. QED
      BY <1>1, <2>5, <2>6, <2>7 DEF FlowInv, OutInv, Ordered
  <1>7. CASE ~receiver
    <2>1. results' = results
      BY <1>7 DEF Send
    <2>2. \A k : /\ Sent(k)' <=> Sent(k)
                 /\ Got(k)' => Got(k)
      BY <1>1, <2>1 DEF Sent, Got
    <2>3. ItemInv'
      BY <1>1, <2>1 DEF FlowInv, ItemInv
    <2>4. OnceInv'
      <3>1. ASSUME NEW v \in Workers, NEW u \in Workers, pc'[v] = "got", pc'[u] = "got",
                   seq'[v] = seq'[u]
            PROVE  v = u
        BY <1>1, <3>1 DEF FlowInv, OnceInv
      <3>2. QED
        BY <1>1, <1>5, <2>1, <2>2, <3>1 DEF FlowInv, OnceInv
    <2>5. AllInv' /\ OutInv'
      BY <1>1, <1>7 DEF FlowInv, AllInv, OutInv, Ordered
    <2>6. QED
      BY <2>3, <2>4, <2>5 DEF FlowInv
  <1>8. QED
    BY <1>6, <1>7

(***************************************************************************)
(* A result leaves the ones that wait, or the channel, and is handed on.   *)
(***************************************************************************)
LEMMA HandedOn ==
  ASSUME MapTypeOK, NumberInv, FlowInv, NEW k \in DOMAIN taken, ~Out(k),
         out' = Append(out, taken[k]), taken' = taken
  PROVE  /\ \A m \in DOMAIN out' : \E j \in DOMAIN taken : out'[m] = taken[j]
         /\ Out(k)'
         /\ \A j \in DOMAIN taken : j # k => (Out(j)' <=> Out(j))
         /\ Len(out) \in Nat /\ Len(out') = Len(out) + 1
         /\ DOMAIN out = 1 .. Len(out) /\ DOMAIN out' = 1 .. Len(out) + 1
         /\ \A m \in 1 .. Len(out) : out'[m] = out[m]
         /\ out'[Len(out) + 1] = taken[k]
  <1>1. taken[k] \in ItemType /\ out \in Seq(ItemType)
    BY DEF MapTypeOK, InputTypeOK
  <1>2. /\ Len(out) \in Nat /\ Len(out') = Len(out) + 1
        /\ DOMAIN out = 1 .. Len(out) /\ DOMAIN out' = 1 .. Len(out) + 1
        /\ \A m \in 1 .. Len(out) : out'[m] = out[m]
        /\ out'[Len(out) + 1] = taken[k]
    BY <1>1, AppendFacts
  <1>3. \A m \in DOMAIN out' : \E j \in DOMAIN taken : out'[m] = taken[j]
    BY <1>2 DEF FlowInv, ItemInv
  <1>4. Out(k)'
    BY <1>2 DEF Out
  <1>5. ASSUME NEW j \in DOMAIN taken, j # k PROVE Out(j)' <=> Out(j)
    <2>1. taken[j] # taken[k]
      BY <1>5, TakenOnce, MapTyped DEF TakenDiffer
    <2>2. QED
      BY <1>2, <2>1 DEF Out
  <1>6. QED
    BY <1>2, <1>3, <1>4, <1>5

LEMMA FlowPending ==
  ASSUME MapTypeOK, NumberInv, FlowInv, NextPending
  PROVE  FlowInv'
  <1>1. /\ Ordered /\ next' = next + 1 /\ UNCHANGED <<inputVars, cancelled, results, receiver>>
    BY DEF NextPending
  <1>2. PICK r \in Ready : pending' = pending \ {r} /\ HandOn(r.item)
    BY DEF NextPending
  <1>3. /\ r \in pending /\ r.seq = next /\ r.item = taken[next] /\ pending \subseteq Results
    BY <1>2 DEF Ready, FlowInv, ItemInv, MapTypeOK, Results
  <1>4. next \in DOMAIN taken /\ DOMAIN taken = 1 .. Len(taken)
    BY <1>3 DEF Results, MapTypeOK, InputTypeOK
  <1>5. Pending(next) /\ ~Out(next) /\ ~Got(next) /\ ~Sent(next)
    BY <1>3, <1>4 DEF Pending, FlowInv, OnceInv
  <1>6. out' = Append(out, taken[next]) /\ taken' = taken
    BY <1>1, <1>2, <1>3 DEF HandOn, inputVars
  <1>7. \A q \in pending' : q.seq # next
    <2> SUFFICES ASSUME NEW q \in pending, q # r, q.seq = next PROVE FALSE
      BY <1>2
    <2>1. q.item = r.item
      BY <1>3 DEF FlowInv, ItemInv
    <2>2. q = r
      BY <1>3, <2>1 DEF Results
    <2>3. QED
      BY <2>2
  <1> PICK n \in Nat : n = next
    BY DEF MapTypeOK
  <1>8. ~Pending(n)' /\ \A k : k # n => (Pending(k)' <=> Pending(k))
    BY <1>2, <1>3, <1>7 DEF Pending
  <1>9. \A k : (Got(k)' <=> Got(k)) /\ (Sent(k)' <=> Sent(k))
    BY <1>1 DEF Got, Sent, inputVars
  <1>10. /\ \A m \in DOMAIN out' : \E j \in DOMAIN taken : out'[m] = taken[j]
         /\ Out(n)'
         /\ \A j \in DOMAIN taken : j # n => (Out(j)' <=> Out(j))
         /\ Len(out) \in Nat /\ Len(out') = Len(out) + 1
         /\ DOMAIN out = 1 .. Len(out) /\ DOMAIN out' = 1 .. Len(out) + 1
         /\ \A m \in 1 .. Len(out) : out'[m] = out[m]
         /\ out'[Len(out) + 1] = taken[n]
    BY <1>4, <1>5, <1>6, HandedOn
  <1>11. ItemInv'
    BY <1>1, <1>2, <1>6, <1>10 DEF FlowInv, ItemInv, inputVars
  <1>12. OnceInv'
    <2>1. ASSUME NEW k \in DOMAIN taken
          PROVE  /\ Got(k)' => ~Sent(k)' /\ ~Pending(k)' /\ ~Out(k)'
                 /\ Sent(k)' => ~Pending(k)' /\ ~Out(k)'
                 /\ Pending(k)' => ~Out(k)'
      <3>1. CASE k = n
        BY <1>5, <1>8, <1>9, <3>1
      <3>2. CASE k # n
        BY <1>8, <1>9, <1>10, <3>2 DEF FlowInv, OnceInv
      <3>3. QED
        BY <3>1, <3>2
    <2>2. QED
      BY <1>1, <1>6, <2>1 DEF FlowInv, OnceInv, inputVars
  <1>13. AllInv'
    BY <1>1, <1>6, <1>8, <1>9, <1>10 DEF FlowInv, AllInv
  <1>14. OutInv'
    <2>1. Len(out) = next - 1 /\ \A m \in DOMAIN out : m \in DOMAIN taken /\ out[m] = taken[m]
      BY <1>1 DEF FlowInv, OutInv
    <2>2. Len(out') = next' - 1
      BY <1>1, <1>10, <2>1
    <2>3. ASSUME NEW m \in DOMAIN out' PROVE m \in DOMAIN taken /\ out'[m] = taken[m]
      BY <1>4, <1>10, <2>1
    <2>4. Ordered'
      BY <1>1 DEF Ordered, inputVars
    <2>5. QED
      BY <1>6, <2>2, <2>3, <2>4 DEF OutInv
  <1>15. QED
    BY <1>11, <1>12, <1>13, <1>14 DEF FlowInv

\* The head of the channel leaves it.
LEMMA Received ==
  ASSUME MapTypeOK, FlowInv, results # <<>>, results' = Tail(results), taken' = taken
  PROVE  /\ Head(results) \in Results /\ Head(results) = results[1] /\ 1 \in DOMAIN results
         /\ Head(results).seq \in DOMAIN taken /\ Head(results).seq \in Nat
         /\ Head(results).item = taken[Head(results).seq]
         /\ \A m \in DOMAIN results' : results'[m] = results[m + 1] /\ m + 1 \in DOMAIN results
                                           /\ m \in Nat
         /\ \A k : Sent(k)' <=> Sent(k) /\ k # Head(results).seq
  <1>1. results \in Seq(Results) /\ DOMAIN taken = 1 .. Len(taken)
    BY DEF MapTypeOK, Results, InputTypeOK
  <1>2. /\ Head(results) \in Results /\ Tail(results) \in Seq(Results)
        /\ Len(Tail(results)) = Len(results) - 1
        /\ \A i \in 1 .. Len(Tail(results)) : Tail(results)[i] = results[i + 1]
    BY <1>1, HeadTailProperties
  <1>3. /\ Len(results) \in Nat \ {0} /\ DOMAIN results = 1 .. Len(results)
        /\ DOMAIN results' = 1 .. Len(results) - 1 /\ Head(results) = results[1]
    BY <1>1, <1>2, EmptySeq, LenProperties
  <1>4. /\ Head(results).seq \in DOMAIN taken /\ Head(results).seq \in Nat
    BY <1>1, <1>2 DEF Results
  <1>5. Head(results).item = taken[Head(results).seq]
    BY <1>3 DEF FlowInv, ItemInv
  <1>6. \A m \in DOMAIN results' : results'[m] = results[m + 1] /\ m + 1 \in DOMAIN results
                                       /\ m \in Nat
    BY <1>2, <1>3
  <1>7. ASSUME NEW k PROVE Sent(k)' <=> Sent(k) /\ k # Head(results).seq
    <2>1. ASSUME NEW m \in DOMAIN results', results'[m].seq = k
          PROVE  Sent(k) /\ k # Head(results).seq
      <3>1. m + 1 \in DOMAIN results /\ results[m + 1].seq = k /\ m + 1 # 1
        BY <1>6, <2>1
      <3>2. results[m + 1].seq # results[1].seq
        BY <1>3, <3>1 DEF FlowInv, OnceInv
      <3>3. QED
        BY <1>3, <3>1, <3>2 DEF Sent
    <2>2. ASSUME NEW m \in DOMAIN results, results[m].seq = k, k # Head(results).seq
          PROVE  Sent(k)'
      <3>1. m \in Nat /\ m # 1 /\ m - 1 \in DOMAIN results'
        BY <1>3, <2>2
      <3>2. results'[m - 1] = results[m]
        BY <1>6, <3>1
      <3>3. QED
        BY <2>2, <3>1, <3>2 DEF Sent
    <2>3. QED
      BY <2>1, <2>2 DEF Sent
  <1>8. QED
    BY <1>2, <1>3, <1>4, <1>5, <1>6, <1>7

LEMMA FlowReceive ==
  ASSUME MapTypeOK, NumberInv, FlowInv, Receive
  PROVE  FlowInv'
  <1>1. /\ results # <<>> /\ results' = Tail(results) /\ taken' = taken
        /\ UNCHANGED <<inputVars, cancelled, receiver, next>>
    BY DEF Receive, inputVars
  <1> PICK r : r = Head(results)
    OBVIOUS
  <1>2. /\ r \in Results /\ r = results[1] /\ 1 \in DOMAIN results
        /\ r.seq \in DOMAIN taken /\ r.seq \in Nat /\ r.item = taken[r.seq]
        /\ \A m \in DOMAIN results' : results'[m] = results[m + 1] /\ m + 1 \in DOMAIN results
                                          /\ m \in Nat
        /\ \A k : Sent(k)' <=> Sent(k) /\ k # r.seq
    BY <1>1, Received
  <1> PICK n \in Nat : n = r.seq
    BY <1>2
  <1>3. Sent(n) /\ ~Got(n) /\ ~Pending(n) /\ ~Out(n)
    BY <1>2 DEF Sent, FlowInv, OnceInv
  <1>4. \A k : (Got(k)' <=> Got(k)) /\ (Sent(k)' <=> Sent(k) /\ k # n)
    BY <1>1, <1>2 DEF Got, inputVars
  <1>5. \A j, m \in DOMAIN results' : results'[j].seq = results'[m].seq => j = m
    <2> SUFFICES ASSUME NEW j \in DOMAIN results', NEW m \in DOMAIN results',
                        results'[j].seq = results'[m].seq
                 PROVE  j = m
      OBVIOUS
    <2>1. j + 1 = m + 1
      BY <1>2 DEF FlowInv, OnceInv
    <2>2. QED
      BY <1>2, <2>1
  <1>6. ASSUME pending' \subseteq pending \cup {r},
               \A m \in DOMAIN out' : \E j \in DOMAIN taken : out'[m] = taken[j]
        PROVE  ItemInv'
    <2>1. \A m \in DOMAIN results' : results'[m].item = taken[results'[m].seq]
      BY <1>2 DEF FlowInv, ItemInv
    <2>2. \A q \in pending' : q.item = taken[q.seq]
      BY <1>2, <1>6 DEF FlowInv, ItemInv
    <2>3. QED
      BY <1>1, <1>6, <2>1, <2>2 DEF FlowInv, ItemInv, inputVars
  <1>7. ASSUME \A k \in DOMAIN taken : k # n => (Pending(k)' <=> Pending(k)) /\ (Out(k)' <=> Out(k)),
               Pending(n)' <=> ~Out(n)'
        PROVE  OnceInv' /\ AllInv'
    <2>1. ASSUME NEW k \in DOMAIN taken
          PROVE  /\ Got(k)' => ~Sent(k)' /\ ~Pending(k)' /\ ~Out(k)'
                 /\ Sent(k)' => ~Pending(k)' /\ ~Out(k)'
                 /\ Pending(k)' => ~Out(k)'
                 /\ receiver => Got(k)' \/ Sent(k)' \/ Pending(k)' \/ Out(k)'
      <3>1. CASE k = n
        BY <1>3, <1>4, <1>7, <3>1
      <3>2. CASE k # n
        BY <1>4, <1>7, <3>2 DEF FlowInv, OnceInv, AllInv
      <3>3. QED
        BY <3>1, <3>2
    <2>2. QED
      BY <1>1, <1>5, <2>1 DEF FlowInv, OnceInv, AllInv, inputVars
  <1>8. CASE Ordered
    <2>1. pending' = pending \cup {r} /\ out' = out
      BY <1>1, <1>8 DEF Receive
    <2>2. \A k : (Pending(k)' <=> Pending(k) \/ k = n) /\ (Out(k)' <=> Out(k))
      BY <1>1, <2>1 DEF Pending, Out
    <2>3. OnceInv' /\ AllInv'
      BY <1>3, <1>7, <2>2
    <2>4. ItemInv'
      BY <1>6, <2>1 DEF FlowInv, ItemInv
    <2>5. OutInv'
      BY <1>1, <1>8, <2>1 DEF FlowInv, OutInv, Ordered, inputVars
    <2>6. QED
      BY <2>3, <2>4, <2>5 DEF FlowInv
  <1>9. CASE ~Ordered
    <2>1. pending' = pending /\ out' = Append(out, taken[n])
      BY <1>2, <1>9 DEF Receive, HandOn
    <2>2. /\ \A m \in DOMAIN out' : \E j \in DOMAIN taken : out'[m] = taken[j]
          /\ Out(n)'
          /\ \A j \in DOMAIN taken : j # n => (Out(j)' <=> Out(j))
      BY <1>1, <1>2, <1>3, <2>1, HandedOn
    <2>3. \A k : Pending(k)' <=> Pending(k)
      BY <2>1 DEF Pending
    <2>4. OnceInv' /\ AllInv'
      BY <1>3, <1>7, <2>2, <2>3
    <2>5. ItemInv'
      BY <1>6, <2>1, <2>2
    <2>6. OutInv'
      BY <1>1, <1>9, <2>1 DEF FlowInv, OutInv, Ordered, inputVars
    <2>7. QED
      BY <2>4, <2>5, <2>6 DEF FlowInv
  <1>10. QED
    BY <1>8, <1>9

\* The receiver goes, and what waited for it with it.
LEMMA FlowCloses ==
  ASSUME FlowInv, pending' = {}, results' = <<>>, receiver' = FALSE,
         UNCHANGED <<inputVars, next, out>>
  PROVE  FlowInv'
  <1>1. \A k : /\ Got(k)' <=> Got(k)
               /\ ~Sent(k)' /\ ~Pending(k)'
               /\ Out(k)' <=> Out(k)
    BY DEF Got, Sent, Pending, Out, inputVars
  <1>2. ItemInv'
    BY DEF FlowInv, ItemInv, inputVars
  <1>3. OnceInv'
    BY <1>1 DEF FlowInv, OnceInv, inputVars
  <1>4. AllInv' /\ OutInv'
    BY DEF FlowInv, AllInv, OutInv, Ordered, inputVars
  <1>5. QED
    BY <1>2, <1>3, <1>4 DEF FlowInv

LEMMA FlowOther ==
  ASSUME MapTypeOK, NumberInv, FlowInv, OtherStep
  PROVE  FlowInv'
  <1>0. pc \in [Workers -> Points]
    BY MapTyped DEF InputTyped
  <1>1. ASSUME NEW w \in Workers, OtherWorker(w), ~Send(w)
        PROVE  FlowInv'
    <2>1. UNCHANGED <<inp, taken, results, pending, out, next, receiver, item, seq>>
      BY <1>1 DEF OtherWorker, TakeTicket, ReturnTicket, NotifyAndEnd, SpuriousWake, Spawn
    <2>2. \A v \in Workers : pc'[v] = "got" <=> pc[v] = "got"
      BY <1>0, <1>1 DEF OtherWorker, TakeTicket, ReturnTicket, NotifyAndEnd, NotifyOne, Waiting,
                        SpuriousWake, Spawn, Goto
    <2>3. QED
      BY <2>1, <2>2, FlowKept
  <1>2. CASE SpawnFails \/ Drop \/ CallNext \/ ConsumerNotify \/ MapFinished \/ UNCHANGED mapVars
    <2>1. UNCHANGED <<inp, taken, results, pending, out, next, receiver, item, seq>>
      BY <1>2 DEF SpawnFails, Drop, CallNext, ConsumerNotify, MapFinished, inputVars, mapVars
    <2>2. \A v \in Workers : pc'[v] = "got" <=> pc[v] = "got"
      BY <1>0, <1>2 DEF SpawnFails, Drop, CallNext, ConsumerNotify, MapFinished, Cancel, NotifyOne,
                        Waiting, inputVars, mapVars
    <2>3. QED
      BY <2>1, <2>2, FlowKept
  <1>3. CASE NextEnds \/ DropReceiver
    BY <1>3, FlowCloses DEF NextEnds, DropReceiver
  <1>4. QED
    BY <1>1, <1>2, <1>3, FlowSend, FlowPending, FlowReceive DEF OtherStep, Consumer, Serve

LEMMA FlowInit == MapInit => FlowInv
  BY DEF MapInit, InputInit, FlowInv, ItemInv, OnceInv, AllInv, OutInv

-----------------------------------------------------------------------------
\* Why a worker is done, while the map is not cancelled.

LEMMA ExitTake ==
  ASSUME MapTypeOK, NumberInv, EndInv', ExitInv, NEW w \in Workers, MapTake(w)
  PROVE  ExitInv'
  <1>1. InputTyped /\ Take(w) /\ UNCHANGED <<poolVars, consumerVars>>
    BY MapTyped DEF MapTake
  <1>2. /\ pc'[w] \in TakePcs \cup {"got", "none"}
        /\ \A v \in Workers : v # w => pc'[v] = pc[v]
        /\ exhausted => exhausted' /\ open' \subseteq open
        /\ stopped => stopped'
    BY <1>1, TakePc, TakeShared DEF InputTyped, TakesNothing, TakesItem
  <1>3. ASSUME ~cancelled, NEW v \in Workers, pc'[v] \in {"none", "notify", "exit"}
        PROVE  stopped' \/ (exhausted' /\ open' = {})
    <2>1. CASE v = w
      <3>1. pc'[v] = "none"
        BY <1>2, <1>3, <2>1 DEF TakePcs
      <3>2. QED
        BY <3>1 DEF EndInv, ListInv
    <2>2. CASE v # w
      BY <1>2, <1>3, <2>2 DEF ExitInv
    <2>3. QED
      BY <2>1, <2>2
  <1>4. QED
    BY <1>1, <1>3 DEF ExitInv

LEMMA ExitOther ==
  ASSUME MapTypeOK, ExitInv, OtherStep
  PROVE  ExitInv'
  <1>0. /\ pc \in [Workers -> Points] /\ UNCHANGED <<stopped, exhausted, open>>
    BY MapTyped, OtherMoves DEF InputTyped, MovesAside, Aside
  <1>1. ASSUME UNCHANGED <<cancelled, receiver, cpc>>,
               ~cancelled => \A v \in Workers : pc'[v] \in {"none", "notify", "exit"} =>
                                 pc[v] \in {"none", "notify", "exit"}
        PROVE  ExitInv'
    BY <1>0, <1>1 DEF ExitInv
  <1>2. ASSUME NEW w \in Workers, OtherWorker(w), ~Spawn(w)
        PROVE  ExitInv'
    <2>1. UNCHANGED <<cancelled, receiver, cpc>>
      BY <1>2 DEF OtherWorker, TakeTicket, Send, ReturnTicket, NotifyAndEnd, SpuriousWake
    <2>2. ASSUME ~cancelled, NEW v \in Workers, pc'[v] \in {"none", "notify", "exit"}
          PROVE  pc[v] \in {"none", "notify", "exit"}
      <3>1. receiver
        BY <2>2 DEF ExitInv
      <3>2. CASE Send(w) \/ TakeTicket(w) \/ ReturnTicket(w) \/ SpuriousWake(w)
        BY <1>0, <2>2, <3>1, <3>2 DEF Send, TakeTicket, ReturnTicket, SpuriousWake, Goto
      <3>3. CASE NotifyAndEnd(w)
        BY <1>0, <2>2, <3>3 DEF NotifyAndEnd, NotifyOne
      <3>4. QED
        BY <1>2, <3>2, <3>3 DEF OtherWorker
    <2>3. QED
      BY <1>1, <2>1, <2>2
  <1>3. ASSUME NEW w \in Workers, Spawn(w)
        PROVE  ExitInv'
    BY <1>0, <1>3 DEF Spawn, Goto, ExitInv
  <1>4. CASE CallNext \/ NextPending \/ Receive \/ ConsumerNotify
    <2>1. \A v \in Workers : pc'[v] \in {"none", "notify", "exit"} => pc'[v] = pc[v]
      BY <1>0, <1>4 DEF CallNext, NextPending, Receive, ConsumerNotify, NotifyOne, inputVars
    <2>2. /\ UNCHANGED <<cancelled, receiver>>
          /\ {cpc, cpc'} \subseteq {"start", "idle", "next", "notify"}
      BY <1>4 DEF CallNext, NextPending, Receive, ConsumerNotify, HandOn
    <2>3. QED
      BY <1>0, <2>1, <2>2 DEF ExitInv
  <1>5. CASE SpawnFails \/ Drop \/ NextEnds
    BY <1>5 DEF SpawnFails, Drop, NextEnds, Cancel, ExitInv
  <1>6. CASE DropReceiver
    BY <1>6 DEF DropReceiver, ExitInv
  <1>7. CASE MapFinished \/ UNCHANGED mapVars
    BY <1>1, <1>7 DEF MapFinished, mapVars, inputVars
  <1>8. QED
    BY <1>2, <1>3, <1>4, <1>5, <1>6, <1>7 DEF OtherStep, Consumer, Serve

-----------------------------------------------------------------------------
\* The inductive invariant of a map.
MapInv ==
    /\ MapTypeOK /\ NumberInv /\ EndInv /\ TicketInv
    /\ KindInv /\ SerialInv /\ FlowInv /\ ExitInv

LEMMA MapInvInit == MapInit => MapInv
  <1> SUFFICES ASSUME MapInit PROVE MapInv
    OBVIOUS
  <1>1. InputInit /\ pc \in [Workers -> {"new", "idle"}]
    BY DEF MapInit
  <1>2. NumberInv /\ EndInv /\ KindInv /\ SerialInv
    BY <1>1, NumberInit, EndInit, KindInit, SerialInit
  <1>3. TicketInv
    <2>1. Taking = {} /\ free = Tickets /\ taken = <<>> /\ out = <<>>
      BY DEF MapInit, InputInit, Taking, TakePcs
    <2>2. Tickets \in Nat
      BY MapTypeInit, TicketFacts
    <2>3. QED
      BY <2>1, <2>2, FS_EmptySet DEF TicketInv
  <1>4. ExitInv
    BY DEF MapInit, ExitInv
  <1>5. QED
    BY <1>2, <1>3, <1>4, MapTypeInit, FlowInit DEF MapInv

LEMMA MapInvStep == MapInv /\ [MapNext]_mapVars => MapInv'
  <1> SUFFICES ASSUME MapInv, [MapNext]_mapVars PROVE MapInv'
    OBVIOUS
  <1> USE DEF MapInv
  <1>1. InputTyped
    BY MapTyped
  <1>2. ASSUME NEW w \in Workers, MapTake(w) PROVE MapInv'
    <2>1. Take(w)
      BY <1>2 DEF MapTake
    <2>2. NumberInv' /\ EndInv'
      BY <1>1, <2>1, NumberTake, EndTake
    <2>3. KindInv' /\ SerialInv'
      BY <1>1, <2>1, KindTake, SerialTake
    <2>4. MapTypeOK' /\ TicketInv'
      BY <1>2, MapTypeTake, TicketTake
    <2>5. FlowInv' /\ ExitInv'
      BY <1>2, <2>2, FlowTake, ExitTake
    <2>6. QED
      BY <2>2, <2>3, <2>4, <2>5
  <1>3. ASSUME OtherStep PROVE MapInv'
    <2>1. MovesAside
      BY <1>1, <1>3, OtherMoves
    <2>2. NumberInv' /\ EndInv' /\ KindInv' /\ SerialInv'
      BY <1>1, <2>1, NumberAside, EndAside, KindAside, SerialAside
    <2>3. MapTypeOK'
      BY <1>3, MapTypeOther DEF FlowInv
    <2>4. TicketInv' /\ FlowInv' /\ ExitInv'
      BY <1>3, TicketOther, FlowOther, ExitOther
    <2>5. QED
      BY <2>2, <2>3, <2>4
  <1>4. QED
    BY <1>2, <1>3, MapSteps

(***************************************************************************)
(* The map keeps its types: in particular every result names a number that *)
(* was given.                                                              *)
(***************************************************************************)
THEOREM MapTypeCorrect == MapSpec => []MapTypeOK
  <1>1. MapInv => MapTypeOK
    BY DEF MapInv
  <1>2. QED
    BY <1>1, MapInvInit, MapInvStep, PTL DEF MapSpec

(***************************************************************************)
(* At most in_flight items (or one per thread, if that is more) are        *)
(* between the input and the consumer, however many workers wait for a     *)
(* ticket, give one back or keep theirs (Shared::take_ticket,              *)
(* Shared::return_ticket, Pool::next).                                     *)
(***************************************************************************)
THEOREM InFlightBounded == MapSpec => []InFlightBound
  <1>1. MapInv => InFlightBound
    BY TicketsBound DEF MapInv
  <1>2. QED
    BY <1>1, MapInvInit, MapInvStep, PTL DEF MapSpec

-----------------------------------------------------------------------------
(***************************************************************************)
(* The map against its contract (module MapContract).  Each definition of  *)
(* the contract says of the variables of the map:                          *)
(***************************************************************************)
Status == IF cpc = "ended" THEN "ended"
          ELSE IF cpc \in {"dropping", "dropped"} THEN "dropped" ELSE "open"

Given == {out[n] : n \in DOMAIN out}

LEMMA ContractTerms ==
  ASSUME InputTyped
  PROVE  /\ Promise!Delivered = Given
         /\ \A i : Promise!EndsIn(inp, i) <=> Ends(i)
         /\ Promise!Ended <=> \E i \in Given : Ends(i)
         /\ \A i, j : Promise!Before(i, j) <=> Before(i, j)
         /\ Promise!HelperPanic = HelperPanic
         /\ \A i \in Promise!Items : i \in StreamItems \/ (i = LastItem /\ HasLast(inp))
         /\ \A i \in StreamItems : (\A p \in 1 .. i[2] - 1 : ~Ends(<<i[1], p>>)) =>
                                       i \in Promise!Items
         /\ HasLast(inp) => LastItem \in Promise!Items
  <1>1. Promise!Delivered = Given
    BY DEF Promise!Delivered, Given
  <1>2. /\ Promise!HelperPanic = HelperPanic
        /\ Promise!LastItemOf(inp) = LastItem
        /\ Promise!StreamItemsOf(inp) = StreamItems
        /\ Promise!HasLast(inp) <=> HasLast(inp)
    BY DEF Promise!HelperPanic, HelperPanic, Promise!LastItemOf, LastItem, LastItemOf,
           Promise!StreamItemsOf, StreamItems, StreamItemsOf, Promise!HasLast, HasLast
  <1>3. \A i : Promise!EndsIn(inp, i) <=> Ends(i)
    BY <1>2 DEF Promise!EndsIn, Ends, EndsIn, Promise!KindOf, KindOf, LastItem, StreamItems
  <1>4. \A i, j : Promise!Before(i, j) <=> Before(i, j)
    BY DEF Promise!Before, Before
  <1>5. Promise!Ended <=> \E i \in Given : Ends(i)
    BY <1>1, <1>3 DEF Promise!Ended
  <1>6. Promise!Items = {i \in StreamItems : \A p \in 1 .. i[2] - 1 : ~Ends(<<i[1], p>>)}
                            \cup (IF HasLast(inp) THEN {LastItem} ELSE {})
    BY <1>2, <1>3 DEF Promise!Items
  <1>7. QED
    BY <1>1, <1>2, <1>3, <1>4, <1>5, <1>6

\* Handing an item on is a delivery the contract allows.
LEMMA Delivery ==
  ASSUME MapInv, NEW k \in DOMAIN taken, ~Out(k), Ordered => k = Len(out) + 1,
         cpc = "next", cpc' = "notify", out' = Append(out, taken[k]), inp' = inp
  PROVE  Promise!ContractNext
  <1> DEFINE i == taken[k]
  <1>0. /\ InputTyped /\ NumberInv /\ KindInv /\ SerialInv /\ FlowInv
        /\ DOMAIN taken = 1 .. Len(taken) /\ Len(taken) \in Nat /\ k \in Nat
    BY MapTyped DEF MapInv, InputTyped, InputTypeOK
  <1>1. i \notin Given
    BY DEF Out, Given
  <1>2. \A e \in Given : \E j \in DOMAIN taken : e = taken[j] /\ j # k
    BY <1>0, <1>1 DEF Given, FlowInv, ItemInv
  <1>3. Ends(i) => ~\E e \in Given : Ends(e)
    BY <1>0, <1>2 DEF NumberInv, StopInv, NothingAfterTheEnd
  <1>4. i \in StreamItems \cup {HelperPanic, LastItem}
    BY <1>0 DEF NumberInv, TakenInv
  <1>5. /\ i = HelperPanic => HelperPanics
        /\ i = LastItem => HasLast(inp)
        /\ i \in StreamItems => \A p \in 1 .. i[2] - 1 : ~Ends(<<i[1], p>>)
    BY <1>0 DEF KindInv
  <1>6. i \in Promise!Items \cup (IF HelperPanics THEN {Promise!HelperPanic} ELSE {})
    BY <1>0, <1>4, <1>5, ContractTerms
  <1>7. ASSUME Ordered PROVE ~\E e \in Given : Ends(e)
    <2> SUFFICES ASSUME NEW n \in DOMAIN out, Ends(out[n]) PROVE FALSE
      BY DEF Given
    <2>1. n \in DOMAIN taken /\ out[n] = taken[n] /\ n \in 1 .. Len(out)
      BY <1>0, <1>7 DEF FlowInv, OutInv, MapInv, MapTypeOK
    <2>2. n = Len(taken)
      BY <1>0, <2>1 DEF NumberInv, StopInv, NothingAfterTheEnd
    <2>3. QED
      BY <1>0, <1>7, <2>1, <2>2 DEF MapInv, MapTypeOK
  <1>8. ASSUME Ordered, i # HelperPanic, NEW j \in Promise!Items, Before(j, i) PROVE j \in Given
    <2>1. MaxOpen = 1
      BY <1>0, <1>8, MapAssumption DEF Ordered, MaxOpen, InputTyped, InputTypeOK
    <2>2. j \in StreamItems
      <3>1. /\ \A e \in StreamItems : e[1] \in Streams /\ e[2] \in Nat \ {0}
            /\ Streams = 1 .. Total /\ Total \in Nat /\ LastItem = <<Total + 1, 1>>
        BY <1>0, ItemOrigins
      <3>2. i[1] \in 1 .. Total \/ i = LastItem
        BY <1>4, <1>8, <3>1
      <3>3. j # LastItem
        BY <1>8, <3>1, <3>2 DEF Before
      <3>4. QED
        BY <1>0, <3>3, ContractTerms
    <2>3. PICK m \in 1 .. k - 1 : taken[m] = j
      BY <1>0, <1>8, <2>1, <2>2 DEF SerialInv
    <2>4. m \in DOMAIN out /\ out[m] = taken[m]
      BY <1>0, <1>8 DEF FlowInv, OutInv, MapInv, MapTypeOK
    <2>5. QED
      BY <2>3, <2>4 DEF Given
  <1> HIDE DEF i
  <1>9. /\ Promise!Delivered = Given
        /\ Promise!EndsIn(inp, i) <=> Ends(i)
        /\ Promise!Ended <=> \E e \in Given : Ends(e)
        /\ \A j : Promise!Before(j, i) <=> Before(j, i)
        /\ Promise!HelperPanic = HelperPanic
    BY <1>0, ContractTerms
  <1>10. out' = Append(out, i)
    BY DEF i
  <1>11. Promise!Deliver(i)
    BY <1>1, <1>3, <1>7, <1>8, <1>9, <1>10 DEF Promise!Deliver, Ordered
  <1>12. QED
    BY <1>6, <1>11 DEF Promise!ContractNext

\* When the channel is closed, everything was handed on.
LEMMA EndAllowed ==
  ASSUME MapInv, NextEnds
  PROVE  Promise!ContractNext
  <1>0. /\ InputTyped /\ NumberInv /\ EndInv /\ KindInv /\ FlowInv /\ ExitInv
        /\ DOMAIN taken = 1 .. Len(taken) /\ Len(taken) \in Nat
    BY MapTyped DEF MapInv, InputTyped, InputTypeOK
  <1>1. /\ cpc = "next" /\ (~Ordered \/ Ready = {}) /\ results = <<>>
        /\ \A w \in Workers : pc[w] = "exit"
        /\ cpc' = "ended" /\ UNCHANGED <<inputVars, out>>
    BY DEF NextEnds
  <1>2. ~cancelled /\ receiver
    BY <1>0, <1>1 DEF ExitInv
  <1>3. \A k \in DOMAIN taken : Pending(k) \/ Out(k)
    BY <1>0, <1>1, <1>2 DEF FlowInv, AllInv, Got, Sent
  <1>4. \A k \in DOMAIN taken : Out(k)
    <2>1. CASE ~Ordered
      BY <1>0, <1>3, <2>1 DEF FlowInv, OutInv, Pending
    <2>2. CASE Ordered
      <3>1. /\ Len(out) = next - 1 /\ DOMAIN out = 1 .. Len(out) /\ next \in Nat \ {0}
            /\ \A n \in DOMAIN out : n \in DOMAIN taken /\ out[n] = taken[n]
        BY <1>0, <2>2 DEF FlowInv, OutInv, MapInv, MapTypeOK
      <3>2. ~Pending(next)
        BY <1>1, <2>2 DEF Ready, Pending
      <3>3. next \notin DOMAIN taken
        <4> SUFFICES ASSUME next \in DOMAIN taken PROVE FALSE
          OBVIOUS
        <4>1. PICK n \in DOMAIN out : out[n] = taken[next]
          BY <1>3, <3>2 DEF Out
        <4>2. n \in DOMAIN taken /\ taken[n] = taken[next] /\ n # next
          BY <3>1, <4>1
        <4>3. QED
          BY <1>0, <4>2, TakenOnce DEF TakenDiffer
      <3>4. Len(taken) < next
        BY <1>0, <3>1, <3>3
      <3>5. \A k \in DOMAIN taken : k \in DOMAIN out /\ out[k] = taken[k]
        BY <1>0, <3>1, <3>4
      <3>6. QED
        BY <3>5 DEF Out
    <2>3. QED
      BY <2>1, <2>2
  <1>5. TakenItems \subseteq Given
    BY <1>4 DEF TakenItems, Given, Out
  <1>6. CASE stopped
    <2>1. taken # <<>> /\ Ends(taken[Len(taken)])
      BY <1>0, <1>6 DEF KindInv
    <2>2. Len(taken) \in DOMAIN taken
      BY <1>0, <2>1 DEF InputTyped, InputTypeOK
    <2>3. \E i \in Given : Ends(i)
      BY <1>5, <2>1, <2>2 DEF TakenItems
    <2>4. Promise!Ended
      BY <1>0, <2>3, ContractTerms
    <2>5. Promise!End
      BY <1>1, <2>4 DEF Promise!End, inputVars
    <2>6. QED
      BY <2>5 DEF Promise!ContractNext
  <1>7. CASE ~stopped
    <2>1. exhausted /\ open = {} /\ inp.listEnd = "none" /\ started = Total
      BY <1>0, <1>1, <1>2, <1>7, InputAssumption DEF ExitInv, KindInv, EndInv, ListInv
    <2>2. StreamItems \subseteq TakenItems
      BY <1>0, <1>7, <2>1, AllTaken
    <2>3. ended >= started
      <3>1. Ending = {}
        BY <1>1 DEF Ending
      <3>2. ended + Cardinality(Ending) + Cardinality(open) = started
        BY <1>0 DEF EndInv, CountInv
      <3>3. QED
        BY <1>0, <2>1, <3>1, <3>2, FS_EmptySet, CountFacts
    <2>4. ~At("finish") /\ ~At("number_last")
      BY <1>1 DEF At
    <2>5. HasLast(inp) => LastItem \in TakenItems
      BY <1>0, <1>7, <2>1, <2>3, <2>4 DEF EndInv, FinishInv, HasLast
    <2>6. Promise!Items \subseteq Promise!Delivered
      BY <1>0, <1>5, <2>2, <2>5, ContractTerms
    <2>7. Promise!End
      BY <1>1, <2>6 DEF Promise!End, inputVars
    <2>8. QED
      BY <2>7 DEF Promise!ContractNext
  <1>8. QED
    BY <1>6, <1>7

LEMMA ContractStep ==
  ASSUME MapInv, [MapNext]_mapVars
  PROVE  [Promise!ContractNext]_<<inp, out, Status>>
  <1>1. ASSUME NEW w \in Workers, MapTake(w)
        PROVE  UNCHANGED <<inp, out, cpc>>
    BY <1>1, TakeShared, MapTyped DEF MapTake, MapInv
  <1>2. ASSUME NEW w \in Workers, OtherWorker(w)
        PROVE  UNCHANGED <<inp, out, Status>>
    BY <1>2 DEF OtherWorker, TakeTicket, Send, ReturnTicket, NotifyAndEnd, SpuriousWake, Spawn,
                Status
  <1>3. CASE CallNext \/ ConsumerNotify \/ DropReceiver \/ MapFinished \/ UNCHANGED mapVars
    <2>1. UNCHANGED <<inp, out, Status>>
      BY <1>3 DEF CallNext, ConsumerNotify, DropReceiver, MapFinished, mapVars, inputVars, Status
    <2>2. QED
      BY <2>1
  <1>4. CASE SpawnFails \/ Drop
    <2>1. Promise!Abandon
      BY <1>4 DEF SpawnFails, Drop, Promise!Abandon
    <2>2. QED
      BY <2>1 DEF Promise!ContractNext
  <1>5. CASE NextPending
    <2>1. PICK r \in Ready : HandOn(r.item)
      BY <1>5 DEF NextPending
    <2>2. /\ r \in pending /\ r.seq = next /\ r.item = taken[next] /\ r.seq \in DOMAIN taken
      BY <2>1 DEF Ready, FlowInv, ItemInv, MapInv, MapTypeOK, InputTypeOK
    <2>3. ~Out(next) /\ Ordered /\ next = Len(out) + 1
      BY <1>5, <2>2 DEF NextPending, MapInv, FlowInv, OnceInv, OutInv, Pending, MapTypeOK
    <2>4. QED
      BY <1>5, <2>1, <2>2, <2>3, Delivery DEF NextPending, HandOn, inputVars
  <1>6. CASE Receive
    <2>1. CASE Ordered
      <3>1. UNCHANGED <<inp, out, cpc>>
        BY <1>6, <2>1 DEF Receive, inputVars
      <3>2. QED
        BY <3>1 DEF Status
    <2>2. CASE ~Ordered
      <3>1. /\ results # <<>> /\ results' = Tail(results) /\ UNCHANGED inputVars /\ taken' = taken
            /\ HandOn(Head(results).item) /\ cpc = "next"
        BY <1>6, <2>2 DEF Receive, inputVars
      <3> PICK k : k = Head(results).seq
        OBVIOUS
      <3>2. /\ k \in DOMAIN taken /\ Head(results).item = taken[k]
            /\ results[1].seq = k /\ 1 \in DOMAIN results
        BY <3>1, Received DEF MapInv
      <3>3. ~Out(k)
        BY <3>2 DEF MapInv, FlowInv, OnceInv, Sent
      <3>4. QED
        BY <2>2, <3>1, <3>2, <3>3, Delivery DEF HandOn, inputVars
    <2>3. QED
      BY <2>1, <2>2
  <1>7. CASE NextEnds
    BY <1>7, EndAllowed
  <1>8. QED
    <2>1. UNCHANGED cpc => UNCHANGED Status
      BY DEF Status
    <2>2. QED
      BY <1>1, <1>2, <1>3, <1>4, <1>5, <1>6, <1>7, <2>1, MapSteps DEF OtherStep, Consumer, Serve

(***************************************************************************)
(* A map on any number of threads keeps the contract of MapContract: each  *)
(* item at most once and only items a reader may see, in input order if    *)
(* ordered, nothing after what ends the input, and the end only when       *)
(* everything was handed on (ParallelMap::next, Pool::next).               *)
(***************************************************************************)
THEOREM ContractKept == MapSpec => KeepsContract
  <1>1. MapInit => Promise!ContractInit
    BY DEF MapInit, Promise!ContractInit
  <1>2. MapInv /\ [MapNext]_mapVars => [Promise!ContractNext]_<<inp, out, Status>>
    BY ContractStep
  <1>3. QED
    BY <1>1, <1>2, MapInvInit, MapInvStep, PTL DEF MapSpec, KeepsContract, Promise!Contract, Status

=============================================================================
