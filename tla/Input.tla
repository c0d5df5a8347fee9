------------------------------- MODULE Input -------------------------------
(***************************************************************************)
(* The input of a scan or a read as the workers share it: `Input` of       *)
(* crates/xeibe-core/src/parallel.rs.                                      *)
(*                                                                         *)
(* An input is a list of streams, each a run of items.  Workers take items *)
(* from up to MaxOpen streams at once; every item taken gets a number, and *)
(* an item that ends the input (an error, a panic) stops the numbering.    *)
(* Each action below is one critical section, or one read of an atomic, of *)
(* Input::take and the functions it calls, so any interleaving the mutexes *)
(* allow is a behaviour here.  `pc` names the step a worker is about to    *)
(* take; "idle", "got" and "none" are outside take: before the call, after *)
(* it returned Some, after it returned None.                               *)
(***************************************************************************)
EXTENDS Items, FiniteSets

CONSTANTS
    Workers,        \* the worker threads
    NoWorker,       \* the holder of a mutex nobody holds
    Inputs,         \* the inputs to read, see module Items
    MaxHelp,        \* bound: how often the helper finds something to do
    HelperPanics    \* whether a call of the helper may panic

ASSUME InputAssumption ==
    /\ IsFiniteSet(Workers) /\ Workers # {} /\ NoWorker \notin Workers
    /\ Inputs \subseteq InputType
    /\ MaxHelp \in Nat
    /\ HelperPanics \in BOOLEAN

VARIABLES
    inp,        \* the input being read
    list,       \* the worker that holds the lock of the list of streams
    started, ended, finished,           \* the rest of StreamList
    open,       \* the streams open; the Vec's order is that of the numbers
    state,      \* state[s]: the worker that holds stream s
    done,       \* done[s]: StreamState::done
    pos,        \* pos[s]: the items next() has given of stream s
    exhausted, stopped,                 \* the atomics (stopped: of Numbers too)
    taken,      \* the items in the order of their numbers
    help,       \* how often the helper will still find something to do
    pc,         \* the step a worker is at
    seen,       \* exhausted, as the worker read it
    snap,       \* open, as the worker cloned it
    cur,        \* the stream of snap the worker is at, 0 before the first
    item,       \* the item in the worker's hands
    seq         \* its number

listVars == <<list, started, ended, finished>>
streamVars == <<state, done, pos>>
numberVars == <<exhausted, stopped, taken>>
localVars == <<seen, snap, cur>>
handVars == <<item, seq>>
inputVars == <<inp, listVars, open, streamVars, numberVars, help, pc, localVars, handVars>>

Streams == DOMAIN inp.streams
Total == Len(inp.streams)
MaxOpen == inp.maxOpen      \* Input::max_open: streams open at once

LastItem == LastItemOf(inp)
StreamItems == StreamItemsOf(inp)
Ends(i) == EndsIn(inp, i)

IsOldest(s, S) == s \in S /\ \A t \in S : s <= t

TakePcs == {"help", "stopped", "exhausted", "open", "try", "pull", "number", "ended",
            "open_next", "finish", "number_last", "help_again", "block"}

InputInit ==
    /\ inp \in Inputs
    /\ list = NoWorker /\ started = 0 /\ ended = 0 /\ finished = FALSE
    /\ open = {}
    /\ state = [s \in Streams |-> NoWorker]
    /\ done = [s \in Streams |-> FALSE]
    /\ pos = [s \in Streams |-> 0]
    /\ exhausted = FALSE /\ stopped = FALSE /\ taken = <<>>
    /\ help \in 0 .. MaxHelp
    /\ seen = [w \in Workers |-> FALSE]
    /\ snap = [w \in Workers |-> {}]
    /\ cur = [w \in Workers |-> 0]
    /\ item = [w \in Workers |-> NoItem]
    /\ seq = [w \in Workers |-> 0]

Goto(w, l) == pc' = [pc EXCEPT ![w] = l]

\* The locals of an iteration of take's loop end with it.
ForgetLocals(w) ==
    /\ seen' = [seen EXCEPT ![w] = FALSE]
    /\ snap' = [snap EXCEPT ![w] = {}]
    /\ cur' = [cur EXCEPT ![w] = 0]

(***************************************************************************)
(* Input::number, which every worker calls with an item in its hands:      *)
(* Numbered is the case that it gives one, the caller's guard ~stopped is  *)
(* the case that it does.                                                  *)
(***************************************************************************)
Numbered(w, i, ends) ==
    /\ taken' = Append(taken, i)
    /\ stopped' = ends
    /\ exhausted' = (exhausted \/ ends)
    /\ item' = [item EXCEPT ![w] = i]
    /\ seq' = [seq EXCEPT ![w] = Len(taken) + 1]
    /\ Goto(w, "got")
    /\ ForgetLocals(w)

(***************************************************************************)
(* Input::fail: a panic outside a stream ends the input, unless something  *)
(* ended it before.                                                        *)
(***************************************************************************)
HelperFails(w) ==
    \/ ~stopped /\ Numbered(w, HelperPanic, TRUE)
    \/ stopped /\ Goto(w, "none") /\ UNCHANGED <<numberVars, localVars, handVars>>

-----------------------------------------------------------------------------

(***************************************************************************)
(* A call of the helper.  It says whether it found something to do, which  *)
(* other workers may change at any time: either answer, TRUE at most       *)
(* MaxHelp times.                                                          *)
(***************************************************************************)
CallHelper(w, again, nothing) ==
    /\ \/ help > 0 /\ help' = help - 1 /\ Goto(w, again)
          /\ UNCHANGED <<numberVars, localVars, handVars>>
       \/ Goto(w, nothing) /\ UNCHANGED <<help, numberVars, localVars, handVars>>
       \/ HelperPanics /\ HelperFails(w) /\ UNCHANGED help
    /\ UNCHANGED <<inp, listVars, open, streamVars>>

Help(w) == pc[w] = "help" /\ CallHelper(w, "help", "stopped")

CheckStopped(w) ==
    /\ pc[w] = "stopped"
    /\ Goto(w, IF stopped THEN "none" ELSE "exhausted")
    /\ ForgetLocals(w)
    /\ UNCHANGED <<inp, listVars, open, streamVars, numberVars, help, handVars>>

ReadExhausted(w) ==
    /\ pc[w] = "exhausted"
    /\ seen' = [seen EXCEPT ![w] = exhausted]
    /\ Goto(w, "open")
    /\ UNCHANGED <<inp, listVars, open, streamVars, numberVars, help, snap, cur, handVars>>

CloneOpen(w) ==
    /\ pc[w] = "open"
    /\ snap' = [snap EXCEPT ![w] = open]
    /\ cur' = [cur EXCEPT ![w] = 0]
    /\ Goto(w, IF open # {} THEN "try" ELSE IF seen[w] THEN "none" ELSE "open_next")
    /\ UNCHANGED <<inp, listVars, open, streamVars, numberVars, help, seen, handVars>>

(***************************************************************************)
(* try_lock of the next stream of the clone, oldest first.                 *)
(***************************************************************************)
Untried(w) == {s \in snap[w] : s > cur[w]}

TryLock(w) ==
    /\ pc[w] = "try"
    /\ \E s \in Untried(w) :
        /\ IsOldest(s, Untried(w))
        /\ cur' = [cur EXCEPT ![w] = s]
        /\ \/ /\ state[s] = NoWorker
              /\ state' = [state EXCEPT ![s] = w]
              /\ Goto(w, "pull")
           \/ /\ state[s] # NoWorker
              /\ UNCHANGED <<state, pc>>
    /\ UNCHANGED <<inp, listVars, open, done, pos, numberVars, help, seen, snap, handVars>>

(***************************************************************************)
(* Other workers hold every stream of the clone: open another one, or help *)
(* and then wait for the oldest.                                           *)
(***************************************************************************)
AllHeld(w) ==
    /\ pc[w] = "try"
    /\ Untried(w) = {}
    /\ Goto(w, IF ~seen[w] /\ Cardinality(snap[w]) < MaxOpen THEN "open_next"
               ELSE "help_again")
    /\ UNCHANGED <<inp, listVars, open, streamVars, numberVars, help, localVars, handVars>>

HelpAgain(w) == pc[w] = "help_again" /\ CallHelper(w, "stopped", "block")

BlockOnHead(w) ==
    /\ pc[w] = "block"
    /\ \E s \in snap[w] :
        /\ IsOldest(s, snap[w])
        /\ state[s] = NoWorker
        /\ state' = [state EXCEPT ![s] = w]
        /\ cur' = [cur EXCEPT ![w] = s]
    /\ Goto(w, "pull")
    /\ UNCHANGED <<inp, listVars, open, done, pos, numberVars, help, seen, snap, handVars>>

-----------------------------------------------------------------------------

(***************************************************************************)
(* Input::pull, with the stream's lock held: the stream was done already;  *)
(* or it gives an item (a panic ends the stream at once); or it ends, and  *)
(* leaves the open streams before it is let go.                            *)
(***************************************************************************)
PullDone(w) ==
    LET s == cur[w]
    IN  /\ pc[w] = "pull"
        /\ done[s]
        /\ state' = [state EXCEPT ![s] = NoWorker]
        /\ Goto(w, "stopped")
        /\ UNCHANGED <<inp, listVars, open, done, pos, numberVars, help, localVars, handVars>>

MutPullItem(w) ==                \* Mutant: the stream is let go before the item is numbered.
    LET s == cur[w]
        i == <<s, pos[s] + 1>>
    IN  /\ pc[w] = "pull"
        /\ ~done[s]
        /\ i \in StreamItems
        /\ pos' = [pos EXCEPT ![s] = @ + 1]
        /\ done' = [done EXCEPT ![s] = (KindOf(inp, i) = "panic")]
        /\ state' = [state EXCEPT ![s] = NoWorker]
        /\ item' = [item EXCEPT ![w] = i]
        /\ Goto(w, "number")
        /\ UNCHANGED <<inp, listVars, open, numberVars, help, localVars, seq>>

PullItem(w) ==
    LET s == cur[w]
        i == <<s, pos[s] + 1>>
    IN  /\ pc[w] = "pull"
        /\ ~done[s]
        /\ i \in StreamItems
        /\ pos' = [pos EXCEPT ![s] = @ + 1]
        /\ done' = [done EXCEPT ![s] = (KindOf(inp, i) = "panic")]
        /\ item' = [item EXCEPT ![w] = i]
        /\ Goto(w, "number")
        /\ UNCHANGED <<inp, listVars, open, state, numberVars, help, localVars, seq>>

PullEnd(w) ==
    LET s == cur[w]
    IN  /\ pc[w] = "pull"
        /\ ~done[s]
        /\ <<s, pos[s] + 1>> \notin StreamItems
        /\ done' = [done EXCEPT ![s] = TRUE]
        /\ open' = open \ {s}
        /\ state' = [state EXCEPT ![s] = NoWorker]
        /\ Goto(w, "ended")
        /\ UNCHANGED <<inp, listVars, pos, numberVars, help, localVars, handVars>>

MutNumberItem(w) ==              \* Mutant: an item pulled before the stop is numbered after it.
    LET s == cur[w]
        i == item[w]
    IN  /\ pc[w] = "number"
        /\ state' = [state EXCEPT ![s] = NoWorker]
        /\ Numbered(w, i, stopped \/ Ends(i))
        /\ done' = [done EXCEPT ![s] = @ \/ Ends(i)]
        /\ UNCHANGED <<inp, listVars, open, pos, help>>

(***************************************************************************)
(* The item is numbered while its stream is held; an item that ends the    *)
(* input marks the stream done.  Without a number it is dropped.           *)
(***************************************************************************)
NumberItem(w) ==
    LET s == cur[w]
        i == item[w]
    IN  /\ pc[w] = "number"
        /\ state' = [state EXCEPT ![s] = NoWorker]
        /\ \/ /\ ~stopped
              /\ Numbered(w, i, Ends(i))
              /\ done' = [done EXCEPT ![s] = @ \/ Ends(i)]
           \/ /\ stopped
              /\ item' = [item EXCEPT ![w] = NoItem]
              /\ Goto(w, "stopped")
              /\ UNCHANGED <<done, numberVars, localVars, seq>>
        /\ UNCHANGED <<inp, listVars, open, pos, help>>

MutStreamEnded(w) ==             \* Mutant: only the end of the list looks for the last item.
    /\ pc[w] = "ended"
    /\ list = NoWorker
    /\ ended' = ended + 1
    /\ Goto(w, "stopped")
    /\ UNCHANGED <<inp, list, started, finished, open, streamVars, numberVars, help, localVars,
                   handVars>>

StreamEnded(w) ==
    /\ pc[w] = "ended"
    /\ list = NoWorker
    /\ list' = w
    /\ ended' = ended + 1
    /\ Goto(w, "finish")
    /\ UNCHANGED <<inp, started, finished, open, streamVars, numberVars, help, localVars, handVars>>

-----------------------------------------------------------------------------

MutMayOpen == ~exhausted         \* Mutant: the open streams are not counted again.

(***************************************************************************)
(* Input::open_next, under the lock of the list: the conditions may have   *)
(* changed since the worker read them; else the list gives a stream, or    *)
(* has none left, or panics.                                               *)
(***************************************************************************)
MayOpen == ~exhausted /\ Cardinality(open) < MaxOpen

OpenNotNeeded(w) ==
    /\ pc[w] = "open_next"
    /\ list = NoWorker
    /\ ~MayOpen
    /\ Goto(w, "stopped")
    /\ UNCHANGED <<inp, listVars, open, streamVars, numberVars, help, localVars, handVars>>

OpenStream(w) ==
    /\ pc[w] = "open_next"
    /\ list = NoWorker
    /\ MayOpen
    /\ started < Total
    /\ started' = started + 1
    /\ open' = open \cup {started + 1}
    /\ Goto(w, "stopped")
    /\ UNCHANGED <<inp, list, ended, finished, streamVars, numberVars, help, localVars, handVars>>

NoStreamLeft(w) ==
    /\ pc[w] = "open_next"
    /\ list = NoWorker
    /\ MayOpen
    /\ started = Total
    /\ inp.listEnd = "none"
    /\ exhausted' = TRUE
    /\ list' = w
    /\ Goto(w, "finish")
    /\ UNCHANGED <<inp, started, ended, finished, open, streamVars, stopped, taken, help,
                   localVars, handVars>>

ListPanics(w) ==
    /\ pc[w] = "open_next"
    /\ list = NoWorker
    /\ MayOpen
    /\ started = Total
    /\ inp.listEnd = "panic"
    /\ list' = w
    /\ item' = [item EXCEPT ![w] = LastItem]
    /\ Goto(w, "number_last")
    /\ UNCHANGED <<inp, started, ended, finished, open, streamVars, numberVars, help,
                   localVars, seq>>

MutMayFinish ==                  \* Mutant: streams still open are not waited for.
    exhausted /\ ~finished /\ ~stopped

(***************************************************************************)
(* Input::finish, under the lock of the list: nothing unless every stream  *)
(* has ended and none ended the input; else the last item, if any, which   *)
(* is numbered like the panic of next_stream() but never ends the input.   *)
(***************************************************************************)
MayFinish == exhausted /\ ended >= started /\ ~finished /\ ~stopped

Finish(w) ==
    /\ pc[w] = "finish"
    /\ finished' = (finished \/ MayFinish)
    /\ \/ /\ MayFinish /\ inp.last # "none"
          /\ item' = [item EXCEPT ![w] = LastItem]
          /\ Goto(w, "number_last")
          /\ UNCHANGED list
       \/ /\ ~MayFinish \/ inp.last = "none"
          /\ list' = NoWorker
          /\ Goto(w, "stopped")
          /\ UNCHANGED item
    /\ UNCHANGED <<inp, started, ended, open, streamVars, numberVars, help, localVars, seq>>

NumberLast(w) ==
    /\ pc[w] = "number_last"
    /\ list' = NoWorker
    /\ \/ ~stopped /\ Numbered(w, item[w], Ends(item[w]))
       \/ /\ stopped
          /\ item' = [item EXCEPT ![w] = NoItem]
          /\ Goto(w, "stopped")
          /\ UNCHANGED <<numberVars, localVars, seq>>
    /\ UNCHANGED <<inp, started, ended, finished, open, streamVars, help>>

Take(w) ==
    \/ Help(w) \/ CheckStopped(w) \/ ReadExhausted(w) \/ CloneOpen(w)
    \/ TryLock(w) \/ AllHeld(w) \/ HelpAgain(w) \/ BlockOnHead(w)
    \/ PullDone(w) \/ PullItem(w) \/ PullEnd(w) \/ NumberItem(w) \/ StreamEnded(w)
    \/ OpenNotNeeded(w) \/ OpenStream(w) \/ NoStreamLeft(w) \/ ListPanics(w)
    \/ Finish(w) \/ NumberLast(w)

-----------------------------------------------------------------------------
\* Workers that only take items, until there is none.

Init == InputInit /\ pc = [w \in Workers |-> "idle"]

Call(w) ==
    /\ pc[w] = "idle"
    /\ Goto(w, "help")
    /\ UNCHANGED <<inp, listVars, open, streamVars, numberVars, help, localVars, handVars>>

Use(w) ==
    /\ pc[w] = "got"
    /\ item' = [item EXCEPT ![w] = NoItem]
    /\ seq' = [seq EXCEPT ![w] = 0]
    /\ Goto(w, "idle")
    /\ UNCHANGED <<inp, listVars, open, streamVars, numberVars, help, localVars>>

Finished == (\A w \in Workers : pc[w] = "none") /\ UNCHANGED inputVars

Next == (\E w \in Workers : Call(w) \/ Take(w) \/ Use(w)) \/ Finished

Spec == Init /\ [][Next]_inputVars

-----------------------------------------------------------------------------

ItemType == {NoItem, HelperPanic, LastItem} \cup StreamItems

\* The type invariant.
InputTypeOK ==
    /\ inp \in Inputs
    /\ list \in Workers \cup {NoWorker}
    /\ started \in 0 .. Total /\ ended \in Nat /\ finished \in BOOLEAN
    /\ open \subseteq 1 .. started
    /\ state \in [Streams -> Workers \cup {NoWorker}]
    /\ done \in [Streams -> BOOLEAN]
    /\ pos \in [Streams -> Nat]
    /\ exhausted \in BOOLEAN /\ stopped \in BOOLEAN
    /\ taken \in Seq(ItemType)
    /\ help \in 0 .. MaxHelp
    /\ seen \in [Workers -> BOOLEAN]
    /\ snap \in [Workers -> SUBSET (1 .. started)]
    /\ cur \in [Workers -> 0 .. started]
    /\ item \in [Workers -> ItemType]
    /\ seq \in [Workers -> 0 .. Len(taken)]

\* The type invariant of workers that only take.
TypeOK == InputTypeOK /\ pc \in [Workers -> TakePcs \cup {"idle", "got", "none"}]

\* "no item taken after the stop is numbered" (parallel.rs 259-261): an error or a panic is
\* the last item there is, although other workers hold items they pulled before it.
NothingAfterTheEnd ==
    \A i \in DOMAIN taken : Ends(taken[i]) => i = Len(taken)

\* No item gets two numbers, and the items of a stream are numbered in their order, however
\* many streams are open and whichever workers race for them (the stream's lock is held from
\* its next() until the item is numbered, parallel.rs 428-440).
StreamOrder ==
    \A i, j \in DOMAIN taken :
        i < j /\ taken[i][1] = taken[j][1] => taken[i][2] < taken[j][2]

\* The last item (the "no features" error of a read) is numbered after every item of every
\* stream, although the stream that ended last and the end of the list may be found by
\* different workers (Streams::finish, parallel.rs 86-90).
LastItemAfterAll ==
    inp.listEnd = "none" =>
        \A i \in DOMAIN taken : taken[i] = LastItem =>
            StreamItems \subseteq {taken[j] : j \in 1 .. i - 1}

\* A worker gives up only when there is nothing left to pull: "once it is set, every stream
\* there will be is in the list" (parallel.rs 328-330).  When all have, nothing is lost: unless
\* something ended the input, every item was taken, and the last one, which exactly one worker
\* must find.
NoEarlyReturn ==
    /\ \A w \in Workers : pc[w] = "none" =>
        stopped \/ (exhausted /\ started = Total /\ open = {})
    /\ (\A w \in Workers : pc[w] = "none") /\ ~stopped =>
        StreamItems \cup (IF inp.last = "none" THEN {} ELSE {LastItem})
            \subseteq {taken[i] : i \in DOMAIN taken}

\* At most MaxOpen streams are split at once: opened, and not yet ended (the memory bound).
\* A stream counts until it has ended, not only while it is listed.
BoundedStreams ==
    Cardinality({s \in 1 .. started : ~done[s]}) <= MaxOpen

=============================================================================
