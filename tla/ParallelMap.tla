---------------------------- MODULE ParallelMap ----------------------------
(***************************************************************************)
(* `ParallelMap` of crates/xeibe-core/src/parallel.rs on a pool of         *)
(* workers: a worker takes a ticket, then an item of the shared input      *)
(* (module Input), maps it and sends the result; the consumer returns the  *)
(* ticket when it hands the result on, in input order if Ordered.  The     *)
(* consumer may drop the map between two calls of next.                    *)
(*                                                                         *)
(* What `f` makes of an item (a panic in `f` is caught and sent like any   *)
(* result) changes no state: a result is its item.                         *)
(***************************************************************************)
EXTENDS Input

CONSTANTS
    InFlight        \* MapOptions::in_flight

ASSUME MapAssumption ==
    /\ \A in \in Inputs : in.ordered => in.maxOpen = 1
    /\ InFlight \in Nat

VARIABLES
    free,       \* Shared::tickets
    cancelled,  \* Shared::cancelled
    results,    \* the channel, a FIFO of [seq, item]
    receiver,   \* whether the consumer still has its end of it
    cpc,        \* where the consumer is
    pending,    \* Pool::pending
    next,       \* Pool::next, from 1
    out         \* what next() has returned so far

Ordered == inp.ordered      \* MapOptions::preserve_order

poolVars == <<free, cancelled, results, receiver>>
consumerVars == <<cpc, pending, next, out>>
mapVars == <<inputVars, poolVars, consumerVars>>

\* The tickets there are: in_flight.max(threads).
Tickets == IF InFlight >= Cardinality(Workers) THEN InFlight ELSE Cardinality(Workers)

MapInit ==
    /\ InputInit
    /\ pc = [w \in Workers |-> "new"]
    /\ free = Tickets
    /\ cancelled = FALSE
    /\ results = <<>>
    /\ receiver = TRUE
    /\ cpc = "start"
    /\ pending = {}
    /\ next = 1
    /\ out = <<>>

Waiting == {w \in Workers : pc[w] = "wait"}

\* Condvar::notify_one by a thread that then goes on as `p` says: some waiting worker wakes.
NotifyOne(p) ==
    \/ Waiting = {} /\ pc' = p
    \/ \E x \in Waiting : pc' = [p EXCEPT ![x] = "idle"]

MutCancel == cancelled' = TRUE /\ UNCHANGED pc   \* Mutant: nobody is woken.

\* Shared::cancel, under the lock of the tickets; every waiting worker wakes.
Cancel ==
    /\ cancelled' = TRUE
    /\ pc' = [w \in Workers |-> IF pc[w] = "wait" THEN "idle" ELSE pc[w]]

-----------------------------------------------------------------------------
\* The workers.

MutTakeTicket(w) ==              \* Mutant: the ticket is not counted.
    /\ pc[w] = "idle"
    /\ \/ cancelled /\ Goto(w, "exit")
       \/ ~cancelled /\ free > 0 /\ Goto(w, "help")
       \/ ~cancelled /\ free = 0 /\ Goto(w, "wait")
    /\ UNCHANGED <<inp, listVars, open, streamVars, numberVars, help, localVars, handVars,
                   poolVars, consumerVars>>

\* Shared::take_ticket: from its start, or woken.
TakeTicket(w) ==
    /\ pc[w] = "idle"
    /\ \/ cancelled /\ Goto(w, "exit") /\ UNCHANGED free
       \/ ~cancelled /\ free > 0 /\ free' = free - 1 /\ Goto(w, "help")
       \/ ~cancelled /\ free = 0 /\ Goto(w, "wait") /\ UNCHANGED free
    /\ UNCHANGED <<inp, listVars, open, streamVars, numberVars, help, localVars, handVars,
                   cancelled, results, receiver, consumerVars>>

\* A condition variable may wake a thread for no reason.
SpuriousWake(w) ==
    /\ pc[w] = "wait"
    /\ Goto(w, "idle")
    /\ UNCHANGED <<inp, listVars, open, streamVars, numberVars, help, localVars, handVars,
                   poolVars, consumerVars>>

MapTake(w) == Take(w) /\ UNCHANGED <<poolVars, consumerVars>>

\* The result goes into the channel; if the consumer is gone, the worker ends and keeps
\* its ticket.
Send(w) ==
    /\ pc[w] = "got"
    /\ \/ /\ receiver
          /\ results' = Append(results, [seq |-> seq[w], item |-> item[w]])
          /\ Goto(w, "idle")
       \/ ~receiver /\ Goto(w, "exit") /\ UNCHANGED results
    /\ item' = [item EXCEPT ![w] = NoItem]
    /\ seq' = [seq EXCEPT ![w] = 0]
    /\ UNCHANGED <<inp, listVars, open, streamVars, numberVars, help, localVars,
                   free, cancelled, receiver, consumerVars>>

\* No item: Shared::return_ticket (the lock is let go before the notification), then end.
ReturnTicket(w) ==
    /\ pc[w] = "none"
    /\ free' = free + 1
    /\ Goto(w, "notify")
    /\ UNCHANGED <<inp, listVars, open, streamVars, numberVars, help, localVars, handVars,
                   cancelled, results, receiver, consumerVars>>

NotifyAndEnd(w) ==
    /\ pc[w] = "notify"
    /\ NotifyOne([pc EXCEPT ![w] = "exit"])
    /\ UNCHANGED <<inp, listVars, open, streamVars, numberVars, help, localVars, handVars,
                   poolVars, consumerVars>>

Worker(w) == \/ TakeTicket(w) \/ MapTake(w) \/ Send(w) \/ ReturnTicket(w) \/ NotifyAndEnd(w)

-----------------------------------------------------------------------------
\* The consumer.

\* ParallelMap::streams starts the workers one by one.
Spawn(w) ==
    /\ cpc = "start"
    /\ pc[w] = "new"
    /\ Goto(w, "idle")
    /\ cpc' = IF \A v \in Workers \ {w} : pc[v] # "new" THEN "idle" ELSE "start"
    /\ UNCHANGED <<inp, listVars, open, streamVars, numberVars, help, localVars, handVars,
                   poolVars, pending, next, out>>

\* A thread can't be started: the pool is dropped, which cancels the workers there are.
SpawnFails ==
    /\ cpc = "start"
    /\ cpc' = "dropping"
    /\ Cancel
    /\ UNCHANGED <<inp, listVars, open, streamVars, numberVars, help, localVars, handVars,
                   free, results, receiver, pending, next, out>>

CallNext ==
    /\ cpc = "idle"
    /\ cpc' = "next"
    /\ UNCHANGED <<inputVars, poolVars, pending, next, out>>

MutReady == pending              \* Mutant: results are handed on as they come.

Ready == {r \in pending : r.seq = next}

\* Pool::next hands a result on: it returns the ticket, and notifies (ConsumerNotify).
HandOn(i) ==
    /\ out' = Append(out, i)
    /\ free' = free + 1
    /\ cpc' = "notify"

NextPending ==
    /\ cpc = "next"
    /\ Ordered
    /\ \E r \in Ready :
        /\ pending' = pending \ {r}
        /\ HandOn(r.item)
    /\ next' = next + 1
    /\ UNCHANGED <<inputVars, cancelled, results, receiver>>

Receive ==
    /\ cpc = "next"
    /\ ~Ordered \/ Ready = {}
    /\ results # <<>>
    /\ results' = Tail(results)
    /\ \/ /\ Ordered
          /\ pending' = pending \cup {Head(results)}
          /\ UNCHANGED <<cpc, free, out>>
       \/ ~Ordered /\ HandOn(Head(results).item) /\ UNCHANGED pending
    /\ UNCHANGED <<inputVars, cancelled, receiver, next>>

MutConsumerNotify ==             \* Mutant: the ticket is returned without a notification.
    /\ cpc = "notify"
    /\ cpc' = "idle"
    /\ UNCHANGED <<inputVars, poolVars, pending, next, out>>

ConsumerNotify ==
    /\ cpc = "notify"
    /\ cpc' = "idle"
    /\ NotifyOne(pc)
    /\ UNCHANGED <<inp, listVars, open, streamVars, numberVars, help, localVars, handVars,
                   poolVars, pending, next, out>>

\* recv() fails once every worker has ended and the channel is empty; the map is done, and
\* drops its pool.
NextEnds ==
    /\ cpc = "next"
    /\ ~Ordered \/ Ready = {}
    /\ results = <<>>
    /\ \A w \in Workers : pc[w] = "exit"
    /\ cpc' = "ended"
    /\ cancelled' = TRUE
    /\ receiver' = FALSE
    /\ pending' = {}
    /\ UNCHANGED <<inputVars, free, results, next, out>>

\* The map is dropped: Drop for Pool cancels, then the receiver goes.
Drop ==
    /\ cpc = "idle"
    /\ cpc' = "dropping"
    /\ Cancel
    /\ UNCHANGED <<inp, listVars, open, streamVars, numberVars, help, localVars, handVars,
                   free, results, receiver, pending, next, out>>

DropReceiver ==
    /\ cpc = "dropping"
    /\ cpc' = "dropped"
    /\ receiver' = FALSE
    /\ results' = <<>>
    /\ pending' = {}
    /\ UNCHANGED <<inputVars, free, cancelled, next, out>>

\* A call of next that is under way.
Serve == NextPending \/ Receive \/ ConsumerNotify \/ NextEnds

MapFinished ==
    /\ cpc \in {"ended", "dropped"}
    /\ \A w \in Workers : pc[w] \in {"new", "exit"}
    /\ UNCHANGED mapVars

MapNext ==
    \/ \E w \in Workers : Worker(w) \/ SpuriousWake(w) \/ Spawn(w)
    \/ SpawnFails \/ CallNext \/ Serve \/ Drop \/ DropReceiver
    \/ MapFinished

MapSpec == MapInit /\ [][MapNext]_mapVars

\* Threads run when they can, the start of the workers and a call of next go on, a drop
\* ends; nothing makes the consumer call next.
Progress ==
    /\ \A w \in Workers : WF_mapVars(Worker(w))
    /\ WF_mapVars((\E w \in Workers : Spawn(w)) \/ Serve \/ DropReceiver)

MapFairSpec == MapSpec /\ Progress

\* The consumer also keeps calling next, as a `for` loop over the map does.
MapLoopSpec == MapFairSpec /\ WF_mapVars(CallNext)

-----------------------------------------------------------------------------

\* A worker that has a ticket and neither sent its item nor gave the ticket back.
HoldsTicket(w) == pc[w] \in TakePcs \cup {"got", "none"}

\* The type invariant.
MapTypeOK ==
    /\ InputTypeOK
    /\ pc \in [Workers -> TakePcs \cup {"new", "idle", "wait", "got", "none", "notify", "exit"}]
    /\ free \in Nat
    /\ cancelled \in BOOLEAN /\ receiver \in BOOLEAN
    /\ results \in Seq([seq: 1 .. Len(taken), item: ItemType])
    /\ cpc \in {"start", "idle", "next", "notify", "ended", "dropping", "dropped"}
    /\ pending \in SUBSET [seq: 1 .. Len(taken), item: ItemType]
    /\ next \in Nat \ {0}
    /\ out \in Seq(ItemType)

\* "At most in_flight items are between the input and the consumer" (parallel.rs 602-604):
\* numbered and not handed on, or pulled and about to be numbered.
InFlightBound ==
    Len(taken) + Cardinality({w \in Workers : pc[w] \in {"number", "number_last"}})
        <= Len(out) + Tickets

\* The map keeps the contract of MapContract, whatever the workers' interleaving.
Promise == INSTANCE MapContract
    WITH status <- IF cpc = "ended" THEN "ended"
                   ELSE IF cpc \in {"dropping", "dropped"} THEN "dropped" ELSE "open"
KeepsContract == Promise!Contract

\* A consumer that loops over the map gets to its end: "in order this can't wait forever"
\* (parallel.rs 605-608).
MapEnds == <>(cpc \in {"ended", "dropped"})

\* "Dropping the map stops it: workers take no more items, and those waiting for room are
\* woken and end" (parallel.rs 599-600).
DropEndsWorkers ==
    cpc = "dropping" ~> \A w \in Workers : pc[w] \in {"new", "exit"}

=============================================================================
