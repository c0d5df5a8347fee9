---------------------------- MODULE MapContract ----------------------------
(***************************************************************************)
(* What a map over an input promises its consumer, on any number of        *)
(* threads (the docs of ParallelMap and Sequential, parallel.rs 117-124    *)
(* and 596-611): each item at most once, in input order if ordered; an     *)
(* item that ends the input is the only one of its kind and in order the   *)
(* last; without one, the end comes only after every item.                 *)
(***************************************************************************)
EXTENDS Items

CONSTANT HelperPanics

VARIABLES inp, out, status

Delivered == {out[n] : n \in DOMAIN out}

\* The items a reader of the input may ever see: none after the end of its own stream.
Items == {i \in StreamItemsOf(inp) : \A p \in 1 .. i[2] - 1 : ~EndsIn(inp, <<i[1], p>>)}
             \cup (IF HasLast(inp) THEN {LastItemOf(inp)} ELSE {})

Ended == \E i \in Delivered : EndsIn(inp, i)

ContractInit == out = <<>> /\ status = "open"

Deliver(i) ==
    /\ status = "open"
    /\ i \notin Delivered
    /\ EndsIn(inp, i) => ~Ended
    /\ inp.ordered => /\ ~Ended
                      /\ i = HelperPanic \/ \A j \in Items : Before(j, i) => j \in Delivered
    /\ out' = Append(out, i)
    /\ UNCHANGED <<inp, status>>

End ==
    /\ status = "open"
    /\ Ended \/ Items \subseteq Delivered
    /\ status' = "ended"
    /\ UNCHANGED <<inp, out>>

Abandon == status = "open" /\ status' = "dropped" /\ UNCHANGED <<inp, out>>

ContractNext ==
    \/ \E i \in Items \cup (IF HelperPanics THEN {HelperPanic} ELSE {}) : Deliver(i)
    \/ End \/ Abandon

Contract == ContractInit /\ [][ContractNext]_<<inp, out, status>>

=============================================================================
