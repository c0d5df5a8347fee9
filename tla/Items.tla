------------------------------- MODULE Items -------------------------------
(***************************************************************************)
(* What an input of crates/xeibe-core/src/parallel.rs (trait Streams) is   *)
(* made of, seen from outside: streams of items, then perhaps a last item. *)
(*                                                                         *)
(* The p-th item of stream s is <<s, p>>, which makes the order of the     *)
(* input the lexicographic one.                                            *)
(***************************************************************************)
EXTENDS Naturals, Sequences

(***************************************************************************)
(* What a stream's next() may return: an item, an item that ends the input *)
(* (Streams::ends_input), or a panic.  After the last stream next_stream() *)
(* returns None or panics; then Streams::finish() may give a last item.    *)
(* How it is read comes with it: from up to maxOpen streams at once, for a *)
(* consumer that wants the items in order or not (MapOptions).             *)
(***************************************************************************)
Kinds == {"item", "error", "panic"}

InputType == [streams: Seq(Seq(Kinds)), listEnd: {"none", "panic"},
              last: {"none", "item", "panic"},
              maxOpen: Nat \ {0}, ordered: BOOLEAN]

NoItem == <<0, 0>>
HelperPanic == <<0, 1>>         \* a panic of the helper, in place of an item

\* What comes after the streams: finish()'s item or panic, or the panic of next_stream().
LastItemOf(in) == <<Len(in.streams) + 1, 1>>
HasLast(in) == in.listEnd = "panic" \/ in.last # "none"

StreamItemsOf(in) ==
    UNION {{<<s, p>> : p \in DOMAIN in.streams[s]} : s \in DOMAIN in.streams}

KindOf(in, i) == in.streams[i[1]][i[2]]

\* The items after which nothing more is taken from the input.
EndsIn(in, i) ==
    \/ i = HelperPanic
    \/ i = LastItemOf(in) /\ in.listEnd = "panic"
    \/ i \in StreamItemsOf(in) /\ KindOf(in, i) # "item"

Before(i, j) == i[1] < j[1] \/ (i[1] = j[1] /\ i[2] < j[2])

=============================================================================
