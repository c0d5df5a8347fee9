---------------------------- MODULE MCLayerRead ----------------------------
(***************************************************************************)
(* Small inputs for LayerRead.                                             *)
(***************************************************************************)
EXTENDS LayerRead

C(features) == [features |-> features, bytes |-> 1]
S(chunks, last) == [chunks |-> chunks, last |-> last]

Skipped == S(<<>>, "skipped")
Empty == S(<<>>, "read")
Two == S(<<C(<<"row", "other">>), C(<<"row">>)>>, "read")
One == S(<<C(<<"row", "row">>)>>, "read")

\* One chunk that may fail, after a row of its own.
Doubtful(kind) == S(<<C(<<"row", kind, "row">>), C(<<"row">>)>>, "read")

SomeInputs ==
    {<<>>, <<Skipped>>, <<Skipped, Skipped>>, <<Skipped, Empty>>, <<Empty>>,
     <<Two, One>>, <<Skipped, Two, Skipped>>, <<One, Skipped, One>>,
     <<One, S(<<>>, "fail"), One>>, <<One, S(<<C(<<"row">>)>>, "fail"), One>>,
     <<Two, S(<<C(<<"row">>)>>, "panic")>>}
    \cup {<<One, Doubtful(kind)>> : kind \in {"value", "geometry", "xml", "panic"}}
    \cup {<<Doubtful(kind), One>> : kind \in {"value", "geometry", "xml"}}
=============================================================================
