------------------------------- MODULE MCScan -------------------------------
(***************************************************************************)
(* Inputs of up to three sources, in which a budget ends within a chunk,   *)
(* between two chunks, between two sources and with the input, and extents *)
(* that stop at each of these.                                             *)
(***************************************************************************)
EXTENDS Scan, TLC

Good(n) == [i \in 1 .. n |-> "ok"]
Source(chunks, last) == [chunks |-> chunks, last |-> last]

Read2 == Source(<<Good(2), Good(1)>>, "read")
Read1 == Source(<<Good(1)>>, "read")
NoChunk(last) == Source(<<>>, last)

\* Nothing fails.
GoodInputs ==
    {<<a, b>> : a, b \in {Read1, Read2, NoChunk("read"), NoChunk("no header"), NoChunk("no member")}}
        \cup {<<>>, <<Read1, NoChunk("no member"), Read2>>, <<Read2, Read1, Read1>>}

\* One or two things fail.
BadInputs ==
    {<<a, b>> : a \in {Read2, NoChunk("no header"), NoChunk("fail"), NoChunk("unlisted")},
                b \in {Source(<<Good(1), <<"ok", "xml">>>>, "read"),
                       Source(<<<<"panic", "xml">>>>, "read"),
                       Source(<<Good(1)>>, "fail"),
                       Source(<<Good(1)>>, "panic"),
                       NoChunk("unlisted"), NoChunk("no member")}}

AllInputs == GoodInputs \cup BadInputs

Extent(kind, max) == [kind |-> kind, max |-> max]
AllExtents ==
    {Extent("Full", 0)}
        \cup {Extent(kind, max) : kind \in {"Sample", "SamplePerSource"}, max \in {0, 1, 2, 3, 4}}

Symmetry == Permutations(Workers)
=============================================================================
