------------------------------ MODULE MCInput ------------------------------
\* Inputs that meet every way an input goes on and ends.
EXTENDS Input, TLC

In(streams, listEnd, last) == 
    [streams |-> streams, listEnd |-> listEnd, last |-> last, maxOpen |-> 2, ordered |-> FALSE]

MCInputs ==
    {In(<<>>, "none", "item"),
     In(<<<<"item", "item">>, <<>>, <<"item">>>>, "none", "item"),
     In(<<<<"item">>, <<"item", "item">>>>, "none", "panic"),
     In(<<<<"item", "error">>, <<"item">>>>, "none", "none"),
     In(<<<<"item">>, <<"panic", "item">>>>, "none", "item"),
     In(<<<<"item">>, <<"item">>>>, "panic", "none")}

WorkerSymmetry == Permutations(Workers)

=============================================================================
