--------------------------- MODULE MCParallelMap ---------------------------
\* Inputs that meet every way an input goes on and ends, with more items than tickets.
EXTENDS ParallelMap, TLC

In(streams, listEnd, last, ordered) ==
    [streams |-> streams, listEnd |-> listEnd, last |-> last,
     maxOpen |-> IF ordered THEN 1 ELSE 2, ordered |-> ordered]

MCInputs ==
    {In(<<>>, "none", "item", TRUE),
     In(<<<<"item", "item">>, <<"item">>>>, "none", "item", TRUE),
     In(<<<<"item">>, <<"item", "error", "item">>>>, "none", "none", TRUE),
     In(<<<<"panic">>, <<"item">>>>, "none", "panic", TRUE),
     In(<<<<"item">>, <<"item">>>>, "panic", "none", TRUE),
     In(<<<<"item">>, <<"item">>>>, "none", "item", FALSE),
     In(<<<<"item">>, <<"error", "item">>>>, "none", "none", FALSE),
     In(<<<<"panic">>, <<"item">>>>, "none", "panic", FALSE)}

=============================================================================
