--------------------------- MODULE MCDecodeAhead ---------------------------
\* Sources that end, that fail at once and that fail with data in hand.
EXTENDS DecodeAhead

CONSTANTS s1, s2

Of(a, b) == [s \in Sources |-> IF s = s1 THEN a ELSE b]

MCContents ==
    {Of([blocks |-> 2, failure |-> "with_data"], [blocks |-> 1, failure |-> "none"]),
     Of([blocks |-> 0, failure |-> "alone"], [blocks |-> 2, failure |-> "none"]),
     Of([blocks |-> 1, failure |-> "with_data"], [blocks |-> 1, failure |-> "alone"])}

=============================================================================
