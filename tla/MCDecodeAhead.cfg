\* Two sources, two helpers, queues that are full with one block.
CONSTANTS
    Helpers = {h1, h2}
    s1 = s1
    s2 = s2
    Sources = {s1, s2}
    Nobody = Nobody
    Contents <- MCContents
    AHEAD_BLOCKS = 1
SPECIFICATION FairSpec
INVARIANTS BlocksInOrder QueueBound
PROPERTY ReadersEnd
CHECK_DEADLOCK FALSE
