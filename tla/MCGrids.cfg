\* Two threads of one read or of two; the registry cleared once.
SPECIFICATION Spec
CONSTANTS
    w1 = w1
    w2 = w2
    Workers = {w1, w2}
    Reads = {1, 2}
    Nobody = Nobody
    Worlds <- MCWorlds
    HEADER_CHUNK = 2
INVARIANTS GridsCover MissingOnlyIfShort FetchedOnce
PROPERTY SetupEnds
CHECK_DEADLOCK FALSE
