\* Files of up to fourteen bytes in blocks of two, two blocks ahead.
SPECIFICATION Spec
CONSTANTS
    Files = {0, 1, 3, 7, 14}
    Ranges <- MCRanges
    MaxRetries = 2
    MaxWait = 3
    MagicLen = 2
    BlockSize = 2
    ReadAhead = 2
    MaxChunk = 2
INVARIANTS
    RetriesInBounds
PROPERTIES
    KeepsPromise
    ReadEnds
    DownloadStops
CHECK_DEADLOCK FALSE
