\* Every strategy, page sizes and limits below and above each other; data that stays as it
\* is and data that gains features during the read.
SPECIFICATION FairSpec
CONSTANTS
    Servers <- AllServers
    Options <- AllOptions
    MatchedFirst = 4
    DEFAULT_PAGE_SIZE = 3
INVARIANTS NothingTwice NothingLostSilently RepeatsForetold
PROPERTIES ReadFinishes DropStopsThread
CHECK_DEADLOCK FALSE
