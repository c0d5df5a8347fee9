\* Data that gains features during the read.
SPECIFICATION Spec
CONSTANTS
    Servers <- AllServers
    Options <- AllOptions
    MatchedFirst = 4
    DEFAULT_PAGE_SIZE = 3
INVARIANT RepeatsReported
CHECK_DEADLOCK FALSE
