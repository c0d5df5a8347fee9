\* Results in order from one stream at a time or in any order from two, a consumer that
\* loops; two tickets for up to five items.
CONSTANTS
    Workers = {w1, w2}
    NoWorker = NoWorker
    Inputs <- MCInputs
    MaxHelp = 0
    HelperPanics = TRUE
    InFlight = 0
SPECIFICATION MapLoopSpec
INVARIANT InFlightBound
PROPERTIES
    KeepsContract MapEnds DropEndsWorkers
