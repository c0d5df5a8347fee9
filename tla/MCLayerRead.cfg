\* Rows in order and one source at a time, or in any order and two sources at once.
SPECIFICATION FairSpec
CONSTANTS
    Inputs <- SomeInputs
    Orders = {TRUE, FALSE}
    MaxOpen = 2
    InFlight = 3
    OnFeatureErrors = {"Error", "Skip", "NullGeometry"}
    Budget = 3
    MaxBufferBytes = 2
INVARIANTS
    RowsInOrder EndsWithEverything CompleteSample
PROPERTY ReadEnds
CHECK_DEADLOCK FALSE
