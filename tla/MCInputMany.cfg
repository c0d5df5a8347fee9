CONSTANTS
    Workers = {w1, w2, w3}
    NoWorker = NoWorker
    Inputs <- MCInputs
    MaxHelp = 1
    HelperPanics = TRUE
SPECIFICATION Spec
SYMMETRY WorkerSymmetry
INVARIANTS
    StreamOrder NothingAfterTheEnd LastItemAfterAll NoEarlyReturn BoundedStreams
