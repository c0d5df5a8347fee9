SPECIFICATION Spec
CONSTANTS
    Docs <- MCDocs
    Options <- MCOptions
    AllLayers <- MCAllLayers
INVARIANTS
    ChunksOfTheDocument
    ContextInForce
    CutAtTheTarget
    OutcomeOfTheDocument
CHECK_DEADLOCK FALSE
