SPECIFICATION Spec
CONSTANTS
    Workers = 2
    Lossless = "value"
    MaxDepth = 3
    MaxChildren = 9
    DistinctValues = 1
    Docs <- PassDocs
INVARIANTS SchemaOfTheData RowsFitTheSchema LeavesDescribed
CHECK_DEADLOCK FALSE
