SPECIFICATION Spec
CONSTANTS
    Workers = 2
    Lossless = "value"
    MaxDepth = 9
    MaxChildren = 9
    DistinctValues = 2
    Docs <- OrderDocs
INVARIANTS ColumnsInOrder
CHECK_DEADLOCK FALSE
