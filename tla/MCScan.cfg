\* Four workers, so two sources are open at once; sources, chunks and threads may fail.
CONSTANTS
    Workers = {w1, w2, w3, w4}
    Inputs <- AllInputs
    Extents <- AllExtents
    SpawnsFail = TRUE
SPECIFICATION Spec
SYMMETRY Symmetry
INVARIANTS OutcomeOfTheInput ScansTheExtent SampledIfLeftOut SourcesAccounted
