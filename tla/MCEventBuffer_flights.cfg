CONSTANTS
    Flush = {f1, f2}
    None = None
    MaxEvents = 5
    Oversize = 2
    Poison = 4
    FlushAt = 3
    MaxBufferSize = 3
    MaxBatchSize = 2
    Plans <- MixedPlans
SPECIFICATION Spec
INVARIANTS Accounted SentAgainOnlyInDoubt OrderKept ShutdownExplained
PROPERTY Drains
CHECK_DEADLOCK FALSE
