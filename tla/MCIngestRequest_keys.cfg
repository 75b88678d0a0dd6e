CONSTANTS
    Attempt = {r1, r2, r3, r4}
    Unanswered = Unanswered
    Limit = 1
    IngestPlans <- PairPlans
SPECIFICATION IngestSpec
INVARIANTS ExtraBatchExplained AcknowledgedIsEnqueued PendingExplained
SYMMETRY Interchangeable
