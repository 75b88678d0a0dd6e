CONSTANTS
    Item = {i1, i2}
    Run = {r1, r2}
    None = None
    Lanes = 2
    MaxAttempts = 3
    MaxStalled = 1
    Plans <- ItemPlans
SPECIFICATION FairSpec
INVARIANTS OneRunAtATime CountsMatch
PROPERTIES DoneItemsRestOrderly EndsUnlessAbandoned CancelSticks
