CONSTANTS
    b1 = b1
    b2 = b2
    p1 = p1
    p2 = p2
    Batch = {b1, b2}
    Project = {p1, p2}
    ProjectOf <- TwoProjects
    Worker = {w1}
    Replayer = {r1, r2}
    None = None
    MaxAttempts = 1
    MaxStalled = 1
    PageSize = 1
    ReplayLimit = 2
    Plans <- ReplayPlans
SPECIFICATION Spec
INVARIANTS OneCarrier ReplayMissesNone
SYMMETRY Interchangeable
