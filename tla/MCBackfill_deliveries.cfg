CONSTANTS
    Initial = 3
    MaxTraces = 4
    Run = {r1, r2, r3}
    None = None
    Cap = 3
    Page = 2
    Lanes = 2
    MaxAttempts = 3
    MaxStalled = 1
    Plans <- TroublePlans
SPECIFICATION FairSpec
INVARIANTS JudgedAgainExplained SelectionJudged
PROPERTY Ends
