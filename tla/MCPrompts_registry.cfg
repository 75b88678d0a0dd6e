CONSTANTS
    Editor = {d1, d2}
    Name = {p, q}
    None = None
    Labels = {"production"}
    Pins = {1}
    MaxDepth = 2
    Plans <- EventPlans
SPECIFICATION Spec
INVARIANTS ChannelsGetOwnBody LatestTracks SavesAcyclic ArmsHold
CHECK_DEADLOCK FALSE
