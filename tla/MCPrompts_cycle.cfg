CONSTANTS
    Editor = {d1}
    Name = {p, q}
    None = None
    Labels = {"production"}
    Pins = {1}
    MaxDepth = 2
    Plans <- PromotionPlan
SPECIFICATION Spec
INVARIANT CyclesImpossible
CHECK_DEADLOCK FALSE
