CONSTANTS
    Sweep = {s1, s2}
    None = None
    Channels = {"none", "url"}
    Limits = {2, 4}
    Steps = 2
    MaxSpend = 3
    Plans <- EventPlans
SPECIFICATION Spec
INVARIANTS RepeatsExplained MarkerTold
PROPERTIES EdgesTold StepsTold
