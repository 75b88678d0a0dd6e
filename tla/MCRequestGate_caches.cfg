CONSTANTS
    Request = {r1, r2}
    None = None
    Limits = {1, 2}
    MaxSpend = 2
    Plans <- EventPlans
SPECIFICATION Spec
INVARIANTS StaleKeyRaced StaleCapRaced RefusedOverCap
PROPERTIES ChangesTakeHold
