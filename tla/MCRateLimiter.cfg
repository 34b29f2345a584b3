SPECIFICATION Spec
CONSTANTS
    Key = {k1, k2}
    Cap = 3
    Cost = 1
    CleanupGap = 3
    MaxTime = 9
    None = None
INVARIANTS
    RateIsBounded
    NoForgottenVisitors
PROPERTIES
    RefinesBuckets
