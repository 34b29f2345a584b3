SPECIFICATION Spec
CONSTANTS
    Request = {r1, r2}
    AccessTTL = 1
    RefreshTTL = 2
    MaxTime = 2
    MaxGen = 1
    Null = Null
SYMMETRY Symmetry
INVARIANTS
    HandlersAreEntitled
    SignedOutMeansOut
