SPECIFICATION Spec
CONSTANTS
    User = {u1, u2}
    Token = {t1}
    Email = {e1, e2, e3}
    Request = {r1, r2}
    Sender = {s1}
    ResetTTL = 1
    MaxTime = 1
    Null = Null
SYMMETRY Symmetry
INVARIANTS
    ResetUsesUpToken
    OnlyEntitledResets
\* Every account may be deleted and the clock be at its bound: nothing is left to do.
CHECK_DEADLOCK FALSE
