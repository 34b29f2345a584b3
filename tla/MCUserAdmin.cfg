SPECIFICATION Spec
CONSTANTS
    User = {u1, u2, u3}
    Request = {r1, r2}
    Command = {s1}
    Targets = {2}
    Null = Null
SYMMETRY Symmetry
PROPERTIES
    ChangesAreWhole
    AdminRoleIsKept
    SeedingReachesTarget
