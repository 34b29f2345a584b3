SPECIFICATION TSpec
CONSTANTS
    Key = {k1, k2, k3}
    Operator = {o1}
    Server = {}
    Handler = {h1}
    TTL <- MCTTL
    CustomGrace = {0}
    VerifyFor = {0}
    MaxTime = 2
    Null = Null
SYMMETRY Symmetry
INVARIANTS
    TokenOrigin
PROPERTIES
    RotationCoversHeldTokens
    ZeroGraceRevokesAtOnce
