SPECIFICATION FairWorldSpec
CONSTANTS
    Radius = 1
    Counts <- MCCounts
    Distances = {0, 1, 2}
    Min = 53
    Max = 57
    Scores = {24, 55, 70}
    MaxRolls = 2
    Placements <- MCPlacements
    OrbitCounts = {1, 3}
    DepositCounts = {1, 36}
    Bodies <- MCBodies
    Quantities = {1, 17, 100}
INVARIANTS
    Separated
    ShortIsFull
    StarsAreCandidates
    OutcomesAreHonest
    SlicesAreTree
    AtmosphereIsWhole
    SurfaceIsSound
PROPERTIES
    ColderOutwards
    GasesAreFound
\* The call returns, and that is the end.
CHECK_DEADLOCK FALSE
