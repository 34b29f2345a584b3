SPECIFICATION FairSpec
CONSTANTS
    Key = {k1, k2}
    Operator = {o1, o2}
    Server = {s1}
    TTL <- MCTTL
    CustomGrace = {}
    VerifyFor = {0}
    MaxTime = 1
    Null = Null
INVARIANTS
    TypeOK
    OneActivePerType
    HeldRowIsCurrent
    ServingHasKeys
PROPERTIES
    RefinesLifecycle
    LapsedStaysLapsed
    OnlyExpireLeavesGap
    EveryCallReturns
