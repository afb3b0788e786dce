SPECIFICATION FairSpec
CONSTANTS
    Delivery = {d1, d2, d3}
    MaxMeddling = 1
    d1 = d1
    d2 = d2
    d3 = d3
INVARIANTS
    YesMeansSigned
    CalmIsExclusive
PROPERTIES
    YesIsTakenWithCause
    CheckRepairs
    SignedGetsYes
CHECK_DEADLOCK FALSE
