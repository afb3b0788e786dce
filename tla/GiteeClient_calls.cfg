SPECIFICATION FairSpec
CONSTANTS
    c1 = c1
    c2 = c2
    c3 = c3
    Caller <- MCCaller
    Workload <- MCWorkload
    NewestFirst <- MCNewestFirst
    PageSize = 2
    MaxItems = 4
    MaxChanges = 2
    PublishesWhole = TRUE
INVARIANTS
    OneIdentity
    NothingMissed
    NothingRepeated
PROPERTY
    CallsEnd
\* Every caller makes one call.
CHECK_DEADLOCK FALSE
