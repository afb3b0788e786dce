SPECIFICATION FairSpec
CONSTANTS
    None = None
    Plugin = {"cla", "lgtm"}
    Linked = {"cla"}
    Content <- MCContent
    MaxWrites = 3
INVARIANTS
    ServedConfigIsValid
PROPERTIES
    NeverBack
    GoodFileTakesEffect
CHECK_DEADLOCK FALSE
