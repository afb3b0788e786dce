SPECIFICATION FairSpec
CONSTANTS
    None = None
    Plugin = {"cla", "lgtm"}
    Linked = {"cla"}
    Content <- MCContent
    MaxWrites = 3
INVARIANT
    ExternalsAddressed
CHECK_DEADLOCK FALSE
