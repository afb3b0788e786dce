SPECIFICATION FairSpec
CONSTANTS
    a = a
    b = b
    b1 = b1
    Request = {"r1", "r2"}
    Org = {a, b}
    Repo = {b1}
    OrgOf <- MCOrgOf
    Plugin = {"lgtm"}
    External <- MCExternal
    Silent = {"stuck"}
    History <- MCHistory
    Period = 1
    MaxSync = 1
    MaxTime = 3
    Nobody = Nobody
INVARIANTS
    NewRepoIsListed
    TokensAreSpared
    PageShowsWhatWasAsked
PROPERTIES
    PageIsServed
    LateAnswersEnd
CHECK_DEADLOCK FALSE
