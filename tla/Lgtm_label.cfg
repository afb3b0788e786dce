SPECIFICATION FairSpec
CONSTANTS
    Delivery = {1, 2, 3}
    Tree = {"A", "B"}
    Opened = "A"
    User = {"author", "reviewer"}
    Author = "author"
    Collaborators = {}
    Reviewers = {"reviewer"}
    Options <- MCOptions
INVARIANTS
    CalmLabelVouches
PROPERTIES
    CalmPushSettles
    CalmRequestSettles
    PushIsNoticed
CHECK_DEADLOCK FALSE
