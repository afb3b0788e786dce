SPECIFICATION Spec
CONSTANTS
    Delivery = {1, 2, 3}
    Tree = {"A", "B"}
    Opened = "A"
    User = {"author", "reviewer"}
    Author = "author"
    Collaborators = {}
    Reviewers = {"reviewer"}
    Options <- JustHashes
PROPERTY
    SquashKeepsLgtm
CHECK_DEADLOCK FALSE
