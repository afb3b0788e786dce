SPECIFICATION FairSpec
CONSTANTS
    p1 = p1
    p2 = p2
    p3 = p3
    e = e
    Post = {p1, p2, p3}
    Endpoint = {e}
    To <- MCTo
    MaxRetries = 3
    MaxIdle = 2
INVARIANTS
    OncePerAttempt
    DispatchedWasReceived
PROPERTIES
    LateDeliveryNeedsAnother
    PostEnds
