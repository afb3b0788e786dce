SPECIFICATION FairSpec
CONSTANTS
    r1 = r1
    r2 = r2
    Request = {r1}
    None = None
    Payload <- MCPayload
    Plugin <- MCPlugin
    External <- MCExternal
    History <- MCHistory
    Registered <- MCRegistered
    Commenting = {"lgtm"}
INVARIANTS
    CounterExact
    SnapshotsInOrder
PROPERTIES
    RequestCompletes
    ImplementsGraceful
