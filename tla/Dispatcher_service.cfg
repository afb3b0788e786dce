SPECIFICATION FairSpec
CONSTANTS
    r1 = r1
    r2 = r2
    Request = {r1, r2}
    None = None
    Payload <- MCPayload
    Plugin <- MCPlugin
    External <- MCExternal
    Configs <- MCConfigs
    Registered <- MCRegistered
INVARIANTS
    CounterExact
    OneConfiguration
PROPERTIES
    InterruptEnds
    RequestCompletes
    ImplementsGraceful
