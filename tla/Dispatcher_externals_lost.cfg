SPECIFICATION Spec
CONSTANTS
    r1 = r1
    r2 = r2
    Request = {r1}
    None = None
    Payload <- OneNote
    Plugin <- MCPlugin
    External <- MCExternal
    Configs <- OneConfig
    Registered <- MCRegistered
INVARIANT
    ExternalsHandledBeforeStop
