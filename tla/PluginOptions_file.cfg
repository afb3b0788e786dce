SPECIFICATION FileSpec
CONSTANTS
    Repo = {"o/r", "o/s"}
    Org = {"o"}
    Owner <- MCOwner
    Listed <- MCListed
    File = {"a/plugins.yaml", "b/plugins.yaml", "b/other.yaml"}
    Base <- MCBase
    MapSpec <- MCMapSpec
    ProwJobNamespace = "x"
    Branch = {"*", "b"}
    Setting <- MCSetting
    Bug <- MCBug
    Section = {"entries", "dco", "plugins", "maps", "bugzilla"}
    MaxEdits = 3
INVARIANTS OneWriterPerKey PostedOnce MostSpecificDecides OmittedAsWildcard StateReached
PROPERTY EntriesKeepTheirPlace
CHECK_DEADLOCK FALSE
