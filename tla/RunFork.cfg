SPECIFICATION FairSpec
CONSTANTS
    NumNodes = 4
    Deps <- ForkDeps
    External <- ForkExternal
    Host = {"h1"}
    HostOf <- HostOf4
    MaxBatch = 1
    MaxCrashes = 0
    UserOps = {"refresh"}
INVARIANTS
    NoMaskedFailure
PROPERTIES
    Settles
CHECK_DEADLOCK FALSE
