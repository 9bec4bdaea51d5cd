SPECIFICATION Spec
CONSTANTS
    NumNodes = 3
    Deps <- MixedDeps
    External <- MixedExternal
    Host = {"h1"}
    HostOf <- HostOf3
    MaxBatch = 2
    MaxCrashes = 1
    UserOps = {"schedule", "start", "complete", "cancel", "refresh"}
INVARIANTS
    TypeOK
    TaskWitness
    DependenciesFirst
    AtMostOneTurn
    ClosedRunStamped
    AtMostOneTry
PROPERTIES
    NoEarlyCompletion
