SPECIFICATION FairSpec
CONSTANTS
    Schedule = {"daily", "once"}
    InitKind <- TwoKinds
    InitNext <- TwoTimes
    Proc = {"p1", "p2"}
    MaxTime = 2
    Period = 1
    BatchLimit = 2
    Retention = 0
    MaxCrashes = 1
    UserOps <- TwoOps
INVARIANTS
    TypeOK
    RunOnce
    NextTimeKept
    OnceFiresOnce
    NoSlotMissed
PROPERTY QueuedRunsEnd
\* At the end of time nothing is left to do.
CHECK_DEADLOCK FALSE
