CONSTANTS
    t1 = t1
    t2 = t2
    r1 = r1
    r2 = r2
    None = None
    Turn <- TwoTurns
    Releaser <- TwoReleases
    MaxGen = 6
    Reasons = {"user"}
    Events = {}
SPECIFICATION Spec
INVARIANTS WorkspaceKept
\* Every request may have ended.
CHECK_DEADLOCK FALSE
