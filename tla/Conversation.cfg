CONSTANTS
    t1 = t1
    t2 = t2
    r1 = r1
    r2 = r2
    None = None
    Turn <- TwoTurns
    Releaser <- OneRelease
    MaxGen = 3
    Reasons = {"user", "expired", "delete"}
    Events = {"upload_fails", "archived", "swept_elsewhere", "restart"}
SPECIFICATION Spec
SYMMETRY Sym
INVARIANTS TypeOK OneReadySnapshot ReadyIsRestorable RegisteredRuntimeLives GuardedRelease
PROPERTIES GenerationsGrow
\* Every request may have ended.
CHECK_DEADLOCK FALSE
