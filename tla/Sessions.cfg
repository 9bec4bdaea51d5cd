CONSTANTS
    r1 = r1
    r2 = r2
    r3 = r3
    d1 = d1
    Req = {r1, r2, r3}
    Tester = {r3}
    Closer = {d1}
    Cleaner = cleaner
    MaxPerUser = 2
    MaxTurns = 1
    MaxSessions = 3
    MaxFaults = 1
SPECIFICATION FairSpec
INVARIANTS TypeOK ResourcesFollow
PROPERTY TurnsReachLedger
\* Every request may have been answered and every session ended.
CHECK_DEADLOCK FALSE
