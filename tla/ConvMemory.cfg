CONSTANTS
    c1 = c1
    f1 = f1
    Scan = scan
    Nobody = nobody
    Conv <- OneConv
    Flusher <- OneFlush
    MaxMsg = 4
    BatchTurns = 1
    MaxBatches = 3
    ScanLimit = 1
    Window = 1
    MaxFaults = 2
SPECIFICATION FairSpec
INVARIANTS TypeOK CountedOnce
PROPERTIES KeepsPromise TurnsAreTold
\* Every message may have been stored and told.
CHECK_DEADLOCK FALSE
