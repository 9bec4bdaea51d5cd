CONSTANTS
    e1 = e1
    e2 = e2
    w1 = w1
    w2 = w2
    Entry <- OneEntry
    Worker <- TwoWorkers
    BatchSize = 2
    MaxAttempts = 1
    Reconciling = FALSE
    Deleting = TRUE
    MaxWrites = 2
    MaxFaults = 1
    MaxOvertakes = 1
SPECIFICATION FairSpec
PROPERTY JobsEnd
\* With the queue drained nothing is left to do.
CHECK_DEADLOCK FALSE
