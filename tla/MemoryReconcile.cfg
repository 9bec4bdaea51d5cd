CONSTANTS
    e1 = e1
    e2 = e2
    w1 = w1
    w2 = w2
    Entry <- OneEntry
    Worker <- TwoWorkers
    BatchSize = 1
    MaxAttempts = 1
    Reconciling = TRUE
    Deleting = TRUE
    MaxWrites = 1
    MaxFaults = 1
    MaxOvertakes = 0
SPECIFICATION FairSpec
PROPERTIES RowsGetIndexed OrphansGo
