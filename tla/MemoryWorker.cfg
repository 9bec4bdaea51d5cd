CONSTANTS
    e1 = e1
    e2 = e2
    w1 = w1
    w2 = w2
    Entry <- TwoEntries
    Worker <- OneWorker
    BatchSize = 2
    MaxAttempts = 2
    Reconciling = FALSE
    Deleting = TRUE
    MaxWrites = 2
    MaxFaults = 2
    MaxOvertakes = 0
SPECIFICATION Spec
SYMMETRY Sym
INVARIANTS TypeOK OneVector NeverBackwards IndexedOrQueued GivenUpLate
\* With the queue drained nothing is left to do.
CHECK_DEADLOCK FALSE
