SPECIFICATION FairSpec
CONSTANTS
    MaxJobs = 2
    MaxEvents = 1
INVARIANTS TypeOK CancelHolds
PROPERTIES JobsEnd OrphansReclaimed
