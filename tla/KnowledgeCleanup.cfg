SPECIFICATION Spec
CONSTANTS
    MaxJobs = 1
    MaxEvents = 0
INVARIANT FileKept
