SPECIFICATION Spec
CHECK_DEADLOCK FALSE
CONSTANTS
    Counts = {2}
    MaxJobs = 4
    MaxFaults = 3
    MaxUnlisted = 0
INVARIANTS
    RefusesOnlyAnotherCount
