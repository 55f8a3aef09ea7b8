SPECIFICATION FleetSpec
CHECK_DEADLOCK FALSE
CONSTANTS
    Counts = {1, 2}
    MaxJobs = 3
    MaxFaults = 1
    MaxUnlisted = 1
    User = {"u"}
    Areas <- MCAreas
    Prefer <- MCPrefer
    WorkerId = {"w1", "w2"}
    PartitionSpecs <- MCSpecs
    MaxCrashes = 1
    Unknown = Unknown
INVARIANTS
    RoutingStable
    SuccessMeansComplete
    DeadLettersKept
    LastEventWins
    MemoryIsCurrent
PROPERTIES
    EveryPartitionDrained
