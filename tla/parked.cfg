SPECIFICATION Spec
CHECK_DEADLOCK FALSE
CONSTANTS
    Call = {"c1", "c2", "c3", "c4", "n"}
    None = None
    User = {"u"}
    Device = {"d"}
    Area = {"A"}
    InitialAreas = {"A"}
    Doomed = {"A"}
    UserOf <- Owner
    DeviceOf <- Devices
    SeqNoOf <- Numbers
    Cover <- Inside
    Inaccurate = {"n"}
    MaxFaults = 2
INVARIANTS
    OneRowPerEvent
    SuppressionExplained
PROPERTIES
    SeqNeverBack
    CommitIsExact
    ImplementsEntryLog
