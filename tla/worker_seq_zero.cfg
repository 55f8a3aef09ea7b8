SPECIFICATION Spec
CHECK_DEADLOCK FALSE
CONSTANTS
    Msg = {"a1"}
    Arrivals <- Single
    Prefetch = 1
    DeliveryLimit = 3
    User = {"u", "v"}
    Area = {"A", "B"}
    InitialAreas = {"A", "B"}
    Doomed = {}
    None = None
    UserOf <- Owner
    DeviceOf <- Numbered
    SeqNoOf <- FromZero
    Device = {"d"}
    Key <- PairKeys
    KeyOf <- DistinctKeys
    StoredSeq <- NoRows
    Cover <- Inside
    Malformed = {}
    Inaccurate = {}
    MaxCrashes = 0
    MaxShutdowns = 0
    MaxFaults = 0
    MaxLostReplies = 0
INVARIANTS
    DuplicateMeansSuperseded
