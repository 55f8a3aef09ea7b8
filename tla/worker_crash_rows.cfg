SPECIFICATION Spec
CHECK_DEADLOCK FALSE
CONSTANTS
    Msg = {"a1", "a2", "b1"}
    Arrivals <- Streams
    Prefetch = 3
    DeliveryLimit = 3
    User = {"u", "v"}
    Area = {"A", "B"}
    InitialAreas = {"A", "B"}
    Doomed = {}
    None = None
    UserOf <- Owner
    DeviceOf <- Numbered
    SeqNoOf <- Numbers
    Device = {"d"}
    Key <- PairKeys
    KeyOf <- DistinctKeys
    StoredSeq <- NoRows
    Cover <- Inside
    Malformed = {}
    Inaccurate = {}
    MaxCrashes = 1
    MaxShutdowns = 0
    MaxFaults = 0
    MaxLostReplies = 0
INVARIANTS
    OneRowPerVisit
