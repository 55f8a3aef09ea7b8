SPECIFICATION Spec
CHECK_DEADLOCK FALSE
CONSTANTS
    Msg = {"a1", "a2", "b1", "a3"}
    Arrivals <- WalksAndExits
    Prefetch = 1
    DeliveryLimit = 5
    User = {"u", "v"}
    Area = {"A", "B"}
    InitialAreas = {"A", "B"}
    Doomed = {}
    None = None
    UserOf <- Owner
    DeviceOf <- Mixed
    SeqNoOf <- Numbers
    Device = {"d"}
    Key <- PairKeys
    KeyOf <- DistinctKeys
    StoredSeq <- NoRows
    Cover <- Inside
    Malformed = {}
    Inaccurate = {}
    MaxCrashes = 2
    MaxShutdowns = 0
    MaxFaults = 1
    MaxLostReplies = 1
INVARIANTS
    OneRowPerVisit
    FinalPresence
