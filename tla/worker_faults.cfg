SPECIFICATION Spec
CHECK_DEADLOCK FALSE
CONSTANTS
    Msg = {"a1", "a2", "b1", "a3"}
    Arrivals <- Walks
    Prefetch = 3
    DeliveryLimit = 3
    User = {"u", "v"}
    Area = {"A"}
    InitialAreas = {"A"}
    Doomed = {}
    None = None
    UserOf <- Owner
    DeviceOf <- Numbered
    SeqNoOf <- Numbers
    Device = {"d"}
    Key <- PairKeys
    KeyOf <- DistinctKeys
    StoredSeq <- NoRows
    Cover <- InsideA
    Malformed = {}
    Inaccurate = {}
    MaxCrashes = 1
    MaxShutdowns = 1
    MaxFaults = 1
    MaxLostReplies = 0
INVARIANTS
    TypeOK
    SameUserSerial
    EveryDeliveryOwned
    ChainOrder
    DuplicateMeansSuperseded
    LoggedBeforeAcked
    OneRowUnlessRedelivered
    LastPositionWins
PROPERTIES
    ImplementsEntryLog
