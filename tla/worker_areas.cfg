SPECIFICATION FairSpec
CHECK_DEADLOCK FALSE
CONSTANTS
    Msg = {"a1", "a2", "b1", "z"}
    Arrivals <- WithBad
    Prefetch = 2
    DeliveryLimit = 1
    User = {"u", "v"}
    Area = {"A", "B", "C"}
    InitialAreas = {"A", "B"}
    Doomed = {"B"}
    None = None
    UserOf <- Owner
    DeviceOf <- Numbered
    SeqNoOf <- Numbers
    Device = {"d"}
    Key <- PairKeys
    KeyOf <- DistinctKeys
    StoredSeq <- NoRows
    Cover <- AnotherThenNew
    Malformed = {"z"}
    Inaccurate = {"b1"}
    MaxCrashes = 1
    MaxShutdowns = 1
    MaxFaults = 0
    MaxLostReplies = 0
INVARIANTS
    MemoryTracksPresence
    DropHeals
PROPERTIES
    CleanClose
    EverythingSettles
