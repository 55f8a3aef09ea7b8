SPECIFICATION FairSpec
CHECK_DEADLOCK FALSE
CONSTANTS
    Event = {"e"}
    Body <- OneBody
    Oversized = {}
    Name = {"u", "d"}
    DateString = {"t1", "t2"}
    MaxAccuracy = 100
    Absent = Absent
    Null = Null
    Bound = TRUE
    MaxAttempts = 2
    MaxDrops = 2
    MaxRefusals = 0
    MaxChannelErrors = 1
PROPERTIES
    AlwaysPublishableAgain
