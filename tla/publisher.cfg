SPECIFICATION FairSpec
CHECK_DEADLOCK FALSE
CONSTANTS
    Event = {"e", "f"}
    Body <- Bodies
    Oversized <- LargeBodies
    Name = {"u", "d"}
    DateString = {"t1", "t2"}
    MaxAccuracy = 100
    Absent = Absent
    Null = Null
    Bound = TRUE
    MaxAttempts = 2
    MaxDrops = 2
    MaxRefusals = 2
    MaxChannelErrors = 1
INVARIANTS
    AnswerMatchesQueue
    QueuedIsUsable
    OneReconnect
PROPERTIES
    EveryPublishAnswered
    PublishableAgain
