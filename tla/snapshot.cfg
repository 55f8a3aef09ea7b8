SPECIFICATION FairSpec
CHECK_DEADLOCK FALSE
CONSTANTS
    Local = {"l1", "bad", "multi", "empty", "short", "open", "triple", "text", "swapped", "big"}
    Remote = {"r"}
    Invalid = {"bad"}
    Boundary <- MCBoundary
    Point <- MCPoint
    NotANumber = NotANumber
    LngRange = 6
    LatRange = 3
    MaxVertices = 8
    Grain = 3
    Doomed = {"r"}
    Poll = {"p", "q"}
    BootJob = "boot"
    MaxFaults = 1
INVARIANTS
    TypeOK
    IndexMatchesLabel
    ErrorMeansFault
    AnswersLikePostgis
    CreatedIsInForce
PROPERTIES
    SnapshotNeverOlder
    CatchesUp
