SPECIFICATION Spec
CHECK_DEADLOCK FALSE
CONSTANTS
    LogRow <- All
    Present <- Early
    Query <- Queries
    MaxLimit = 3
    Absent = Absent
INVARIANTS
    NoRowTwice
    NothingMissed
