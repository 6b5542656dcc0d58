SPECIFICATION FairSpec
CONSTANTS
    Capacity = 2
    AttachConnected = TRUE
    Faults = {"listen", "monitor", "pass", "api"}
    MaxQueue = 3
INVARIANTS TypeOK NothingWaits GateComesLast
PROPERTIES EventsAnswered StopsWhenAsked StopsWhenDeaf
CHECK_DEADLOCK FALSE
