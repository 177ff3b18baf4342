CONSTANTS
    MaxReports = 0
    MaxRumbles = 2
    InboxSize = 1
    RingSize = 2
SPECIFICATION FairSpec
INVARIANTS
    WrittenInOrder
PROPERTIES
    DropsOnlyAroundStartAndStop
    OutputsLeaveRing
    ImplementsOutputChannel
CHECK_DEADLOCK FALSE
