CONSTANTS
    MaxReports = 1
    MaxRumbles = 0
    InboxSize = 1
    RingSize = 1
SPECIFICATION FairSpec
PROPERTIES
    LoopCancellable
CHECK_DEADLOCK FALSE
