CONSTANTS
    MaxReports = 0
    MaxRumbles = 0
    InboxSize = 1
    RingSize = 1
SPECIFICATION FairSpec
PROPERTIES
    LossIsReported
CHECK_DEADLOCK FALSE
