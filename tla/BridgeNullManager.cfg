CONSTANTS
    MaxReports = 0
    MaxRumbles = 1
    InboxSize = 1
    RingSize = 1
SPECIFICATION Spec
INVARIANTS
    NullManagerNotUsed
CHECK_DEADLOCK FALSE
