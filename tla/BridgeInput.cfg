CONSTANTS
    MaxReports = 3
    MaxRumbles = 0
    InboxSize = 2
    RingSize = 1
SPECIFICATION Spec
INVARIANTS
    TypeOK
    DeliveredInOrder
    StreamSaysConnected
    SubmitsToOpenDriver
    ThreadsJoined
    ReadsOpenHandle
PROPERTIES
    ImplementsInputChannel
CHECK_DEADLOCK FALSE
