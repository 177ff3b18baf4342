CONSTANTS
    Report = {a, b}
    NoReport = none
    kMaxReportSize = 2
    kDslMaxOutputReportSize = 2
    kDslOutputQueueCapacity = 3
SPECIFICATION Spec
INVARIANTS
    TypeOK
    RingConsistent
    SizeMarksLiveSlots
    StartedIsReady
PROPERTIES
    ImplementsQueue
