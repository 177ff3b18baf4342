CONSTANTS
    MaxStatuses = 1
    MaxCommands = 1
    MaxInstances = 3
SPECIFICATION FairSpec
INVARIANTS
    TypeOK
    FramesWhole
    StoppedHoldsNothing
PROPERTIES
    ListensAgain
CHECK_DEADLOCK FALSE
