CONSTANTS
    MaxStatuses = 1
    MaxCommands = 1
    MaxInstances = 1
SPECIFICATION FairSpec
PROPERTIES
    StatusStreams
CHECK_DEADLOCK FALSE
