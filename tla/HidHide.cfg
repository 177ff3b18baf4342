CONSTANTS
    MaxToggles = 2
    MaxLate = 1
SPECIFICATION FairSpec
INVARIANTS
    TypeOK
    OkMeansDone
    FlagIsResult
PROPERTIES
    CommandsReachSend
