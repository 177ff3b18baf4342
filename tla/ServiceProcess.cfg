CONSTANTS
    Ui = {u1}
    Service = {s1, s2}
    NoOne = NoOne
    TheUser = TheUser
SPECIFICATION FairSpec
INVARIANTS
    TypeOK
    ExternalLeftAlone
PROPERTIES
    PipeServedAgain
    ShutdownArrives
    StopWaitsOnlyForClient
CHECK_DEADLOCK FALSE
