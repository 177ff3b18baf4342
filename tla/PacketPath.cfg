CONSTANTS
    Reports <- MCReports
    Outputs <- MCOutputs
    Hit <- MCHit
    Errors <- MCErrors
SPECIFICATION Spec
INVARIANTS
    TypeOK
    DeliveredIffIntact
    ShownIsPressed
    MaskIsReport
    WrittenIsSealed
PROPERTIES
    TagsFollow
CHECK_DEADLOCK FALSE
