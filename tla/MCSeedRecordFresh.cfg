SPECIFICATION Spec
CONSTANTS
    MaxTries = 3
INVARIANTS
    RecordFresh
CHECK_DEADLOCK FALSE
