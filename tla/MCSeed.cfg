SPECIFICATION FairSpec
CONSTANTS
    MaxTries = 3
INVARIANTS
    TypeOK
    RecordTrue
    StoryInOrder
PROPERTIES
    ScriptEnds
CHECK_DEADLOCK FALSE
