SPECIFICATION FairSpec
\* The process ends.
CHECK_DEADLOCK FALSE
CONSTANTS
    Targets = 3
    Searches = 2
INVARIANTS
    TypeOK
    FarewellIsComplete
PROPERTY Stops
