SPECIFICATION Spec
\* The process ends.
CHECK_DEADLOCK FALSE
CONSTANTS
    Targets = 2
    Searches = 0
INVARIANT ByebyeIsLast
