SPECIFICATION TakedownSpec
CONSTANTS
    MaxTime = 3
    MaxReindexes = 1
INVARIANTS
    HiddenAtOnce
CHECK_DEADLOCK FALSE
