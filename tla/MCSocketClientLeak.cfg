CONSTANTS
    ErrorAfter = 2
    MaxStarts = 1
    MaxNetwork = 2
SPECIFICATION Spec
CHECK_DEADLOCK FALSE
INVARIANT NoSocketLeaks
