SPECIFICATION Spec
CONSTANTS
    EventCap = 2
    MaxTokens = 4
INVARIANT
    ErrorSurfaced
CHECK_DEADLOCK FALSE
