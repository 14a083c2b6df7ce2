SPECIFICATION Spec
CONSTANTS
    EventCap = 2
    MaxTokens = 4
INVARIANTS
    InOrderPrefix
    OneVerdict
PROPERTY
    DeadlineCloses
CHECK_DEADLOCK FALSE
