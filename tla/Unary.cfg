SPECIFICATION Spec
CONSTANTS
    EventCap = 2
    MaxTokens = 4
    Lossy = TRUE
    Vocabulary <- Tokens
    StopSets <- SomeStops
INVARIANTS TextExact
PROPERTY Answered
CHECK_DEADLOCK FALSE
