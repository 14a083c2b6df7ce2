SPECIFICATION BudgetSpec
CONSTANTS
    Jobs = {j1, j2}
    NoJob = NoJob
    Probes = {p1}
    Cap = 2
    QueueCap = 1
    EventCap = 1
    MaxTokens = 3
INVARIANTS
    SessionOwnsCache
    PermitsConserved
    InFlightCovered
PROPERTIES
    FaultLatched
    ServiceSpec
    EveryJobEnds
CHECK_DEADLOCK FALSE
