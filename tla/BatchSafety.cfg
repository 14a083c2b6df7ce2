SPECIFICATION Spec
CONSTANTS
    a = a
    b = b
    c = c
    NoJob = NoJob
    Jobs = {a, b, c}
    Workloads <- SafetyWorkloads
    QueueCap = 2
    EventCap = 2
    Slots = 2
    PoolPages = 3
    PageTokens = 4
    MaxCtx = 16
    Chunk = 4
    Drafter = TRUE
CHECK_DEADLOCK FALSE
INVARIANTS JobPlaced SpecAlone MigrationFits PagesAccounted RowsCovered SessionOwnsCache
PROPERTIES ServiceSpec
