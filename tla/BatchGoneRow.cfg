SPECIFICATION Spec
CONSTANTS
    a = a
    b = b
    c = c
    NoJob = NoJob
    Jobs = {a, b, c}
    Workloads <- GoneWorkloads
    QueueCap = 2
    EventCap = 9
    Slots = 2
    PoolPages = 3
    PageTokens = 4
    MaxCtx = 16
    Chunk = 4
    Drafter = FALSE
CHECK_DEADLOCK FALSE
PROPERTIES GoneRowsLeave
