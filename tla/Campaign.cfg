SPECIFICATION Spec
CONSTANTS
    Savers = {p1, p2}
    Nobody = Nobody
    NoFile = NoFile
    Runs = {1, 2, 3, 4}
    World = 2
    LastStep = 4
    Every = 3
    Warmup = 1
    Windows = 2
    MaxFaults = 3
INVARIANTS
    NeverTorn
    AckedKept
    EvidenceCovers
    RefusedOnlyAfterRollback
    TerminalEvidence
PROPERTIES
    DcpSpec
    Completes
CHECK_DEADLOCK FALSE
