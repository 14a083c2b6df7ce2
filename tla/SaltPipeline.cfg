SPECIFICATION Spec
CONSTANTS
    Procs = {p1, p2}
    Nobody = Nobody
    Packages = {1, 2}
    MaxFaults = 2
    MaxFailures = 1
INVARIANTS CheckpointLoads AckedKept AttemptsGrow PublishAuthorized
PROPERTIES Settles Ends
CHECK_DEADLOCK FALSE
