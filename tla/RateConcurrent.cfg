SPECIFICATION Spec
CONSTANTS
    Threads = {t1, t2}
    Principals = {alice}
    Rpm = 2
    Burst = 2
    Minute = 5
    Second = 2
    MaxClock = 8
INVARIANTS
    RatePerThread
PROPERTIES
    RetryHonoured
CHECK_DEADLOCK FALSE
