CONSTANTS
    Task = {t1, t2}
    pool_size = 1
    total = 2
    CIRCUIT_OPEN_THRESHOLD = 2
    PROBE_INTERVAL = 2
    Caller = {a, b, c}
    MaxLoads = 3
    MayDrop = TRUE
    capacity = 2
    refill_per_sec = 2
    SEC = 3
    RateTime = 5
SPECIFICATION MCSpec
INVARIANTS PermitsConserved LoaderSound WithinRate
PROPERTIES Recovers EarlyWaiterServed
CHECK_DEADLOCK FALSE
