CONSTANTS
    p1 = p1
    p2 = p2
    Pod = {p1, p2}
    Realm = {master, r}
    Master = master
    Tenants = {r, q}
    None = None
    Known <- KnownValue
    MigrateOnBoot = {p1, p2}
    Quickstart = {p1, p2}
    MaxBoots <- MCBoots
    MaxFresh = 2
    Idle = Idle
    Hooks = 1
    max_attempts = 2
    MIN_RETENTION_DAYS = 2
    RetentionDays = {0, 1, 3}
    MaxEvent = 2
    MaxDay = 4
SPECIFICATION MCSpec
INVARIANTS StartsOnce KeysServe TrailWhole
PROPERTIES StartUpEnds FloorKept Drains
CHECK_DEADLOCK FALSE
