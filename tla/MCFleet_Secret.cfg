CONSTANTS
    p1 = p1
    p2 = p2
    Pod = {p1, p2}
    Realm = {master, r}
    Master = master
    Tenants = {r}
    None = None
    Known <- KnownValue
    MigrateOnBoot = {p1, p2}
    Quickstart = {p1, p2}
    MaxBoots <- MCBoots
    MaxFresh = 2
    Idle = Idle
    Hooks = 1
    max_attempts = 2
    MIN_RETENTION_DAYS = 2
    RetentionDays = {0, 1}
    MaxEvent = 2
    MaxDay = 3
SPECIFICATION MCSpec
INVARIANT SecretAuthenticates
CHECK_DEADLOCK FALSE
