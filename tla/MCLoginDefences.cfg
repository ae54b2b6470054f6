CONSTANTS
    Task = {t1, t2}
    enabled = TRUE
    max_login_failures = 2
    wait_increment = 1
    max_wait = 1
    failure_reset = 1
    permanent_lockout = FALSE
    Body <- Patched
    MaxTime = 2
    MaxFailures = 3
    RecoveryCode = {r1}
    Link = {l1}
    Sms = {s1}
    RequiredActions <- ActionsValue
    a1 = a1
    a2 = a2
    MaxCount = 2
    None = None
SPECIFICATION MCSpec
SYMMETRY Symmetry
INVARIANT LockoutSound
 
