CONSTANTS
    Node = {n1, n2, n3}
    MaxNodes = 3
    MaxEdges = 3
    User = {u1, u2}
    None = None
    Definition <- MCDefinition
    MaxSteps = 3
    Pod = {p, q}
    Task = {t1, t2}
    Idle = Idle
    Absent = Absent
    MaxVersion = 2
SPECIFICATION MCSpec
INVARIANTS Verdict WalkSound DryRunAgrees StaleExplained
PROPERTIES Answered Converges
CHECK_DEADLOCK FALSE
