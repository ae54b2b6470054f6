CONSTANTS
    Task = {t1, t2}
    Org = {o1, o2}
    Alias = {a, b}
    User = {u}
    Domain = {d}
    Role = {r}
    RoleName = {n}
    Invitation = {i}
    Client = {c}
    Idp = {p}
    None = None
    MaxLoad = 3
    Login = {l1}
    Seeder = {t1, t2}
    FlowId = {o1, o2}
    Graph = {g1, g2}
    NodesOf <- Nodes
    Builtin = g1
    g1 = g1
    g2 = g2
    n1 = n1
    n2 = n2
    n3 = n3
    MaxVersion = 2
SPECIFICATION MCSpec
SYMMETRY Symmetry
INVARIANTS RowsSound VersionHeld
PROPERTY JoinKeepsMember
CHECK_DEADLOCK FALSE
