CONSTANTS
    Request = {r1, r2}
    Token = {t1, t2, t3}
    Family = {f1, f2}
    NoToken = NoToken
    NoFamily = NoFamily
    NoRequest = NoRequest
    c1 = c1
    c2 = c2
    Client = {c1, c2}
    grants <- Policy
    Pairwise = {c2}
    User = {u}
    Scope = {s}
    Device = {d}
    Uri = {q}
    None = None
    MaxLoad = 4
    Clerk = {r1, r2}
    RowId = {t1, t2, t3}
    RowName = {f1, f2}
    NoRow = NoRow
    MaxRows = 4
    Subject = {s}
    MaxDepth = 2
    MaxLinks = 1
SPECIFICATION MCSpec
SYMMETRY Symmetry
INVARIANTS FamilyWhole NoForkByOneTask GrantsSound DirectorySound
PROPERTIES SpentForGood GoneForGood
CHECK_DEADLOCK FALSE
