CONSTANTS
    Operator = {o1, o2}
    Kind = {"realm", "client", "user", "org", "agent", "role", "group", "oidc", "saml", "ldap"}
    Sample <- MCSample
    Typed <- MCTyped
    None = None
    Rules <- MCRules
    Measure <- MCMeasure
    Refused = Refused
    Idle = Idle
    Gone = Gone
    Absent = Absent
    Existing = {"x"}
    Uuid = {"x", "z"}
    Realm = {z1, z2}
    Id = {i1, i2}
    Name = {n1, n2}
    Owner = {w1, w2}
    Homes <- MCHomes
SPECIFICATION MCSpec
SYMMETRY Symmetry
INVARIANTS ShownAsSaved PriorityDecides  
PROPERTY UntouchedKeeps
CHECK_DEADLOCK FALSE
