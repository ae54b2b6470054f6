CONSTANTS
    Task = {t1, t2}
    Flow = {f1}
    Session = {s1}
    Code = {c1}
    Client = {a, b}
    None = None
    Idle = Idle
    Gone = Gone
    person = person
    sp = sp
    plain = plain
    bare = bare
    rp = rp
    User = {person}
    SamlClient = {sp, plain, bare, rp}
    Config <- SpConfig
    Profile <- Profiles
    Documents <- Requests
    Backchannel = {rp}
    MaxSession = 2
    MaxBrowser = 1
    MaxName = 3
    MaxSent = 2
    Realm = {"r", "q"}
    Alias = {"oidc", "saml"}
    Cfg <- IdpConfig
    Reply <- TokenReply
    Document <- Response
    MaxState = 2
    MaxUser = 4
    MaxNow = 2
SPECIFICATION MCSpec
SYMMETRY Symmetry
INVARIANTS FinishedFlowStaysGone SettledClientStays LoggedOutIsOver ResponseFits
PROPERTIES CodesSingleUse StatesSingleUse LinkKept
CHECK_DEADLOCK FALSE
