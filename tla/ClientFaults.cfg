SPECIFICATION Spec
CONSTANTS
    Gm = gm
    Games = {g1, g2}
    Gates = {t1}
    Stubs = {s1}
    NoGame = none
    MaxSeq = 3
    MaxFaults = 1
    EarlyConnected = FALSE
    HeartbeatLinks <- AwayBeats
    Accounts = {a1, a2}
    Avatars = {v1}
    NoAccount = noacc
    NoAvatar = noav
    Hosts = {h1}
    Ports = {p1}
    MaxConv = 2
    MaxSessions = 2
    MaxQueue = 2
    OnlineHome = g1
SYMMETRY AccountSymmetry
INVARIANTS IndexesAgree OneOwnerPerAvatar ServesItsAccount
PROPERTIES BindingSpec
