SPECIFICATION Spec
CONSTANTS
    Gm = gm
    Games = {g1, g2}
    Gates = {t1, t2}
    Stubs = {s1}
    NoGame = none
    MaxSeq = 2
    MaxFaults = 0
    EarlyConnected = FALSE
    HeartbeatLinks <- NoBeats
    Accounts = {a1, a2}
    Avatars = {v1}
    NoAccount = noacc
    NoAvatar = noav
    Hosts = {h1}
    Ports = {p1}
    MaxConv = 1
    MaxSessions = 1
    MaxQueue = 2
    OnlineHome = g1
SYMMETRY AccountSymmetry
INVARIANTS ServesItsAccount
