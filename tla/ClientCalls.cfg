SPECIFICATION Spec
CONSTANTS
    Gm = gm
    Games = {g1, g2}
    Gates = {t1}
    Stubs = {s1}
    NoGame = none
    MaxSeq = 2
    MaxFaults = 0
    EarlyConnected = FALSE
    HeartbeatLinks <- NoBeats
    Accounts = {a1, a2}
    Avatars = {v1, v2}
    NoAccount = noacc
    NoAvatar = noav
    Hosts = {h1}
    Ports = {p1, p2}
    MaxConv = 2
    MaxSessions = 2
    MaxQueue = 3
    OnlineHome = g1
SYMMETRY AccountSymmetry
INVARIANTS TypeOK OneSessionPerConversation IndexesAgree ToldIsTrue PushedToItsAccount
PROPERTIES BindingIsStable
