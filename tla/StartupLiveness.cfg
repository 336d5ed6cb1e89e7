SPECIFICATION FairSpec
CONSTANTS
    Gm = gm
    Games = {g1, g2}
    Gates = {t1}
    Stubs = {s1, s2}
    NoGame = none
    MaxSeq = 2
    MaxFaults = 0
    EarlyConnected = FALSE
    HeartbeatLinks <- MeshBeats
PROPERTIES StartupCompletes
CHECK_DEADLOCK FALSE
