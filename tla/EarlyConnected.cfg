SPECIFICATION FairSpec
CONSTANTS
    Gm = gm
    Games = {g1}
    Gates = {t1}
    Stubs = {s1}
    NoGame = none
    MaxSeq = 2
    MaxFaults = 0
    EarlyConnected = TRUE
    HeartbeatLinks <- MeshBeats
PROPERTIES StartupCompletes
CHECK_DEADLOCK FALSE
