SPECIFICATION FairSpec
CONSTANTS
    Gm = gm
    Games = {g1}
    Gates = {t1}
    Stubs = {s1}
    NoGame = none
    MaxSeq = 3
    MaxFaults = 1
    EarlyConnected = FALSE
    HeartbeatLinks <- GameBeats
PROPERTIES HeartbeatsGoOn
CHECK_DEADLOCK FALSE
