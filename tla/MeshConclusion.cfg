SPECIFICATION Spec
CONSTANTS
    Gm = gm
    Games = {g1}
    Gates = {t1}
    Stubs = {s1}
    NoGame = none
    MaxSeq = 3
    MaxFaults = 1
    EarlyConnected = FALSE
    HeartbeatLinks <- MeshBeats
INVARIANTS MeshConclusionIsCurrent
CHECK_DEADLOCK FALSE
