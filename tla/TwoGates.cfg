SPECIFICATION Spec
CONSTANTS
    Gm = gm
    Games = {g1}
    Gates = {t1, t2}
    Stubs = {s1}
    NoGame = none
    MaxSeq = 3
    MaxFaults = 1
    EarlyConnected = TRUE
    HeartbeatLinks <- AllBeats
SYMMETRY GateSymmetry
INVARIANTS TypeOK RegisteredHasEntry MeshIsKnown AdmissionIsSafe
CHECK_DEADLOCK FALSE
