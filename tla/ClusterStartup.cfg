SPECIFICATION Spec
CONSTANTS
    Gm = gm
    Games = {g1, g2}
    Gates = {t1}
    Stubs = {s1, s2}
    NoGame = none
    MaxSeq = 3
    MaxFaults = 1
    EarlyConnected = TRUE
    HeartbeatLinks <- MeshBeats
SYMMETRY Symmetry
INVARIANTS IInv OnlineIsTrue OneHostPerStub ReadyIsHosted AdmissionIsSafe
PROPERTIES OwnerIsFinal BarrierSpec
CHECK_DEADLOCK FALSE
