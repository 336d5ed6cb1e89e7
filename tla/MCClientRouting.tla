-------------------------- MODULE MCClientRouting ---------------------------
(* Small instances of ClientRouting.                                       *)
EXTENDS ClientRouting, TLC

MeshBeats == MeshLinks
NoBeats == {}
AwayBeats == {l \in MeshLinks : l[1] # OnlineHome}
AccountSymmetry == Permutations(Accounts)

=============================================================================
