-------------------------- MODULE MCClusterStartup --------------------------
(* Instances of ClusterStartup for TLC.                                    *)
EXTENDS ClusterStartupInv, TLC

MeshBeats == MeshLinks

AllBeats == Links

GameBeats == Games \X {Gm}

GateSymmetry == Permutations(Gates)

Symmetry == Permutations(Games) \cup Permutations(Stubs)

=============================================================================
