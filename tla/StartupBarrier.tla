--------------------------- MODULE StartupBarrier ---------------------------
(***************************************************************************)
(* What the startup of the cluster promises, without nodes' messages: four *)
(* barriers, each passed only when everyone has passed the one before.     *)
(*                                                                         *)
(*   every node registers -> every Game meshes with the Gates ->           *)
(*   every stub is hosted by one Game -> Gates admit clients               *)
(*                                                                         *)
(* registered  the nodes the GM has counted                                *)
(* known       known[t]: the Games that have registered with Gate t        *)
(* meshed      the Games that have declared their mesh complete            *)
(* hosts       hosts[g]: the stubs hosted by Game g                        *)
(* admitting   the Gates that admit clients                                *)
(***************************************************************************)
CONSTANTS Games, Gates, Stubs

VARIABLES registered, known, meshed, hosts, admitting

vars == <<registered, known, meshed, hosts, admitting>>

Init ==
    /\ registered = {}
    /\ known = [t \in Gates |-> {}]
    /\ meshed = {}
    /\ hosts = [g \in Games |-> {}]
    /\ admitting = {}

Register(n) ==
    /\ registered' = registered \cup {n}
    /\ UNCHANGED <<known, meshed, hosts, admitting>>

\* A Game is accepted by a Gate: not before all nodes are registered.
Know(t, g) ==
    /\ registered = Games \cup Gates
    /\ known' = [known EXCEPT ![t] = @ \cup {g}]
    /\ UNCHANGED <<registered, meshed, hosts, admitting>>

\* A Game completes its mesh: every Gate knows it.
Mesh(g) ==
    /\ \A t \in Gates : g \in known[t]
    /\ meshed' = meshed \cup {g}
    /\ UNCHANGED <<registered, known, hosts, admitting>>

\* A Game takes stubs: the mesh is complete and no other Game hosts them.
Host(g, S) ==
    /\ meshed = Games
    /\ \A h \in Games \ {g} : hosts[h] \cap S = {}
    /\ hosts' = [hosts EXCEPT ![g] = S]
    /\ UNCHANGED <<registered, known, meshed, admitting>>

\* A Gate admits clients: every stub is hosted.
Admit(t) ==
    /\ meshed = Games
    /\ \A s \in Stubs : \E g \in Games : s \in hosts[g]
    /\ admitting' = admitting \cup {t}
    /\ UNCHANGED <<registered, known, meshed, hosts>>

Next ==
    \/ \E n \in Games \cup Gates : Register(n)
    \/ \E t \in Gates, g \in Games : Know(t, g)
    \/ \E g \in Games : Mesh(g)
    \/ \E g \in Games, S \in SUBSET Stubs : Host(g, S)
    \/ \E t \in Gates : Admit(t)

Spec == Init /\ [][Next]_vars

=============================================================================
