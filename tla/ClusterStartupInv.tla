------------------------- MODULE ClusterStartupInv --------------------------
(***************************************************************************)
(* The inductive invariant behind the safety of the startup.  The          *)
(* conclusions of a node are justified by what another node has done, and  *)
(* travel in messages: so the invariant says of every message under way    *)
(* that what it claims is true when it is sent and stays true, however     *)
(* late it is read.                                                        *)
(***************************************************************************)
EXTENDS ClusterStartup

\* The listener of link l has made an entry for its dialer.
Known(l) == IF l[2] = Gm THEN gmSession[l[1]] # "None"
            ELSE gameSession[l[2]][l[1]] # "Configured"

\* The messages whose claim is true, from the dialer and to the dialer of l.
SoundToServer(l) ==
    {m \in ToServerMessages :
        /\ m.type = "RegisterRequest" /\ l \in MeshLinks => onlineSeen[l[1]]
        /\ m.type = "MeshReadyReport" => l[1] \in Games /\ meshCurrent[l[1]]
        /\ m.type = "StubsReadyReport" => l[1] \in Games /\ m.ready \subseteq hosted[l[1]]}
SoundToClient(l) ==
    {m \in ToClientMessages :
        /\ m.type = "RegisterResponse" /\ m.ok => Known(l)
        /\ m.type = "ClusterNodesOnlineNotify" => allNodesOnline
        /\ m.type = "OwnershipSync" => allGamesMeshReady /\ m.owner = owner
        /\ m.type = "ClusterReadyNotify" => gateOpen}

\* Every message under way is true.
MailIsSound ==
    \A l \in Links : /\ toServer[l] \in Seq(SoundToServer(l))
                     /\ toClient[l] \in Seq(SoundToClient(l))

\* A dialer's registered flag is backed by the listener's entry.
SessionsAreBacked == \A l \in Links : session[l].registered => Known(l)

\* Each barrier rests on the one before it.
BarriersHold ==
    /\ allNodesOnline => registeredNodes = Nodes
    /\ \A g \in Games : onlineSeen[g] => allNodesOnline
    /\ \A g \in Games : meshCurrent[g] => \A t \in Gates : Known(<<g, t>>)
    /\ \A g \in meshReady : meshCurrent[g]
    /\ allGamesMeshReady => meshReady = Games
    /\ gateOpen => allGamesMeshReady /\ stubsReady = Stubs
    /\ \A t \in Gates : clusterReady[t] => gateOpen

\* The stubs of a Game are those the GM gave it; ready ones are installed.
StubsArePlaced ==
    /\ ~allGamesMeshReady => stubsReady = {} /\ \A s \in Stubs : owner[s] = NoGame
    /\ \A g \in Games : /\ hosted[g] \subseteq OwnedBy(g)
                        /\ owned[g] \subseteq hosted[g]
                        /\ readyStubs[g] \subseteq owned[g]
    /\ \A s \in stubsReady : owner[s] \in Games /\ s \in hosted[owner[s]]

IInv == TypeOK /\ MailIsSound /\ SessionsAreBacked /\ BarriersHold /\ StubsArePlaced

=============================================================================
