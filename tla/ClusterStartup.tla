--------------------------- MODULE ClusterStartup ---------------------------
(***************************************************************************)
(* The cluster: one GM, the Games and the Gates over the inner network.    *)
(* Every node runs a single-threaded event loop, so a handler is one step; *)
(* the interleaving of the nodes, the delays of the network, lost links,   *)
(* heartbeat timeouts and failures of local steps are all there.           *)
(***************************************************************************)
EXTENDS GmNode, GameNode, GateNode

vars == <<link, conn, toServer, toClient, session, faults,
          gmSession, registeredNodes, allNodesOnline, meshReady,
          allGamesMeshReady, owner, stubsReady, readyEpoch, gateOpen,
          onlineSeen, meshCurrent, epoch, owned, readyStubs, reportedEpoch,
          hosted, posted, gameSession, clusterReady, clusterReadyEpoch>>

Init == NetInit /\ GmInit /\ GameInit /\ GateInit

\* A step of the network or of one kind of node leaves the others' state alone.
OfNet(A) == A /\ UNCHANGED gmVars /\ UNCHANGED gameVars /\ UNCHANGED gateVars
OfGm(A) == A /\ UNCHANGED gameVars /\ UNCHANGED gateVars
OfGame(A) == A /\ UNCHANGED gmVars /\ UNCHANGED gateVars
OfGate(A) == A /\ UNCHANGED gmVars /\ UNCHANGED gameVars

Next == OfNet(NetNext) \/ OfGm(GmNext) \/ OfGame(GameNext) \/ OfGate(GateNext)

Spec == Init /\ [][Next]_vars

-----------------------------------------------------------------------------
(* Safety.                                                                 *)

TypeOK == NetTypeOK /\ GmTypeOK /\ GameTypeOK /\ GateTypeOK

\* What a Game has learnt about the startup is true of the GM: a Game that
\* dials Gates was told so by a GM that counted every node
\* (HandleClusterNodesOnlineNotify against OnAllNodeOnline).
OnlineIsTrue ==
    \A g \in Games : onlineSeen[g] => allNodesOnline /\ registeredNodes = Nodes

\* A Game that has once concluded that its mesh is complete has been accepted
\* by every Gate, and stays known there when links are lost and the conclusion
\* is kept (OnAllGateConnected against HandleGameRegisterMessage).
MeshIsKnown ==
    \A g \in Games : meshCurrent[g] => \A t \in Gates : gameSession[t][g] # "Configured"

\* No stub runs on two Games, whatever is lost, delayed or fails half-way
\* (CreateAllLocalStubs and ApplyOwnership against EnsureServerStubAssignments).
OneHostPerStub ==
    \A g, h \in Games : hosted[g] \cap hosted[h] # {} => g = h

\* A stub the GM holds for Ready is installed on the Game that owns it
\* (HandleGameStubsReadyReport).
ReadyIsHosted == \A s \in stubsReady : owner[s] \in Games /\ s \in hosted[owner[s]]

\* A Gate that admits clients can reach every service: all Games have
\* registered with it and every stub is hosted by its owner
\* (HandleClusterReadyNotify).
AdmissionIsSafe ==
    \A t \in Gates : clusterReady[t] =>
        /\ \A g \in Games : gameSession[t][g] # "Configured"
        /\ \A s \in Stubs : owner[s] \in Games /\ s \in hosted[owner[s]]

\* A dialer that believes it is registered has an entry in the GM's session
\* table, answers to older requests notwithstanding (HandleRegisterResponse).
RegisteredHasEntry ==
    \A n \in Nodes : session[<<n, Gm>>].registered => gmSession[n] # "None"

-----------------------------------------------------------------------------
(* What a step may never do.                                               *)

\* Ownership is decided once: an assigned stub never changes its owner
\* (EnsureServerStubAssignments).
OwnerIsFinal == [][\A s \in Stubs : owner[s] # NoGame => owner'[s] = owner[s]]_vars

\* The startup implements its barriers.
Barrier == INSTANCE StartupBarrier WITH
    registered <- registeredNodes,
    known <- [t \in Gates |-> {g \in Games : gameSession[t][g] # "Configured"}],
    meshed <- {g \in Games : meshCurrent[g]},
    hosts <- hosted,
    admitting <- {t \in Gates : clusterReady[t]}

BarrierSpec == Barrier!Spec

-----------------------------------------------------------------------------
(* Liveness.  Connections are retried, sockets are polled and timers fire: *)
(* weak fairness of everything but the faults.                             *)

Fairness ==
    /\ \A l \in Links : WF_vars(OfNet(TcpConnect(l) \/ Handshake(l)))
    /\ \A n \in Nodes : WF_vars(OfGm(GmHandleRegisterMessage(n) \/ GmHandleHeartbeatMessage(n)))
    /\ \A g \in Games :
          /\ WF_vars(OfGm(GmHandleGameGateMeshReadyReport(g) \/ GmHandleGameStubsReadyReport(g)))
          /\ WF_vars(OfGame(GameGmConnected(g) \/ GameGmDisconnected(g)))
          /\ WF_vars(OfGame(\/ GameHandleRegisterResponse(g)
                            \/ GameHandleHeartbeatResponse(g)
                            \/ GameHandleClusterNodesOnlineNotify(g)
                            \/ GameHandleServerStubOwnershipSync(g)))
          /\ WF_vars(OfGame(GameHandleManagedServerStubReady(g)))
          /\ WF_vars(OfGame(GameSendHeartbeatRequest(g)))
    /\ \A g \in Games, t \in Gates :
          /\ WF_vars(OfGame(GameGateConnected(g, t) \/ GameGateDisconnected(g, t)))
          /\ WF_vars(OfGame(\/ GameHandleGateRegisterResponse(g, t)
                            \/ GameHandleGateHeartbeatResponse(g, t)))
          /\ WF_vars(OfGame(GameSendGateHeartbeatRequest(g, t)))
          /\ WF_vars(OfGate(\/ GateHandleGameRegisterMessage(g, t)
                            \/ GateHandleGameHeartbeatMessage(g, t)))
    /\ \A t \in Gates :
          /\ WF_vars(OfGate(GateGmConnected(t) \/ GateGmDisconnected(t)))
          /\ WF_vars(OfGate(\/ GateHandleRegisterResponse(t)
                            \/ GateHandleHeartbeatResponse(t)
                            \/ GateHandleClusterReadyNotify(t)))
          /\ WF_vars(OfGate(GateSendHeartbeatRequest(t)))

FairSpec == Spec /\ Fairness

\* Every Gate comes to admit clients: nobody waits for ever for a registration,
\* a report or a notification (the chain of HandleRegisterMessage,
\* OnAllNodeOnline, OnAllGameReady and OnAllStubReady).  It holds without faults
\* when Connected is reported no sooner than the handshake ends.
StartupCompletes == <>(\A t \in Gates : clusterReady[t])

-----------------------------------------------------------------------------
(* What the documents say and the code does not do.                        *)

\* STARTUP_FLOW.md: a Game does not go on using its mesh conclusion once a
\* Gate is no longer connected (HandleGateConnectionStateChanged).
MeshConclusionIsCurrent ==
    \A g \in Games : meshCurrent[g] =>
        \A t \in Gates : conn[<<g, t>>] = "Connected" /\ session[<<g, t>>].registered

\* STARTUP_FLOW.md: a registered Game beats periodically, so an unanswered
\* heartbeat does not stay pending for ever (SendHeartbeatRequest's guard on
\* heartbeat_seq, which nothing but the answer clears).
HeartbeatsGoOn == \A g \in Games : []<>(session[<<g, Gm>>].heartbeat_seq = SeqNone)

\* STARTUP_FLOW.md: when a registration session is lost the node goes through
\* registration again; so a Gate is registered again after the last fault
\* (GateNode's ResetGmSessionState against the GM's node id conflict).
GateComesBack == \A t \in Gates : []<>session[<<t, Gm>>].registered

=============================================================================
