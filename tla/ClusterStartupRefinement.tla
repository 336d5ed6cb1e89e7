---------------------- MODULE ClusterStartupRefinement ----------------------
(***************************************************************************)
(* The startup of the cluster implements its barriers (StartupBarrier),    *)
(* and no assigned stub ever changes its owner.                            *)
(***************************************************************************)
EXTENDS ClusterStartupProofs

\* The variables the barriers see.
Seen == <<registeredNodes, gameSession, meshCurrent, hosted, clusterReady>>

LEMMA SeenSame ==
    ASSUME UNCHANGED Seen
    PROVE  UNCHANGED Barrier!vars
  BY DEF Seen, Barrier!vars

\* The GM counts a node.
LEMMA GmRefines ==
    ASSUME IInv, OfGm(GmNext)
    PROVE  [Barrier!Next]_(Barrier!vars)
<1>1. UNCHANGED gameVars /\ UNCHANGED gateVars
  BY DEF OfGm
<1>2. \/ registeredNodes' = registeredNodes
      \/ \E n \in Nodes : registeredNodes' = registeredNodes \cup {n}
  BY DEF OfGm, GmNext, GmHandleRegisterMessage, RejectRegister, RegisterUnanswered,
     AcceptRegister, GmHandleHeartbeatMessage, GmHandleTimeoutScan,
     GmHandleGameGateMeshReadyReport, GmHandleGameStubsReadyReport, gmVars
<1>3. CASE registeredNodes' = registeredNodes
  <2>1. UNCHANGED Seen
    BY <1>1, <1>3 DEF Seen, gameVars, gateVars
  <2>2. QED
    BY <2>1, SeenSame
<1>4. ASSUME NEW n \in Nodes, registeredNodes' = registeredNodes \cup {n}
      PROVE  Barrier!Next
  <2>1. Barrier!Register(n)
    BY <1>1, <1>4 DEF Barrier!Register, gameVars, gateVars
  <2>2. QED
    BY <2>1 DEF Barrier!Next, Nodes
<1>5. QED
  BY <1>2, <1>3, <1>4

\* A Game completes its mesh.
LEMMA MeshRefines ==
    ASSUME IInv, NEW g \in Games, meshCurrent' = [meshCurrent EXCEPT ![g] = TRUE],
           \A t \in Gates : Known(<<g, t>>),
           UNCHANGED <<registeredNodes, gameSession, hosted, clusterReady>>
    PROVE  Barrier!Mesh(g)
<1>1. \A t \in Gates : gameSession[t][g] # "Configured"
  BY KnownOf
<1>2. {h \in Games : meshCurrent'[h]} = {h \in Games : meshCurrent[h]} \cup {g}
  BY DEF IInv, TypeOK, GameTypeOK
<1>3. QED
  BY <1>1, <1>2 DEF Barrier!Mesh

\* The Gate sessions of a complete mesh are backed by the Gates' entries; ss
\* is the session table the check looks at.
LEMMA MeshReachedIsKnown ==
    ASSUME NEW g \in Games, NEW ss, MeshReached(g, ss),
           \A t \in Gates : ss[<<g, t>>].registered => Known(<<g, t>>)
    PROVE  \A t \in Gates : Known(<<g, t>>)
  BY DEF MeshReached, AreAllGateSessionsConnected

\* A Game installs the stubs the GM gave it.
LEMMA HostRefines ==
    ASSUME IInv, NEW g \in Games, allGamesMeshReady,
           hosted' = [hosted EXCEPT ![g] = OwnedBy(g)],
           UNCHANGED <<registeredNodes, gameSession, meshCurrent, clusterReady>>
    PROVE  Barrier!Host(g, OwnedBy(g))
<1>1. {h \in Games : meshCurrent[h]} = Games
  BY DEF IInv, BarriersHold
<1>2. \A h \in Games \ {g} : hosted[h] \cap OwnedBy(g) = {}
  BY DEF IInv, StubsArePlaced, OwnedBy
<1>3. QED
  BY <1>1, <1>2 DEF Barrier!Host

LEMMA GameRefines ==
    ASSUME IInv, IInv', OfGame(GameNext)
    PROVE  [Barrier!Next]_(Barrier!vars)
<1>1. UNCHANGED gmVars /\ UNCHANGED gateVars
  BY DEF OfGame
<1>2. PICK g \in Games :
         \/ UNCHANGED gameVars
         \/ GameHandleClusterNodesOnlineNotify(g)
         \/ GameHandleServerStubOwnershipSync(g)
         \/ GameHandleManagedServerStubReady(g)
         \/ \E t \in Gates : \/ GameHandleGateRegisterResponse(g, t)
                             \/ GameHandleGateHeartbeatResponse(g, t)
  BY DEF OfGame, GameNext, GameGmConnected, GameGmDisconnected, GameHandleRegisterResponse,
     GameHandleHeartbeatResponse, GameSendHeartbeatRequest, GameGateConnected,
     GameGateDisconnected, GameSendGateHeartbeatRequest
<1>3. CASE UNCHANGED <<meshCurrent, hosted>>
  <2>1. UNCHANGED Seen
    BY <1>1, <1>3 DEF Seen, gmVars, gateVars
  <2>2. QED
    BY <2>1, SeenSame
<1>4. CASE /\ meshCurrent' = [meshCurrent EXCEPT ![g] = TRUE] /\ hosted' = hosted
           /\ \A t \in Gates : Known(<<g, t>>)
  <2>1. Barrier!Mesh(g)
    BY <1>1, <1>4, MeshRefines DEF gmVars, gateVars
  <2>2. QED
    BY <2>1 DEF Barrier!Next
<1>5. CASE /\ hosted' = [hosted EXCEPT ![g] = OwnedBy(g)] /\ meshCurrent' = meshCurrent
           /\ allGamesMeshReady
  <2>1. Barrier!Host(g, OwnedBy(g)) /\ OwnedBy(g) \in SUBSET Stubs
    BY <1>1, <1>5, HostRefines DEF gmVars, gateVars, OwnedBy
  <2>2. QED
    BY <2>1 DEF Barrier!Next
<1>6. CASE GameHandleClusterNodesOnlineNotify(g)
  <2>1. hosted' = hosted /\ \/ meshCurrent' = meshCurrent
                            \/ MeshReached(g, session) /\ OnAllGateConnected(g)
    BY <1>6 DEF GameHandleClusterNodesOnlineNotify
  <2>2. \A t \in Gates : session[<<g, t>>].registered => Known(<<g, t>>)
    BY LinkFacts DEF IInv, SessionsAreBacked
  <2>3. QED
    BY <1>3, <1>4, <2>1, <2>2, MeshReachedIsKnown DEF OnAllGateConnected
<1>7. CASE \E t \in Gates : \/ GameHandleGateRegisterResponse(g, t)
                            \/ GameHandleGateHeartbeatResponse(g, t)
  <2>1. hosted' = hosted /\ \/ meshCurrent' = meshCurrent
                            \/ MeshReached(g, session') /\ OnAllGateConnected(g)
    BY <1>7 DEF GameHandleGateRegisterResponse, GameHandleGateHeartbeatResponse, CheckMesh
  <2>2. \A t \in Gates : session'[<<g, t>>].registered => Known(<<g, t>>)
    <3>1. \A l : Known(l)' <=> Known(l)
      BY <1>1 DEF Known, gmVars, gateVars
    <3>2. QED
      BY <3>1, LinkFacts DEF IInv, SessionsAreBacked
  <2>3. QED
    BY <1>3, <1>4, <2>1, <2>2, MeshReachedIsKnown DEF OnAllGateConnected
<1>8. CASE GameHandleServerStubOwnershipSync(g)
  <2> DEFINE l == <<g, Gm>>
             m == Head(toClient[l])
             mine == LocalStubs(g, m)
  <2>1. m.owner = owner /\ allGamesMeshReady
    BY <1>8, LinkFacts, HeadIsSound
       DEF GameHandleServerStubOwnershipSync, Receives, IInv, SoundToClient
  <2>2. mine = OwnedBy(g)
    BY <2>1 DEF LocalStubs, OwnedBy
  <2>3. /\ meshCurrent' = meshCurrent
        /\ hosted' = hosted \/ hosted' = [hosted EXCEPT ![g] = mine]
    BY <1>8 DEF GameHandleServerStubOwnershipSync, ApplyOwnershipFails, CreateAllLocalStubs,
       ApplyOwnership
  <2>4. QED
    BY <1>3, <1>5, <2>1, <2>2, <2>3
<1>9. CASE UNCHANGED gameVars \/ GameHandleManagedServerStubReady(g)
  BY <1>3, <1>9 DEF gameVars, GameHandleManagedServerStubReady
<1>10. QED
  BY <1>2, <1>6, <1>7, <1>8, <1>9

\* A Gate accepts a Game, or admits clients.
LEMMA GateRefines ==
    ASSUME IInv, OfGate(GateNext)
    PROVE  [Barrier!Next]_(Barrier!vars)
<1>1. UNCHANGED gmVars /\ UNCHANGED gameVars
  BY DEF OfGate
<1>2. PICK t \in Gates :
         \/ UNCHANGED gateVars
         \/ GateHandleClusterReadyNotify(t)
         \/ \E g \in Games : \/ GateHandleGameRegisterMessage(g, t)
                             \/ GateHandleGameHeartbeatMessage(g, t)
  BY DEF OfGate, GateNext, GateGmConnected, GateGmDisconnected, GateHandleRegisterResponse,
     GateHandleHeartbeatResponse, GateSendHeartbeatRequest
<1>3. CASE UNCHANGED <<gameSession, clusterReady>>
  <2>1. UNCHANGED Seen
    BY <1>1, <1>3 DEF Seen, gmVars, gameVars
  <2>2. QED
    BY <2>1, SeenSame
<1>4. CASE GateHandleClusterReadyNotify(t)
  <2>1. gateOpen
    BY <1>4, LinkFacts, HeadIsSound DEF GateHandleClusterReadyNotify, Receives, IInv, SoundToClient
  <2>2. gameSession' = gameSession /\ \/ clusterReady' = clusterReady
                                      \/ clusterReady' = [clusterReady EXCEPT ![t] = TRUE]
    BY <1>4 DEF GateHandleClusterReadyNotify, OpenClientAdmission
  <2>3. CASE clusterReady' = [clusterReady EXCEPT ![t] = TRUE]
    <3>1. {h \in Games : meshCurrent[h]} = Games
      BY <2>1 DEF IInv, BarriersHold
    <3>2. \A s \in Stubs : \E g \in Games : s \in hosted[g]
      BY <2>1 DEF IInv, BarriersHold, StubsArePlaced
    <3>3. {u \in Gates : clusterReady'[u]} = {u \in Gates : clusterReady[u]} \cup {t}
      BY <2>3 DEF IInv, TypeOK, GateTypeOK
    <3>4. Barrier!Admit(t)
      BY <1>1, <2>2, <3>1, <3>2, <3>3 DEF Barrier!Admit, gmVars, gameVars
    <3>5. QED
      BY <3>4 DEF Barrier!Next
  <2>4. QED
    BY <1>3, <2>2, <2>3
<1>5. ASSUME NEW g \in Games, GateHandleGameRegisterMessage(g, t)
      PROVE  Barrier!Next
  <2> DEFINE known == [u \in Gates |-> {h \in Games : gameSession[u][h] # "Configured"}]
  <2>1. registeredNodes = Nodes
    <3>1. Head(toServer[<<g, t>>]) \in SoundToServer(<<g, t>>)
      BY <1>5, LinkFacts, HeadIsSound DEF GateHandleGameRegisterMessage, GateTakes, Accepts, IInv
    <3>2. onlineSeen[g]
      BY <1>5, <3>1, LinkFacts DEF SoundToServer, GateHandleGameRegisterMessage, GateTakes, Accepts
    <3>3. QED
      BY <3>2 DEF IInv, BarriersHold
  <2>2. gameSession' = [gameSession EXCEPT ![t][g] = "Registered"] /\ clusterReady' = clusterReady
    BY <1>5 DEF GateHandleGameRegisterMessage
  <2>3. [u \in Gates |-> {h \in Games : gameSession'[u][h] # "Configured"}]
          = [known EXCEPT ![t] = @ \cup {g}]
    BY <2>2 DEF IInv, TypeOK, GateTypeOK
  <2>4. Barrier!Know(t, g)
    BY <1>1, <2>1, <2>2, <2>3 DEF Barrier!Know, Nodes, gmVars, gameVars
  <2>5. QED
    BY <2>4 DEF Barrier!Next
<1>6. ASSUME NEW g \in Games, GateHandleGameHeartbeatMessage(g, t)
      PROVE  UNCHANGED Barrier!vars
  <2>1. \/ gameSession' = gameSession
        \/ /\ gameSession[t][g] # "Configured"
           /\ gameSession' = [gameSession EXCEPT ![t][g] = "Ready"]
    BY <1>6 DEF GateHandleGameHeartbeatMessage
  <2>2. [u \in Gates |-> {h \in Games : gameSession'[u][h] # "Configured"}]
          = [u \in Gates |-> {h \in Games : gameSession[u][h] # "Configured"}]
    BY <2>1 DEF IInv, TypeOK, GateTypeOK
  <2>3. clusterReady' = clusterReady
    BY <1>6 DEF GateHandleGameHeartbeatMessage
  <2>4. QED
    BY <1>1, <2>2, <2>3 DEF Barrier!vars, gmVars, gameVars
<1>7. CASE UNCHANGED gateVars
  BY <1>3, <1>7 DEF gateVars
<1>8. QED
  BY <1>2, <1>4, <1>5, <1>6, <1>7

\* Every behaviour of the startup passes the barriers in order: registration,
\* mesh, stubs, admission (BarrierSpec).
THEOREM StartupImplementsBarrier == Spec => BarrierSpec
<1>1. Init => Barrier!Init
  BY DEF Init, NetInit, GmInit, GameInit, GateInit, Barrier!Init
<1>2. IInv /\ IInv' /\ [Next]_vars => [Barrier!Next]_(Barrier!vars)
  <2> SUFFICES ASSUME IInv, IInv', [Next]_vars
               PROVE  [Barrier!Next]_(Barrier!vars)
    OBVIOUS
  <2>1. CASE UNCHANGED vars \/ OfNet(NetNext)
    <3>1. UNCHANGED Seen
      BY <2>1 DEF Seen, vars, OfNet, gmVars, gameVars, gateVars
    <3>2. QED
      BY <3>1, SeenSame
  <2>2. CASE OfGm(GmNext) \/ OfGame(GameNext) \/ OfGate(GateNext)
    BY <2>2, GmRefines, GameRefines, GateRefines
  <2>3. QED
    BY <2>1, <2>2 DEF Next
<1>3. QED
  BY <1>1, <1>2, Invariance, PTL DEF Spec, BarrierSpec, Barrier!Spec

\* An assigned stub never changes its owner: only the report that completes the
\* mesh assigns owners, and before it no stub has one.
THEOREM OwnerIsFinalAlways == Spec => OwnerIsFinal
<1>1. IInv /\ [Next]_vars => [\A s \in Stubs : owner[s] # NoGame => owner'[s] = owner[s]]_vars
  <2> SUFFICES ASSUME IInv, [Next]_vars
               PROVE  \A s \in Stubs : owner[s] # NoGame => owner'[s] = owner[s]
    OBVIOUS
  <2>1. owner' = owner \/ ~allGamesMeshReady
    BY DEF Next, OfNet, OfGm, OfGame, OfGate, GmNext, GmHandleRegisterMessage, RejectRegister,
       RegisterUnanswered, AcceptRegister, GmHandleHeartbeatMessage, GmHandleTimeoutScan,
       GmHandleGameGateMeshReadyReport, LastGameReady, GmHandleGameStubsReadyReport, gmVars,
       vars
  <2>2. QED
    BY <2>1 DEF IInv, StubsArePlaced
<1>2. QED
  BY <1>1, Invariance, PTL DEF Spec, OwnerIsFinal

=============================================================================
