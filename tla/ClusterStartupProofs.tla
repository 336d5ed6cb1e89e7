------------------------ MODULE ClusterStartupProofs ------------------------
(***************************************************************************)
(* Proofs about the startup of the cluster, for every set of Games, Gates  *)
(* and stubs and every bound: type correctness, the safety invariants, and *)
(* that the startup implements its barriers.                               *)
(***************************************************************************)
EXTENDS ClusterStartupSteps

-----------------------------------------------------------------------------
(* The Games.                                                              *)

\* A dialer sends true messages on several of its links.
LEMMA ServerSpread ==
    ASSUME TypeOK, MailIsSound, Grows,
           toServer' = [k \in Links |-> toServer'[k]],
           \A k \in Links : \/ toServer'[k] = toServer[k]
                            \/ \E m \in SoundToServer(k)' : toServer'[k] = Append(toServer[k], m)
                            \/ \E r \in Seq(SoundToServer(k)') : toServer'[k] = toServer[k] \o r
    PROVE  ServerMail
<1>1. ASSUME NEW k \in Links
      PROVE  toServer'[k] \in Seq(SoundToServer(k)')
  <2>1. toServer[k] \in Seq(SoundToServer(k)')
    BY SoundGrows DEF MailIsSound
  <2>2. /\ \A m \in SoundToServer(k)' : Append(toServer[k], m) \in Seq(SoundToServer(k)')
        /\ \A r \in Seq(SoundToServer(k)') : toServer[k] \o r \in Seq(SoundToServer(k)')
    BY <2>1, QueueOps
  <2>3. QED
    BY <2>1, <2>2
<1>2. \A k \in Links : SoundToServer(k)' \subseteq ToServerMessages
  BY DEF SoundToServer
<1>3. \A k \in Links : toServer'[k] \in Seq(ToServerMessages)
  BY <1>1, <1>2, SeqMonotonic
<1>4. QED
  BY <1>1, <1>3 DEF ServerMail

\* The reports of a Game that reaches its mesh are true.
LEMMA MeshMailSound ==
    ASSUME IInv, NEW g \in Games, meshCurrent'[g], hosted' = hosted
    PROVE  MeshMail(g) \in Seq(SoundToServer(<<g, Gm>>)')
<1> DEFINE T == SoundToServer(<<g, Gm>>)'
<1>1. MeshReadyReport \in T
  <2>1. MeshReadyReport \in ToServerMessages
    BY DEF ToServerMessages, MeshReadyReport
  <2>2. QED
    BY <2>1 DEF SoundToServer, MeshReadyReport
<1>2. ASSUME StubsDueAtMesh(g)
      PROVE  StubsReadyReport(epoch[g], readyStubs[g]) \in T
  <2>1. epoch[g] = AssignmentEpoch /\ readyStubs[g] \in SUBSET Stubs
    BY <1>2 DEF StubsDueAtMesh, StubsReadyDue, IInv, TypeOK, GameTypeOK
  <2>2. readyStubs[g] \subseteq hosted'[g]
    BY DEF IInv, StubsArePlaced
  <2>3. StubsReadyReport(AssignmentEpoch, readyStubs[g]) \in ToServerMessages
    BY <2>1 DEF ToServerMessages, StubsReadyReport
  <2>4. QED
    BY <2>1, <2>2, <2>3 DEF SoundToServer, StubsReadyReport
<1> HIDE DEF T
<1>3. <<MeshReadyReport>> \in Seq(T) /\ <<>> \in Seq(T)
  BY <1>1
<1>4. StubsDueAtMesh(g) =>
        <<MeshReadyReport, StubsReadyReport(epoch[g], readyStubs[g])>> \in Seq(T)
  BY <1>1, <1>2
<1>5. MeshMail(g) \in Seq(T)
  BY <1>3, <1>4 DEF MeshMail
<1>6. QED
  BY <1>5 DEF T

\* The mesh conclusion of Game g, when the Gates know g.
LEMMA MeshStateStep ==
    ASSUME IInv, NEW g \in Games,
           \/ UNCHANGED <<meshCurrent, reportedEpoch>>
           \/ OnAllGateConnected(g) /\ \A t \in Gates : Known(<<g, t>>),
           onlineSeen' \in [Games -> BOOLEAN],
           \A h \in Games : /\ onlineSeen[h] => onlineSeen'[h]
                            /\ onlineSeen'[h] => allNodesOnline,
           UNCHANGED <<epoch, owned, readyStubs, hosted, posted>>,
           UNCHANGED gmVars, UNCHANGED gateVars
    PROVE  Grows /\ NodesOK'
<1>1. /\ meshCurrent' \in [Games -> BOOLEAN]
      /\ reportedEpoch' \in [Games -> {0, AssignmentEpoch}]
      /\ \A h \in Games : meshCurrent[h] => meshCurrent'[h]
      /\ \A h \in Games : meshCurrent'[h] => \A t \in Gates : Known(<<h, t>>)
  <2>1. CASE UNCHANGED <<meshCurrent, reportedEpoch>>
    BY <2>1 DEF IInv, TypeOK, GameTypeOK, BarriersHold
  <2>2. CASE OnAllGateConnected(g) /\ \A t \in Gates : Known(<<g, t>>)
    <3>1. meshCurrent' = [meshCurrent EXCEPT ![g] = TRUE]
      BY <2>2 DEF OnAllGateConnected
    <3>2. reportedEpoch' \in [Games -> {0, AssignmentEpoch}]
      BY <2>2 DEF OnAllGateConnected, IInv, TypeOK, GameTypeOK
    <3>3. QED
      BY <2>2, <3>1, <3>2 DEF IInv, TypeOK, GameTypeOK, BarriersHold
  <2>3. QED
    BY <2>1, <2>2
<1>2. Grows
  BY <1>1 DEF Grows, Known, gmVars, gateVars
<1>3. GmTypeOK' /\ GameTypeOK' /\ GateTypeOK'
  BY <1>1 DEF IInv, TypeOK, GmTypeOK, GameTypeOK, GateTypeOK, gmVars, gateVars
<1>4. BarriersHold'
  <2>1. \A l : Known(l)' <=> Known(l)
    BY DEF Known, gmVars, gateVars
  <2>2. \A h \in meshReady : meshCurrent'[h]
    BY <1>1 DEF IInv, TypeOK, GmTypeOK, BarriersHold
  <2>3. QED
    BY <1>1, <2>1, <2>2 DEF IInv, BarriersHold, gmVars, gateVars
<1>5. StubsArePlaced'
  BY DEF IInv, StubsArePlaced, OwnedBy, gmVars
<1>6. QED
  BY <1>2, <1>3, <1>4, <1>5 DEF NodesOK

\* A Game consumes a response of Gate t, changes its session to s at most, and
\* checks the mesh.
LEMMA GateResponseStep ==
    ASSUME IInv, NEW g \in Games, NEW t \in Gates,
           toClient[<<g, t>>] # <<>>, Consume(<<g, t>>),
           NEW s \in Sessions, s.registered => Known(<<g, t>>),
           session' = session \/ session' = [session EXCEPT ![<<g, t>>] = s],
           CheckMesh(g, session') \/ UNCHANGED <<meshCurrent, toServer, reportedEpoch>>,
           UNCHANGED <<link, conn, faults, onlineSeen, epoch, owned, readyStubs, hosted, posted>>,
           UNCHANGED gmVars, UNCHANGED gateVars
    PROVE  IInv'
<1> DEFINE l == <<g, t>>
<1>1. l \in Links /\ <<g, Gm>> \in Links
  BY LinkFacts
<1>2. session' \in [Links -> Sessions] /\ \A k \in Links : session'[k].registered => Known(k)
  BY <1>1 DEF IInv, TypeOK, NetTypeOK, SessionsAreBacked
<1>3. CASE onlineSeen[g] /\ MeshReached(g, session') /\ CheckMesh(g, session')
  <2>1. /\ OnAllGateConnected(g)
        /\ toServer' = [toServer EXCEPT ![<<g, Gm>>] = @ \o MeshMail(g)]
    BY <1>3 DEF CheckMesh
  <2>2. \A u \in Gates : Known(<<g, u>>)
    BY <1>2, <1>3, LinkFacts DEF MeshReached, AreAllGateSessionsConnected
  <2>3. Grows /\ NodesOK'
    BY <2>1, <2>2, MeshStateStep DEF IInv, TypeOK, GameTypeOK, BarriersHold
  <2>4. meshCurrent'[g]
    BY <2>1 DEF OnAllGateConnected, IInv, TypeOK, GameTypeOK
  <2>5. ServerMail
    BY <1>1, <2>1, <2>3, <2>4, MeshMailSound, ServerSend DEF IInv
  <2>6. ClientMail
    BY <1>1, <2>3, ClientTake DEF IInv
  <2>7. SessionsAreBacked' /\ LinkTypes'
    BY <1>2, <2>3 DEF SessionsAreBacked, Grows, LinkTypes, IInv, TypeOK, NetTypeOK
  <2>8. QED
    BY <2>3, <2>5, <2>6, <2>7, Compose
<1>4. CASE UNCHANGED <<meshCurrent, toServer, reportedEpoch>>
  <2>1. UNCHANGED gameVars
    BY <1>4 DEF gameVars
  <2>2. QED
    BY <1>1, <1>4, <2>1, ResponseStep
<1>5. QED
  BY <1>3, <1>4 DEF CheckMesh

LEMMA GameGateRegisterResponseStep ==
    ASSUME IInv, NEW g \in Games, NEW t \in Gates,
           OfGame(GameHandleGateRegisterResponse(g, t))
    PROVE  IInv'
<1> DEFINE l == <<g, t>>
           m == Head(toClient[l])
           x == session[l]
           no == [x EXCEPT !.registered = FALSE, !.register_seq = SeqNone]
           yes == [NoSession EXCEPT !.registered = TRUE]
<1>1. /\ l \in Links /\ toClient[l] # <<>> /\ m.type = "RegisterResponse" /\ Consume(l)
      /\ UNCHANGED <<link, conn, faults, onlineSeen, epoch, owned, readyStubs, hosted, posted>>
      /\ UNCHANGED gmVars /\ UNCHANGED gateVars
  BY LinkFacts DEF OfGame, GameHandleGateRegisterResponse, Receives
<1>2. x \in Sessions /\ (x.registered => Known(l))
  BY <1>1 DEF IInv, TypeOK, NetTypeOK, SessionsAreBacked
<1>3. m.ok => Known(l)
  BY <1>1, HeadIsSound DEF IInv, SoundToClient
<1>4. no \in Sessions /\ ~no.registered
  BY <1>2, SessionFields, NoSessionFields DEF SeqNone
<1>5. yes \in Sessions
  BY NoSessionFields
<1>6. \/ session' = session /\ UNCHANGED <<meshCurrent, toServer, reportedEpoch>>
      \/ /\ session' = [session EXCEPT ![l] = no]
         /\ UNCHANGED <<meshCurrent, toServer, reportedEpoch>>
      \/ m.ok /\ session' = [session EXCEPT ![l] = yes] /\ CheckMesh(g, session')
  BY <1>1 DEF OfGame, GameHandleGateRegisterResponse, IInv, TypeOK, NetTypeOK
<1> HIDE DEF no, yes
<1>7. CASE session' = session /\ UNCHANGED <<meshCurrent, toServer, reportedEpoch>>
  BY <1>1, <1>2, <1>7, GateResponseStep
<1>8. CASE /\ session' = [session EXCEPT ![l] = no]
           /\ UNCHANGED <<meshCurrent, toServer, reportedEpoch>>
  BY <1>1, <1>4, <1>8, GateResponseStep
<1>9. CASE m.ok /\ session' = [session EXCEPT ![l] = yes] /\ CheckMesh(g, session')
  BY <1>1, <1>3, <1>5, <1>9, GateResponseStep
<1>10. QED
  BY <1>6, <1>7, <1>8, <1>9

LEMMA GameGateHeartbeatResponseStep ==
    ASSUME IInv, NEW g \in Games, NEW t \in Gates,
           OfGame(GameHandleGateHeartbeatResponse(g, t))
    PROVE  IInv'
<1> DEFINE l == <<g, t>>
           x == session[l]
           y == [x EXCEPT !.heartbeat_seq = SeqNone, !.inner_network_ready = TRUE]
<1>1. /\ l \in Links /\ toClient[l] # <<>> /\ Consume(l)
      /\ UNCHANGED <<link, conn, faults, onlineSeen, epoch, owned, readyStubs, hosted, posted>>
      /\ UNCHANGED gmVars /\ UNCHANGED gateVars
  BY LinkFacts DEF OfGame, GameHandleGateHeartbeatResponse, Receives
<1>2. x \in Sessions /\ (x.registered => Known(l))
  BY <1>1 DEF IInv, TypeOK, NetTypeOK, SessionsAreBacked
<1>3. y \in Sessions /\ y.registered = x.registered
  BY <1>2, SessionFields, NoSessionFields DEF SeqNone
<1>4. y.registered => Known(l)
  BY <1>2, <1>3
<1>5. \/ session' = session /\ UNCHANGED <<meshCurrent, toServer, reportedEpoch>>
      \/ session' = [session EXCEPT ![l] = y] /\ CheckMesh(g, session')
  BY <1>1 DEF OfGame, GameHandleGateHeartbeatResponse, IInv, TypeOK, NetTypeOK
<1> HIDE DEF y
<1>6. QED
  BY <1>1, <1>3, <1>4, <1>5, GateResponseStep

LEMMA GameNodesOnlineStep ==
    ASSUME IInv, NEW g \in Games, OfGame(GameHandleClusterNodesOnlineNotify(g))
    PROVE  IInv'
<1> DEFINE l == <<g, Gm>>
           m == Head(toClient[l])
           late == LateRegisters(g)
<1>1. /\ l \in Links /\ toClient[l] # <<>> /\ Consume(l)
      /\ m.type = "ClusterNodesOnlineNotify"
      /\ UNCHANGED <<link, epoch, owned, readyStubs, hosted, posted>>
      /\ UNCHANGED gmVars /\ UNCHANGED gateVars
  BY LinkFacts DEF OfGame, GameHandleClusterNodesOnlineNotify, Receives
<1>2. allNodesOnline
  BY <1>1, HeadIsSound DEF IInv, SoundToClient
<1>3. CASE ~session[l].registered
  <2>1. /\ UNCHANGED <<conn, session, toServer, faults>>
        /\ UNCHANGED gameVars
    BY <1>1, <1>3 DEF OfGame, GameHandleClusterNodesOnlineNotify, gameVars
  <2>2. session[l] \in Sessions /\ (session[l].registered => Known(l))
    BY <1>1, <1>3 DEF IInv, TypeOK, NetTypeOK
  <2>3. QED
    BY <1>1, <2>1, <2>2, ResponseStep
<1>4. CASE session[l].registered
  <2>1. /\ onlineSeen' = [onlineSeen EXCEPT ![g] = TRUE]
        /\ StartGateConnectors(g)
        /\ \A k \in late : HasNextSeq(k)
        /\ session' = [k \in Links |->
               IF k \in late
                 THEN [session[k] EXCEPT !.register_seq = ConsumeNextInnerSequence(k)]
                 ELSE session[k]]
        /\ toServer' = [k \in Links |->
               IF k \in late
                 THEN Append(toServer[k], RegisterRequest(ConsumeNextInnerSequence(k)))
               ELSE IF k = l /\ MeshReached(g, session)
                 THEN toServer[k] \o MeshMail(g)
               ELSE toServer[k]]
        /\ \/ MeshReached(g, session) /\ OnAllGateConnected(g)
           \/ ~MeshReached(g, session) /\ UNCHANGED <<meshCurrent, reportedEpoch>>
    BY <1>4 DEF OfGame, GameHandleClusterNodesOnlineNotify
  <2>2. MeshReached(g, session) => \A t \in Gates : Known(<<g, t>>)
    BY LinkFacts DEF IInv, SessionsAreBacked, MeshReached, AreAllGateSessionsConnected
  <2>3. /\ onlineSeen' \in [Games -> BOOLEAN] /\ onlineSeen'[g]
        /\ \A h \in Games : onlineSeen[h] => onlineSeen'[h]
        /\ \A h \in Games : onlineSeen'[h] => allNodesOnline
    BY <1>2, <2>1 DEF IInv, TypeOK, GameTypeOK
  <2>4. Grows /\ NodesOK'
    BY <1>1, <2>1, <2>2, <2>3, MeshStateStep
  <2>5. \A k \in late : k \in MeshLinks /\ k \in Links /\ k[1] = g
    BY DEF LateRegisters, MeshLinks, Links
  <2>6. \A k \in late : ConsumeNextInnerSequence(k) \in Seqs
    BY <2>1, NextSeq
  <2>7. session' \in [Links -> Sessions] /\ SessionsAreBacked'
    <3>1. ASSUME NEW k \in Links
          PROVE  session'[k] \in Sessions /\ session'[k].registered = session[k].registered
      <4>1. session[k] \in Sessions
        BY DEF IInv, TypeOK, NetTypeOK
      <4>2. CASE k \in late
        BY <2>1, <2>6, <4>1, <4>2, SessionFields, NoSessionFields
      <4>3. CASE k \notin late
        BY <2>1, <4>1, <4>3
      <4>4. QED
        BY <4>2, <4>3
    <3>2. session' \in [Links -> Sessions]
      BY <2>1, <3>1
    <3>3. QED
      BY <2>4, <3>1, <3>2 DEF IInv, SessionsAreBacked, Grows
  <2>8. ServerMail
    <3>1. ASSUME NEW k \in late
          PROVE  RegisterRequest(ConsumeNextInnerSequence(k)) \in SoundToServer(k)'
      <4>1. RegisterRequest(ConsumeNextInnerSequence(k)) \in ToServerMessages
        BY <2>6 DEF RegisterRequest, ToServerMessages
      <4>2. QED
        BY <2>3, <2>5, <4>1 DEF SoundToServer, RegisterRequest
    <3>2. MeshReached(g, session) => MeshMail(g) \in Seq(SoundToServer(l)')
      <4>1. MeshReached(g, session) => meshCurrent'[g]
        BY <2>1 DEF OnAllGateConnected, IInv, TypeOK, GameTypeOK
      <4>2. QED
        BY <1>1, <4>1, MeshMailSound
    <3>3. toServer' = [k \in Links |-> toServer'[k]]
      BY <2>1
    <3>4. ASSUME NEW k \in Links
          PROVE  \/ toServer'[k] = toServer[k]
                 \/ \E r \in SoundToServer(k)' : toServer'[k] = Append(toServer[k], r)
                 \/ \E r \in Seq(SoundToServer(k)') : toServer'[k] = toServer[k] \o r
      BY <2>1, <3>1, <3>2
    <3>5. QED
      BY <2>4, <3>3, <3>4, ServerSpread DEF IInv
  <2>9. ClientMail
    BY <1>1, <2>4, ClientTake DEF IInv
  <2>10. LinkTypes'
    <3>1. PICK F \in SUBSET {t \in Gates : conn[<<g, t>>] = "Stopped"} :
             /\ IF F = {} THEN UNCHANGED faults ELSE Fault
             /\ conn' = [k \in Links |->
                  IF k \in {g} \X (Gates \ F) /\ conn[k] = "Stopped" THEN "Connecting" ELSE conn[k]]
      BY <2>1 DEF StartGateConnectors
    <3>2. faults' \in 0..MaxFaults
      BY <3>1, FaultCounted DEF IInv
    <3>3. conn' \in [Links -> {"Stopped", "Connecting", "Connected"}]
      BY <3>1 DEF IInv, TypeOK, NetTypeOK
    <3>4. QED
      BY <1>1, <2>7, <3>2, <3>3 DEF IInv, TypeOK, NetTypeOK, LinkTypes
  <2>11. QED
    BY <2>4, <2>7, <2>8, <2>9, <2>10, Compose
<1>5. QED
  BY <1>3, <1>4

\* The stubs of Game g change: it installs all that the GM gave it, or none.
LEMMA StubStateStep ==
    ASSUME IInv, NEW g \in Games,
           hosted' = hosted \/ hosted' = [hosted EXCEPT ![g] = OwnedBy(g)],
           posted' \in [Games -> SUBSET Stubs],
           epoch' \in [Games -> {0, AssignmentEpoch}],
           reportedEpoch' \in [Games -> {0, AssignmentEpoch}],
           owned' \in [Games -> SUBSET Stubs],
           readyStubs' \in [Games -> SUBSET Stubs],
           \A h \in Games : owned'[h] \subseteq hosted'[h] /\ readyStubs'[h] \subseteq owned'[h],
           UNCHANGED <<onlineSeen, meshCurrent>>, UNCHANGED gmVars, UNCHANGED gateVars
    PROVE  Grows /\ NodesOK'
<1>1. /\ hosted' \in [Games -> SUBSET Stubs]
      /\ \A h \in Games : hosted[h] \subseteq hosted'[h] /\ hosted'[h] \subseteq OwnedBy(h)
  <2>1. OwnedBy(g) \in SUBSET Stubs
    BY DEF OwnedBy
  <2>2. \A h \in Games : hosted[h] \subseteq OwnedBy(h)
    BY DEF IInv, StubsArePlaced
  <2>3. hosted \in [Games -> SUBSET Stubs]
    BY DEF IInv, TypeOK, GameTypeOK
  <2>4. QED
    BY <2>1, <2>2, <2>3
<1>2. Grows
  BY <1>1 DEF Grows, Known, gmVars, gateVars
<1>3. GmTypeOK' /\ GameTypeOK' /\ GateTypeOK'
  BY <1>1 DEF IInv, TypeOK, GmTypeOK, GameTypeOK, GateTypeOK, gmVars, gateVars
<1>4. BarriersHold'
  BY DEF IInv, BarriersHold, Known, gmVars, gateVars
<1>5. StubsArePlaced'
  <2>1. \A h \in Games : OwnedBy(h)' = OwnedBy(h)
    BY DEF OwnedBy, gmVars
  <2>2. \A s \in stubsReady : owner[s] \in Games /\ s \in hosted'[owner[s]]
    BY <1>1 DEF IInv, StubsArePlaced
  <2>3. QED
    BY <1>1, <2>1, <2>2 DEF IInv, StubsArePlaced, gmVars
<1>6. QED
  BY <1>2, <1>3, <1>4, <1>5 DEF NodesOK

\* What CheckAllLocalStubsReady may report is installed.
LEMMA CheckStubsStep ==
    ASSUME IInv, Grows, NEW g \in Games, NEW e \in {0, AssignmentEpoch}, NEW own,
           NEW ready \in SUBSET Stubs, ready \subseteq hosted'[g],
           NEW reported \in {0, AssignmentEpoch},
           CheckAllLocalStubsReady(g, e, own, ready, reported)
    PROVE  ServerMail
<1> DEFINE l == <<g, Gm>>
<1>1. l \in Links
  BY LinkFacts
<1>2. CASE StubsReadyDue(meshCurrent[g], e, own, ready, reported) /\ CanReport(g)
  <2>1. e = AssignmentEpoch
    BY <1>2 DEF StubsReadyDue
  <2>2. StubsReadyReport(e, ready) \in ToServerMessages
    BY <2>1 DEF ToServerMessages, StubsReadyReport
  <2>3. StubsReadyReport(e, ready) \in SoundToServer(l)'
    BY <2>2 DEF SoundToServer, StubsReadyReport
  <2>4. toServer' = [toServer EXCEPT ![l] = Append(@, StubsReadyReport(e, ready))]
    BY <1>2 DEF CheckAllLocalStubsReady
  <2>5. QED
    BY <1>1, <2>3, <2>4, ServerAppend DEF IInv
<1>3. CASE ~(StubsReadyDue(meshCurrent[g], e, own, ready, reported) /\ CanReport(g))
  <2>1. toServer' = toServer
    BY <1>3 DEF CheckAllLocalStubsReady
  <2>2. QED
    BY <2>1, ServerSame DEF IInv
<1>4. QED
  BY <1>2, <1>3

LEMMA ReportedType ==
    ASSUME TypeOK, NEW g \in Games, NEW e \in {0, AssignmentEpoch}, NEW own, NEW ready,
           NEW reported \in {0, AssignmentEpoch},
           CheckAllLocalStubsReady(g, e, own, ready, reported)
    PROVE  reportedEpoch' \in [Games -> {0, AssignmentEpoch}]
  BY DEF CheckAllLocalStubsReady, TypeOK, GameTypeOK

LEMMA GameOwnershipStep ==
    ASSUME IInv, NEW g \in Games, OfGame(GameHandleServerStubOwnershipSync(g))
    PROVE  IInv'
<1> DEFINE l == <<g, Gm>>
           m == Head(toClient[l])
           mine == LocalStubs(g, m)
<1>1. /\ l \in Links /\ toClient[l] # <<>> /\ Consume(l) /\ m.type = "OwnershipSync"
      /\ UNCHANGED <<link, conn, session, onlineSeen, meshCurrent>>
      /\ UNCHANGED gmVars /\ UNCHANGED gateVars
  BY LinkFacts DEF OfGame, GameHandleServerStubOwnershipSync, Receives
<1>2. m.owner = owner /\ m.epoch = AssignmentEpoch
  <2>1. m \in SoundToClient(l)
    BY <1>1, HeadIsSound DEF IInv
  <2>2. QED
    BY <1>1, <2>1 DEF SoundToClient, ToClientMessages
<1>3. mine = OwnedBy(g) /\ mine \in SUBSET Stubs
  BY <1>2 DEF LocalStubs, OwnedBy
<1>4. /\ faults' = faults \/ Fault
      /\ hosted' = hosted \/ hosted' = [hosted EXCEPT ![g] = mine]
      /\ \/ /\ UNCHANGED <<epoch, owned, readyStubs, reportedEpoch, toServer>>
            /\ \/ posted' = posted
               \/ \E S \in SUBSET mine : posted' = [posted EXCEPT ![g] = @ \cup S]
         \/ CreateAllLocalStubs(g, m)
  BY DEF OfGame, GameHandleServerStubOwnershipSync, ApplyOwnershipFails, CreateAllLocalStubs,
     ApplyOwnership
<1> HIDE DEF mine
<1>5. /\ Grows /\ NodesOK'
      /\ ServerMail
  <2>1. CASE /\ UNCHANGED <<epoch, owned, readyStubs, reportedEpoch, toServer>>
             /\ \/ posted' = posted
                \/ \E S \in SUBSET mine : posted' = [posted EXCEPT ![g] = @ \cup S]
    <3>1. posted' \in [Games -> SUBSET Stubs]
      BY <1>3, <2>1 DEF IInv, TypeOK, GameTypeOK
    <3>2. \A h \in Games : owned'[h] \subseteq hosted'[h] /\ readyStubs'[h] \subseteq owned'[h]
      BY <1>3, <1>4, <2>1 DEF IInv, TypeOK, GameTypeOK, StubsArePlaced
    <3>3. Grows /\ NodesOK'
      BY <1>1, <1>3, <1>4, <2>1, <3>1, <3>2, StubStateStep DEF IInv, TypeOK, GameTypeOK
    <3>4. QED
      BY <2>1, <3>3, ServerSame DEF IInv
  <2>2. CASE CreateAllLocalStubs(g, m)
    <3> DEFINE keep == m.epoch = epoch[g] /\ mine = owned[g]
               ready == IF keep THEN readyStubs[g] ELSE {}
               reported == IF keep THEN reportedEpoch[g] ELSE 0
    <3>1. /\ ApplyOwnership(g, mine)
          /\ epoch' = [epoch EXCEPT ![g] = m.epoch]
          /\ owned' = [owned EXCEPT ![g] = mine]
          /\ readyStubs' = [readyStubs EXCEPT ![g] = ready]
          /\ CheckAllLocalStubsReady(g, m.epoch, mine, ready, reported)
      BY <2>2 DEF CreateAllLocalStubs, mine
    <3>2. /\ ready \in SUBSET Stubs /\ ready \subseteq mine
          /\ reported \in {0, AssignmentEpoch}
      BY DEF IInv, TypeOK, GameTypeOK, StubsArePlaced
    <3> HIDE DEF ready, reported
    <3>3. hosted' = [hosted EXCEPT ![g] = mine] /\ hosted'[g] = mine
      BY <3>1 DEF ApplyOwnership, IInv, TypeOK, GameTypeOK
    <3>4. posted' \in [Games -> SUBSET Stubs]
      BY <1>3, <3>1 DEF ApplyOwnership, IInv, TypeOK, GameTypeOK
    <3>5. epoch' \in [Games -> {0, AssignmentEpoch}] /\ owned' \in [Games -> SUBSET Stubs]
          /\ readyStubs' \in [Games -> SUBSET Stubs]
      BY <1>2, <1>3, <3>1, <3>2 DEF IInv, TypeOK, GameTypeOK
    <3>6. reportedEpoch' \in [Games -> {0, AssignmentEpoch}]
      BY <1>2, <3>1, <3>2, ReportedType DEF IInv
    <3>7. \A h \in Games : owned'[h] \subseteq hosted'[h] /\ readyStubs'[h] \subseteq owned'[h]
      BY <3>1, <3>2, <3>3 DEF IInv, TypeOK, GameTypeOK, StubsArePlaced
    <3>8. Grows /\ NodesOK'
      BY <1>1, <1>3, <3>3, <3>4, <3>5, <3>6, <3>7, StubStateStep
    <3>9. QED
      BY <1>2, <3>1, <3>2, <3>3, <3>8, CheckStubsStep
  <2>3. QED
    BY <1>4, <2>1, <2>2
<1>6. ClientMail
  BY <1>1, <1>5, ClientTake DEF IInv
<1>7. session' \in [Links -> Sessions] /\ SessionsAreBacked'
  BY <1>1, <1>5, SessionSame DEF IInv
<1>8. LinkTypes'
  BY <1>1, <1>4, <1>7, FaultCounted DEF IInv, TypeOK, NetTypeOK, LinkTypes
<1>9. QED
  BY <1>5, <1>6, <1>7, <1>8, Compose

LEMMA GameStubReadyStep ==
    ASSUME IInv, NEW g \in Games, OfGame(GameHandleManagedServerStubReady(g))
    PROVE  IInv'
<1>1. PICK s \in posted[g] :
         /\ posted' = [posted EXCEPT ![g] = @ \ {s}]
         /\ \/ UNCHANGED <<readyStubs, reportedEpoch, toServer>>
            \/ /\ s \in owned[g]
               /\ readyStubs' = [readyStubs EXCEPT ![g] = @ \cup {s}]
               /\ CheckAllLocalStubsReady(g, epoch[g], owned[g], readyStubs[g] \cup {s},
                                          reportedEpoch[g])
  BY DEF OfGame, GameHandleManagedServerStubReady
<1>2. /\ UNCHANGED <<link, conn, toClient, session, faults, onlineSeen, meshCurrent, epoch,
                     owned, hosted>>
      /\ UNCHANGED gmVars /\ UNCHANGED gateVars
  BY DEF OfGame, GameHandleManagedServerStubReady
<1>3. posted' \in [Games -> SUBSET Stubs]
  BY <1>1 DEF IInv, TypeOK, GameTypeOK
<1>4. /\ epoch[g] \in {0, AssignmentEpoch} /\ reportedEpoch[g] \in {0, AssignmentEpoch}
      /\ owned[g] \subseteq hosted[g] /\ readyStubs[g] \subseteq owned[g]
      /\ readyStubs[g] \in SUBSET Stubs /\ owned[g] \in SUBSET Stubs
  BY DEF IInv, TypeOK, GameTypeOK, StubsArePlaced
<1>5. /\ readyStubs' \in [Games -> SUBSET Stubs]
      /\ \A h \in Games : owned'[h] \subseteq hosted'[h] /\ readyStubs'[h] \subseteq owned'[h]
  BY <1>1, <1>2, <1>4 DEF IInv, TypeOK, GameTypeOK, StubsArePlaced
<1>6. reportedEpoch' \in [Games -> {0, AssignmentEpoch}]
  <2>1. CASE UNCHANGED reportedEpoch
    BY <2>1 DEF IInv, TypeOK, GameTypeOK
  <2>2. CASE CheckAllLocalStubsReady(g, epoch[g], owned[g], readyStubs[g] \cup {s},
                                     reportedEpoch[g])
    BY <1>4, <2>2, ReportedType DEF IInv
  <2>3. QED
    BY <1>1, <2>1, <2>2
<1>7. Grows /\ NodesOK'
  BY <1>2, <1>3, <1>5, <1>6, StubStateStep DEF IInv, TypeOK, GameTypeOK
<1>8. ServerMail
  <2>1. CASE UNCHANGED toServer
    BY <1>7, <2>1, ServerSame DEF IInv
  <2>2. CASE /\ s \in owned[g]
             /\ CheckAllLocalStubsReady(g, epoch[g], owned[g], readyStubs[g] \cup {s},
                                        reportedEpoch[g])
    <3>1. readyStubs[g] \cup {s} \in SUBSET Stubs /\ readyStubs[g] \cup {s} \subseteq hosted'[g]
      BY <1>2, <1>4, <2>2
    <3>2. QED
      BY <1>4, <1>7, <2>2, <3>1, CheckStubsStep
  <2>3. QED
    BY <1>1, <2>1, <2>2
<1>9. ClientMail
  BY <1>2, <1>7, ClientSame DEF IInv
<1>10. session' \in [Links -> Sessions] /\ SessionsAreBacked'
  BY <1>2, <1>7, SessionSame DEF IInv
<1>11. LinkTypes'
  BY <1>2, <1>10 DEF IInv, TypeOK, NetTypeOK, LinkTypes
<1>12. QED
  BY <1>7, <1>8, <1>9, <1>10, <1>11, Compose

LEMMA GameStep ==
    ASSUME IInv, OfGame(GameNext)
    PROVE  IInv'
<1>1. UNCHANGED gmVars /\ UNCHANGED gateVars
  BY DEF OfGame
<1>2. PICK g \in Games :
         \/ GameGmConnected(g) \/ GameGmDisconnected(g)
         \/ GameHandleRegisterResponse(g) \/ GameHandleHeartbeatResponse(g)
         \/ GameSendHeartbeatRequest(g)
         \/ GameHandleClusterNodesOnlineNotify(g)
         \/ GameHandleServerStubOwnershipSync(g)
         \/ GameHandleManagedServerStubReady(g)
         \/ \E t \in Gates : \/ GameGateConnected(g, t) \/ GameGateDisconnected(g, t)
                             \/ GameHandleGateRegisterResponse(g, t)
                             \/ GameHandleGateHeartbeatResponse(g, t)
                             \/ GameSendGateHeartbeatRequest(g, t)
  BY DEF OfGame, GameNext
<1>3. <<g, Gm>> \in Links /\ <<g, Gm>> \notin MeshLinks
  BY LinkFacts
<1>4. CASE GameGmConnected(g)
  BY <1>1, <1>3, <1>4, ConnectedStep DEF GameGmConnected
<1>5. CASE GameGmDisconnected(g)
  BY <1>1, <1>3, <1>5, DisconnectedStep DEF GameGmDisconnected
<1>6. CASE GameHandleRegisterResponse(g)
  BY <1>1, <1>3, <1>6, GmResponses DEF GameHandleRegisterResponse, Receives
<1>7. CASE GameHandleHeartbeatResponse(g)
  BY <1>1, <1>3, <1>7, GmResponses DEF GameHandleHeartbeatResponse, Receives
<1>8. CASE GameSendHeartbeatRequest(g)
  BY <1>1, <1>3, <1>8, HeartbeatStep DEF GameSendHeartbeatRequest
<1>9. CASE \/ GameHandleClusterNodesOnlineNotify(g)
           \/ GameHandleServerStubOwnershipSync(g)
           \/ GameHandleManagedServerStubReady(g)
  BY <1>1, <1>9, GameNodesOnlineStep, GameOwnershipStep, GameStubReadyStep DEF OfGame
<1>10. ASSUME NEW t \in Gates,
              \/ GameGateConnected(g, t) \/ GameGateDisconnected(g, t)
              \/ GameHandleGateRegisterResponse(g, t)
              \/ GameHandleGateHeartbeatResponse(g, t)
              \/ GameSendGateHeartbeatRequest(g, t)
       PROVE  IInv'
  <2>1. <<g, t>> \in Links /\ <<g, t>>[1] = g
    BY LinkFacts
  <2>2. CASE GameGateConnected(g, t)
    BY <1>1, <2>1, <2>2, ConnectedStep DEF GameGateConnected
  <2>3. CASE GameGateDisconnected(g, t)
    BY <1>1, <2>1, <2>3, DisconnectedStep DEF GameGateDisconnected
  <2>4. CASE GameHandleGateRegisterResponse(g, t) \/ GameHandleGateHeartbeatResponse(g, t)
    BY <1>1, <2>4, GameGateRegisterResponseStep, GameGateHeartbeatResponseStep DEF OfGame
  <2>5. CASE GameSendGateHeartbeatRequest(g, t)
    BY <1>1, <2>1, <2>5, HeartbeatStep DEF GameSendGateHeartbeatRequest
  <2>6. QED
    BY <1>10, <2>2, <2>3, <2>4, <2>5
<1>11. QED
  BY <1>2, <1>4, <1>5, <1>6, <1>7, <1>8, <1>9, <1>10

-----------------------------------------------------------------------------
(* The invariant.                                                          *)

LEMMA InitIInv == Init => IInv
<1> SUFFICES ASSUME Init PROVE IInv
  OBVIOUS
<1> USE DEF Init, NetInit, GmInit, GameInit, GateInit
<1>1. TypeOK
  <2>1. NetTypeOK
    BY NoSessionFields, EmptySeq, ClusterAssumption DEF NetTypeOK
  <2>2. GmTypeOK /\ GameTypeOK /\ GateTypeOK
    BY DEF GmTypeOK, GameTypeOK, GateTypeOK
  <2>3. QED
    BY <2>1, <2>2 DEF TypeOK
<1>2. MailIsSound
  BY EmptySeq DEF MailIsSound
<1>3. SessionsAreBacked
  BY NoSessionFields DEF SessionsAreBacked
<1>4. BarriersHold /\ StubsArePlaced
  BY DEF BarriersHold, StubsArePlaced
<1>5. QED
  BY <1>1, <1>2, <1>3, <1>4 DEF IInv

LEMMA NextIInv == IInv /\ [Next]_vars => IInv'
<1> SUFFICES ASSUME IInv, [Next]_vars PROVE IInv'
  OBVIOUS
<1>1. CASE UNCHANGED vars
  <2>1. /\ UNCHANGED <<link, conn, toServer, toClient, session, faults>>
        /\ UNCHANGED gmVars /\ UNCHANGED gameVars /\ UNCHANGED gateVars
    BY <1>1 DEF vars, gmVars, gameVars, gateVars
  <2>2. Grows /\ NodesOK'
    BY <2>1, NodesIdle
  <2>3. ServerMail /\ ClientMail /\ session' \in [Links -> Sessions] /\ SessionsAreBacked'
    BY <2>1, <2>2, ServerSame, ClientSame, SessionSame DEF IInv
  <2>4. LinkTypes'
    BY <2>1, <2>3 DEF IInv, TypeOK, NetTypeOK, LinkTypes
  <2>5. QED
    BY <2>2, <2>3, <2>4, Compose
<1>2. CASE Next
  BY <1>2, NetStep, GmStep, GameStep, GateStep DEF Next
<1>3. QED
  BY <1>1, <1>2

\* The inductive invariant holds in every reachable state.
THEOREM Invariance == Spec => []IInv
  BY InitIInv, NextIInv, PTL DEF Spec

\* Every variable keeps its type, whatever the network and the nodes do.
THEOREM TypeCorrect == Spec => []TypeOK
<1>1. IInv => TypeOK
  BY DEF IInv
<1>2. QED
  BY <1>1, Invariance, PTL

\* A Game dials Gates only after the GM has counted every node
\* (OnAllNodeOnline).
THEOREM OnlineIsTrueAlways == Spec => []OnlineIsTrue
<1>1. IInv => OnlineIsTrue
  BY DEF IInv, BarriersHold, OnlineIsTrue
<1>2. QED
  BY <1>1, Invariance, PTL

\* A Game that has once concluded that its mesh is complete is known to every
\* Gate from then on (OnAllGateConnected).
THEOREM MeshIsKnownAlways == Spec => []MeshIsKnown
<1>1. IInv => MeshIsKnown
  BY KnownOf DEF IInv, BarriersHold, MeshIsKnown
<1>2. QED
  BY <1>1, Invariance, PTL

\* No stub runs on two Games (ApplyOwnership).
THEOREM OneHostAlways == Spec => []OneHostPerStub
<1>1. IInv => OneHostPerStub
  <2> SUFFICES ASSUME IInv, NEW g \in Games, NEW h \in Games, NEW s \in hosted[g] \cap hosted[h]
               PROVE  g = h
    BY DEF OneHostPerStub
  <2>1. s \in OwnedBy(g) /\ s \in OwnedBy(h)
    BY DEF IInv, StubsArePlaced
  <2>2. QED
    BY <2>1 DEF OwnedBy
<1>2. QED
  BY <1>1, Invariance, PTL

\* A stub the GM holds for Ready is installed on its owner
\* (HandleGameStubsReadyReport).
THEOREM ReadyIsHostedAlways == Spec => []ReadyIsHosted
<1>1. IInv => ReadyIsHosted
  BY DEF IInv, StubsArePlaced, ReadyIsHosted
<1>2. QED
  BY <1>1, Invariance, PTL

\* A Gate admits clients only when every Game has registered with it and every
\* stub is hosted by its owner (HandleClusterReadyNotify).
THEOREM AdmissionIsSafeAlways == Spec => []AdmissionIsSafe
<1>1. IInv => AdmissionIsSafe
  <2> SUFFICES ASSUME IInv, NEW t \in Gates, clusterReady[t]
               PROVE  /\ \A g \in Games : gameSession[t][g] # "Configured"
                      /\ \A s \in Stubs : owner[s] \in Games /\ s \in hosted[owner[s]]
    BY DEF AdmissionIsSafe
  <2>1. meshReady = Games /\ stubsReady = Stubs
    BY DEF IInv, BarriersHold
  <2>2. \A g \in Games : Known(<<g, t>>)
    BY <2>1 DEF IInv, BarriersHold
  <2>3. QED
    BY <2>1, <2>2, KnownOf DEF IInv, StubsArePlaced
<1>2. QED
  BY <1>1, Invariance, PTL

\* A dialer that believes it is registered has an entry on the GM
\* (HandleRegisterResponse).
THEOREM RegisteredHasEntryAlways == Spec => []RegisteredHasEntry
<1>1. IInv => RegisteredHasEntry
  BY LinkFacts, KnownOf DEF IInv, SessionsAreBacked, RegisteredHasEntry
<1>2. QED
  BY <1>1, Invariance, PTL

=============================================================================
