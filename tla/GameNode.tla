------------------------------ MODULE GameNode ------------------------------
(***************************************************************************)
(* The startup side of the Game nodes, src/native/node/GameNode.cpp, and   *)
(* the part of the managed runtime it drives (GameNodeRuntimeState.cs,     *)
(* ApplyOwnership): every variable is a function of the Game.              *)
(*                                                                         *)
(* onlineSeen       all_nodes_online_                                      *)
(* meshCurrent      mesh_ready_state_.current                              *)
(* epoch, owned     ownership_state_: assignment_epoch, owned_assignments  *)
(* readyStubs       service_ready_state_.ready_entries, by stub type       *)
(* reportedEpoch    service_ready_state_.last_reported_assignment_epoch    *)
(* hosted           the stub entities the managed runtime has installed    *)
(* posted           ready callbacks posted to the event loop, not yet run  *)
(***************************************************************************)
EXTENDS InnerNetwork

VARIABLES onlineSeen, meshCurrent, epoch, owned, readyStubs, reportedEpoch,
          hosted, posted

gameVars == <<onlineSeen, meshCurrent, epoch, owned, readyStubs, reportedEpoch,
              hosted, posted>>

GameTypeOK ==
    /\ onlineSeen \in [Games -> BOOLEAN]
    /\ meshCurrent \in [Games -> BOOLEAN]
    /\ epoch \in [Games -> {0, AssignmentEpoch}]
    /\ owned \in [Games -> SUBSET Stubs]
    /\ readyStubs \in [Games -> SUBSET Stubs]
    /\ reportedEpoch \in [Games -> {0, AssignmentEpoch}]
    /\ hosted \in [Games -> SUBSET Stubs]
    /\ posted \in [Games -> SUBSET Stubs]

GameInit ==
    /\ onlineSeen = [g \in Games |-> FALSE]
    /\ meshCurrent = [g \in Games |-> FALSE]
    /\ epoch = [g \in Games |-> 0]
    /\ owned = [g \in Games |-> {}]
    /\ readyStubs = [g \in Games |-> {}]
    /\ reportedEpoch = [g \in Games |-> 0]
    /\ hosted = [g \in Games |-> {}]
    /\ posted = [g \in Games |-> {}]

-----------------------------------------------------------------------------
(* The link to the GM.                                                     *)

\* A report can reach the GM: registered, Connected and the send succeeds.
CanReport(g) ==
    LET l == <<g, Gm>>
    IN session[l].registered /\ conn[l] = "Connected" /\ CanSend(l)

\* Connected: register unless registered or waiting for an answer.
GameGmConnected(g) ==
    LET l == <<g, Gm>>
    IN /\ SeesConnected(l)
       /\ IF ~session[l].registered /\ session[l].register_seq = SeqNone
            THEN SendRegister(l)
            ELSE UNCHANGED <<toServer, session>>
       /\ UNCHANGED <<link, toClient, faults>> /\ UNCHANGED gameVars

\* Connected lost: logged only; the session keeps every field.
GameGmDisconnected(g) ==
    /\ SeesDisconnected(<<g, Gm>>)
    /\ UNCHANGED <<link, toServer, toClient, session, faults>> /\ UNCHANGED gameVars

GameHandleRegisterResponse(g) ==
    LET l == <<g, Gm>>
        m == Head(toClient[l])
    IN /\ Receives(l, "RegisterResponse")
       /\ Consume(l)
       /\ session' = IF m.seq # session[l].register_seq THEN session
                     ELSE [session EXCEPT ![l] =
                             IF m.ok THEN [NoSession EXCEPT !.registered = TRUE]
                             ELSE [@ EXCEPT !.registered = FALSE, !.register_seq = SeqNone]]
       /\ UNCHANGED <<link, conn, toServer, faults>> /\ UNCHANGED gameVars

GameHandleHeartbeatResponse(g) ==
    LET l == <<g, Gm>>
        m == Head(toClient[l])
    IN /\ Receives(l, "HeartbeatResponse")
       /\ Consume(l)
       /\ session' = IF m.seq # session[l].heartbeat_seq THEN session
                     ELSE [session EXCEPT ![l].heartbeat_seq = SeqNone,
                                          ![l].inner_network_ready = TRUE]
       /\ UNCHANGED <<link, conn, toServer, faults>> /\ UNCHANGED gameVars

GameSendHeartbeatRequest(g) == SendHeartbeat(<<g, Gm>>) /\ UNCHANGED gameVars

-----------------------------------------------------------------------------
(* Reports to the GM.                                                      *)

\* CheckAllLocalStubsReady on the state a handler has reached: mesh current,
\* an ownership with local stubs, all of them ready, not yet reported.
StubsReadyDue(mesh, e, own, ready, reported) ==
    /\ mesh /\ e # 0
    /\ own # {} /\ ready = own
    /\ reported # e

\* Mutant: a connected Gate is taken for a registered one.
GateSessionsOnlyConnected(g, ss) ==
    Gates # {} /\ \A t \in Gates : conn[<<g, t>>] = "Connected"

\* The mesh is complete when every Gate session is Connected, registered and
\* ready (AreAllGateSessionsConnected); ss is the session table reached.
AreAllGateSessionsConnected(g, ss) ==
    /\ Gates # {}
    /\ \A t \in Gates : /\ conn[<<g, t>>] = "Connected"
                        /\ ss[<<g, t>>].registered
                        /\ ss[<<g, t>>].inner_network_ready

\* The mesh is complete for the first time.
MeshReached(g, ss) == ~meshCurrent[g] /\ AreAllGateSessionsConnected(g, ss)

\* Reaching the mesh also makes the stub report due.
StubsDueAtMesh(g) ==
    StubsReadyDue(TRUE, epoch[g], owned[g], readyStubs[g], reportedEpoch[g])

\* What OnAllGateConnected sends to the GM: the mesh report and, if due, the
\* stub report.  Neither is repeated when it cannot be sent.
MeshMail(g) ==
    IF ~CanReport(g) THEN <<>>
    ELSE IF StubsDueAtMesh(g)
    THEN <<MeshReadyReport, StubsReadyReport(epoch[g], readyStubs[g])>>
    ELSE <<MeshReadyReport>>

\* OnAllGateConnected, but for the messages.
OnAllGateConnected(g) ==
    /\ meshCurrent' = [meshCurrent EXCEPT ![g] = TRUE]
    /\ reportedEpoch' = IF CanReport(g) /\ StubsDueAtMesh(g)
                          THEN [reportedEpoch EXCEPT ![g] = epoch[g]]
                          ELSE reportedEpoch

\* The check the Gate response handlers end with.
CheckMesh(g, ss) ==
    IF onlineSeen[g] /\ MeshReached(g, ss)
      THEN /\ OnAllGateConnected(g)
           /\ toServer' = [toServer EXCEPT ![<<g, Gm>>] = @ \o MeshMail(g)]
      ELSE UNCHANGED <<meshCurrent, toServer, reportedEpoch>>

-----------------------------------------------------------------------------
(* The links to the Gates.                                                 *)

GameGateConnected(g, t) ==
    LET l == <<g, t>>
    IN /\ SeesConnected(l)
       /\ IF onlineSeen[g] /\ ~session[l].registered /\ session[l].register_seq = SeqNone
            THEN SendRegister(l)
            ELSE UNCHANGED <<toServer, session>>
       /\ UNCHANGED <<link, toClient, faults>> /\ UNCHANGED gameVars

\* The session is forgotten; mesh_ready_state_ is not touched.
GameGateDisconnected(g, t) ==
    /\ SeesDisconnected(<<g, t>>)
    /\ session' = [session EXCEPT ![<<g, t>>] = NoSession]
    /\ UNCHANGED <<link, toServer, toClient, faults>> /\ UNCHANGED gameVars

GameHandleGateRegisterResponse(g, t) ==
    LET l == <<g, t>>
        m == Head(toClient[l])
    IN /\ Receives(l, "RegisterResponse")
       /\ Consume(l)
       /\ IF m.seq # session[l].register_seq
            THEN UNCHANGED <<session, meshCurrent, toServer, reportedEpoch>>
            ELSE IF ~m.ok
            THEN /\ session' = [session EXCEPT ![l].registered = FALSE,
                                               ![l].register_seq = SeqNone]
                 /\ UNCHANGED <<meshCurrent, toServer, reportedEpoch>>
            ELSE /\ session' = [session EXCEPT ![l] = [NoSession EXCEPT !.registered = TRUE]]
                 /\ CheckMesh(g, session')
       /\ UNCHANGED <<link, conn, faults, onlineSeen, epoch, owned, readyStubs, hosted, posted>>

GameHandleGateHeartbeatResponse(g, t) ==
    LET l == <<g, t>>
        m == Head(toClient[l])
    IN /\ Receives(l, "HeartbeatResponse")
       /\ Consume(l)
       /\ IF m.seq # session[l].heartbeat_seq
            THEN UNCHANGED <<session, meshCurrent, toServer, reportedEpoch>>
            ELSE /\ session' = [session EXCEPT ![l].heartbeat_seq = SeqNone,
                                               ![l].inner_network_ready = TRUE]
                 /\ CheckMesh(g, session')
       /\ UNCHANGED <<link, conn, faults, onlineSeen, epoch, owned, readyStubs, hosted, posted>>

GameSendGateHeartbeatRequest(g, t) == SendHeartbeat(<<g, t>>) /\ UNCHANGED gameVars

-----------------------------------------------------------------------------
(* Notifications of the GM.                                                *)

\* The Gate sessions StartGateConnectors registers at once, because their
\* connector already runs and is Connected.
LateRegisters(g) ==
    {k \in {g} \X Gates : /\ conn[k] = "Connected" /\ CanSend(k)
                         /\ ~session[k].registered /\ session[k].register_seq = SeqNone}

\* StartGateConnectors: a connector that cannot be opened (F) is skipped; one
\* that runs is left as it is.
StartGateConnectors(g) ==
    \E F \in SUBSET {t \in Gates : conn[<<g, t>>] = "Stopped"} :
       /\ IF F = {} THEN UNCHANGED faults ELSE Fault
       /\ conn' = [k \in Links |->
              IF k \in {g} \X (Gates \ F) /\ conn[k] = "Stopped" THEN "Connecting" ELSE conn[k]]

GameHandleClusterNodesOnlineNotify(g) ==
    LET l == <<g, Gm>>
        late == LateRegisters(g)
    IN /\ Receives(l, "ClusterNodesOnlineNotify")
       /\ Consume(l)
       /\ IF session[l].registered
            THEN /\ onlineSeen' = [onlineSeen EXCEPT ![g] = TRUE]
                 /\ StartGateConnectors(g)
                 /\ \A k \in late : HasNextSeq(k)
                 /\ session' = [k \in Links |->
                        IF k \in late
                          THEN [session[k] EXCEPT !.register_seq = ConsumeNextInnerSequence(k)]
                          ELSE session[k]]
                 /\ toServer' = [k \in Links |->
                        IF k \in late
                          THEN Append(toServer[k], RegisterRequest(ConsumeNextInnerSequence(k)))
                        ELSE IF k = l /\ MeshReached(g, session)
                          THEN toServer[k] \o MeshMail(g)
                        ELSE toServer[k]]
                 /\ IF MeshReached(g, session)
                      THEN OnAllGateConnected(g)
                      ELSE UNCHANGED <<meshCurrent, reportedEpoch>>
            ELSE UNCHANGED <<onlineSeen, conn, session, toServer, meshCurrent,
                             reportedEpoch, faults>>
       /\ UNCHANGED <<link, epoch, owned, readyStubs, hosted, posted>>

\* Mutant: the next epoch is reported.
ReportsNextEpoch(g, e, own, ready, reported) ==
    IF StubsReadyDue(meshCurrent[g], e, own, ready, reported) /\ CanReport(g)
      THEN /\ toServer' = [toServer EXCEPT ![<<g, Gm>>] =
                  Append(@, StubsReadyReport(e + 1, ready))]
           /\ reportedEpoch' = [reportedEpoch EXCEPT ![g] = e + 1]
      ELSE /\ reportedEpoch' = [reportedEpoch EXCEPT ![g] = reported]
           /\ UNCHANGED toServer

\* Mutant: the check looks at the ready entries before the callback.
ChecksStaleEntries(g, e, own, ready, reported) ==
    IF StubsReadyDue(meshCurrent[g], e, own, readyStubs[g], reported) /\ CanReport(g)
      THEN /\ toServer' = [toServer EXCEPT ![<<g, Gm>>] = Append(@, StubsReadyReport(e, ready))]
           /\ reportedEpoch' = [reportedEpoch EXCEPT ![g] = e]
      ELSE /\ reportedEpoch' = [reportedEpoch EXCEPT ![g] = reported]
           /\ UNCHANGED toServer

\* CheckAllLocalStubsReady and SendServiceReadyReport, on the ownership and
\* the ready entries a handler has reached.
CheckAllLocalStubsReady(g, e, own, ready, reported) ==
    IF StubsReadyDue(meshCurrent[g], e, own, ready, reported) /\ CanReport(g)
      THEN /\ toServer' = [toServer EXCEPT ![<<g, Gm>>] = Append(@, StubsReadyReport(e, ready))]
           /\ reportedEpoch' = [reportedEpoch EXCEPT ![g] = e]
      ELSE /\ reportedEpoch' = [reportedEpoch EXCEPT ![g] = reported]
           /\ UNCHANGED toServer

\* ApplyOwnership installs and activates the stubs of mine; each activated
\* stub marks itself ready, which posts a callback.
ApplyOwnership(g, mine) ==
    IF hosted[g] = mine
      THEN UNCHANGED <<hosted, posted>>
      ELSE /\ hosted' = [hosted EXCEPT ![g] = mine]
           /\ posted' = [posted EXCEPT ![g] = @ \cup mine]

\* It fails while staging (nothing is installed) or while a stub is activated
\* (all are installed, only some have become ready).
ApplyOwnershipFails(g, mine) ==
    /\ Fault
    /\ \/ UNCHANGED <<hosted, posted>>
       \/ \E S \in SUBSET mine :
             /\ hosted[g] # mine /\ S # mine
             /\ hosted' = [hosted EXCEPT ![g] = mine]
             /\ posted' = [posted EXCEPT ![g] = @ \cup S]

\* The stubs an ownership gives to g.  Mutant: all of them.
LocalStubsUnfiltered(g, m) == Stubs

LocalStubs(g, m) == {s \in Stubs : m.owner[s] = g}

\* CreateAllLocalStubs succeeds: the native ownership state is replaced, the
\* ready state is kept only for the same epoch and the same local stubs.
CreateAllLocalStubs(g, m) ==
    LET mine == LocalStubs(g, m)
        keep == m.epoch = epoch[g] /\ mine = owned[g]
        ready == IF keep THEN readyStubs[g] ELSE {}
        reported == IF keep THEN reportedEpoch[g] ELSE 0
    IN /\ ApplyOwnership(g, mine)
       /\ epoch' = [epoch EXCEPT ![g] = m.epoch]
       /\ owned' = [owned EXCEPT ![g] = mine]
       /\ readyStubs' = [readyStubs EXCEPT ![g] = ready]
       /\ CheckAllLocalStubsReady(g, m.epoch, mine, ready, reported)
       /\ UNCHANGED faults

GameHandleServerStubOwnershipSync(g) ==
    LET l == <<g, Gm>>
        m == Head(toClient[l])
    IN /\ Receives(l, "OwnershipSync")
       /\ Consume(l)
       /\ IF session[l].registered /\ meshCurrent[g] /\ m.epoch >= epoch[g]
            THEN \/ CreateAllLocalStubs(g, m)
                 \/ /\ ApplyOwnershipFails(g, LocalStubs(g, m))
                    /\ UNCHANGED <<epoch, owned, readyStubs, reportedEpoch, toServer>>
            ELSE UNCHANGED <<epoch, owned, readyStubs, reportedEpoch, toServer,
                             hosted, posted, faults>>
       /\ UNCHANGED <<link, conn, session, onlineSeen, meshCurrent>>

-----------------------------------------------------------------------------
(* A posted ready callback runs.  Callbacks of an ownership the native side *)
(* did not adopt, or of a stub it does not own, are dropped.                *)

GameHandleManagedServerStubReady(g) ==
    \E s \in posted[g] :
       /\ posted' = [posted EXCEPT ![g] = @ \ {s}]
       /\ IF epoch[g] = AssignmentEpoch /\ s \in owned[g]
            THEN /\ readyStubs' = [readyStubs EXCEPT ![g] = @ \cup {s}]
                 /\ CheckAllLocalStubsReady(g, epoch[g], owned[g], readyStubs[g] \cup {s},
                                            reportedEpoch[g])
            ELSE UNCHANGED <<readyStubs, reportedEpoch, toServer>>
       /\ UNCHANGED <<link, conn, toClient, session, faults, onlineSeen, meshCurrent,
                      epoch, owned, hosted>>

GameNext ==
    \E g \in Games :
       \/ GameGmConnected(g) \/ GameGmDisconnected(g)
       \/ GameHandleRegisterResponse(g) \/ GameHandleHeartbeatResponse(g)
       \/ GameSendHeartbeatRequest(g)
       \/ GameHandleClusterNodesOnlineNotify(g)
       \/ GameHandleServerStubOwnershipSync(g)
       \/ GameHandleManagedServerStubReady(g)
       \/ \E t \in Gates : \/ GameGateConnected(g, t) \/ GameGateDisconnected(g, t)
                            \/ GameHandleGateRegisterResponse(g, t)
                            \/ GameHandleGateHeartbeatResponse(g, t)
                            \/ GameSendGateHeartbeatRequest(g, t)

=============================================================================
