--------------------------- MODULE ClientRouting ----------------------------
(***************************************************************************)
(* Clients on a running cluster: the client side of the Gates, the avatars *)
(* of the Games, and the mesh links between them with their registration   *)
(* and heartbeats.  It starts where the startup ends; the GM plays no part *)
(* any more, so its links are left alone.                                  *)
(***************************************************************************)
EXTENDS ClientSessions, AvatarHosting

vars == <<link, conn, toServer, toClient, session, faults,
          onlineSeen, meshCurrent, epoch, owned, readyStubs, reportedEpoch,
          hosted, posted, gameSession, clusterReady, clusterReadyEpoch,
          reservations, nextConv, nextSession, clientSession, records,
          byAccount, byAvatar, told, inbox, avatars, served, online>>

\* The links are up, everyone is registered and ready, the Gates admit clients.
StartupDone ==
    /\ link = [l \in Links |-> "up"]
    /\ conn = [l \in Links |-> "Connected"]
    /\ toServer = [l \in Links |-> <<>>]
    /\ toClient = [l \in Links |-> <<>>]
    /\ session = [l \in Links |->
           [NoSession EXCEPT !.registered = TRUE, !.inner_network_ready = TRUE]]
    /\ faults = 0
    /\ onlineSeen = [g \in Games |-> TRUE]
    /\ meshCurrent = [g \in Games |-> TRUE]
    /\ epoch = [g \in Games |-> AssignmentEpoch]
    /\ owned = [g \in Games |-> IF g = OnlineHome THEN Stubs ELSE {}]
    /\ readyStubs = owned
    /\ reportedEpoch = [g \in Games |-> IF g = OnlineHome THEN AssignmentEpoch ELSE 0]
    /\ hosted = owned
    /\ posted = [g \in Games |-> {}]
    /\ gameSession = [t \in Gates |-> [g \in Games |-> "Ready"]]
    /\ clusterReady = [t \in Gates |-> TRUE]
    /\ clusterReadyEpoch = [t \in Gates |-> 1]

Init == StartupDone /\ ClientInit /\ AvatarInit

-----------------------------------------------------------------------------
(* The mesh links: lost, dialled again, registered again.                  *)

MeshNext ==
    \/ \E l \in MeshLinks : /\ TcpConnect(l) \/ Handshake(l) \/ Drop(l)
                           /\ UNCHANGED gameVars /\ UNCHANGED gateVars
    \/ \E g \in Games, t \in Gates :
          \/ /\ \/ GameGateConnected(g, t) \/ GameGateDisconnected(g, t)
                \/ GameHandleGateRegisterResponse(g, t)
                \/ GameHandleGateHeartbeatResponse(g, t)
                \/ GameSendGateHeartbeatRequest(g, t)
             /\ UNCHANGED gateVars
          \/ /\ GateHandleGameRegisterMessage(g, t) \/ GateHandleGameHeartbeatMessage(g, t)
             /\ UNCHANGED gameVars

Next ==
    \/ MeshNext /\ UNCHANGED clientVars /\ UNCHANGED avatarVars
    \/ ClientNext /\ UNCHANGED gameVars /\ UNCHANGED avatarVars
    \/ AvatarNext /\ UNCHANGED gateVars /\ UNCHANGED clientVars

Spec == Init /\ [][Next]_vars

-----------------------------------------------------------------------------
(* Safety.                                                                 *)

TypeOK == ClientTypeOK /\ AvatarTypeOK

\* A conversation leads to one session: it is never reserved, nor used by a
\* second session, while a session that has it is open, the wrap of the
\* counter included (ConsumeNextClientConversation).
OneSessionPerConversation ==
    \A t \in Gates : \A s \in LiveSessions(t) :
        /\ reservations[t][clientSession[t][s].conv] = NoReservation
        /\ \A u \in LiveSessions(t) : clientSession[t][u].conv = clientSession[t][s].conv => u = s

\* The avatar index and the records say the same, and an account's entry leads
\* to a record of the account (HandleClientSelectAvatarPacket, the rollback).
IndexesAgree ==
    \A t \in Gates :
        /\ \A a \in Avatars, s \in SessionIds :
              byAvatar[t][a] = s <=> records[t][s].avatar = a
        /\ \A acc \in Accounts :
              byAccount[t][acc] # 0 => records[t][byAccount[t][acc]].account = acc

\* What a client is told stays true: its session has that avatar, the avatar
\* lives on that Game under the account of the client, and the route is Bound
\* (HandleGameAvatarEntityCreateResultMessage, which matches the session only).
ToldIsTrue ==
    \A t \in Gates, s \in SessionIds : \A b \in told[t][s] :
        /\ records[t][s].avatar = b[1] /\ records[t][s].game = b[2] /\ ~records[t][s].pending
        /\ avatars[b[2]][b[1]].account = records[t][s].account
        /\ clientSession[t][s].route = "Bound"

\* An avatar lives on one Game at most (TryCreateAvatarEntity knows only its own
\* Game; the Gate's avatar index has to prevent a second one).
OneOwnerPerAvatar ==
    \A a \in Avatars, g, h \in Games : IsHosted(g, a) /\ IsHosted(h, a) => g = h

\* With one Gate, an avatar executes calls of clients of its own account only,
\* those sent before the selection is confirmed or rolled back included
\* (HandleClientEntityRpcPacket, which does not ask for the confirmation).  With
\* two Gates it does not hold: a call may run ahead of the refusal.
ServesItsAccount ==
    \A g \in Games, a \in Avatars : served[g][a] \subseteq {avatars[g][a].account}

\* A client is pushed messages of avatars of its own account only
\* (HandleGamePushToClientMessage, which does not compare the Games).
PushedToItsAccount ==
    \A t \in Gates, s \in SessionIds : inbox[t][s] \subseteq {records[t][s].account}

\* The OnlineStub lists only avatars that exist, where and for whom it says
\* (the registration is not taken back when the creation is not confirmed).
OnlineExists ==
    \A a \in Avatars : online[a] # NoAvatar =>
        avatars[online[a].game][a].account = online[a].account

-----------------------------------------------------------------------------
(* What a step may never do.                                               *)

\* A confirmed selection is final: session, avatar and Game stay bound
\* (SESSION_ROUTING.md, "stable binding").
BindingIsStable ==
    [][\A t \in Gates, s \in SessionIds :
          records[t][s].avatar # NoAvatar /\ ~records[t][s].pending
             => records'[t][s] = records[t][s]]_vars

-----------------------------------------------------------------------------
(* The abstract specification, for a cluster with one Gate T.              *)

T == CHOOSE t \in Gates : TRUE

\* The claim of avatar a: the record its index entry leads to.
AvatarClaim(a) ==
    LET s == byAvatar[T][a]
    IN IF s = 0 THEN NoAvatar
       ELSE [session |-> s, account |-> records[T][s].account,
             game |-> records[T][s].game, confirmed |-> ~records[T][s].pending]

\* Where avatar a lives.
AvatarHome(a) ==
    IF \E g \in Games : IsHosted(g, a)
      THEN LET g == CHOOSE g \in Games : IsHosted(g, a)
           IN [game |-> g, account |-> avatars[g][a].account]
      ELSE NoAvatar

Binding == INSTANCE AvatarBinding
               WITH Sessions <- SessionIds, NoClaim <- NoAvatar, NoHome <- NoAvatar,
                    claim <- [a \in Avatars |-> AvatarClaim(a)],
                    home <- [a \in Avatars |-> AvatarHome(a)]

\* With one Gate, selection, creation, result and rollback together keep the
\* promise of AvatarBinding (HandleClientSelectAvatarPacket to
\* HandleGameAvatarEntityCreateResultMessage, by way of TryCreateAvatarEntity).
BindingSpec == Binding!Spec

-----------------------------------------------------------------------------
(* Liveness.                                                               *)

OfClient(A) == A /\ UNCHANGED <<link, conn, session, faults>> /\ UNCHANGED gateVars
                 /\ UNCHANGED gameVars /\ UNCHANGED avatarVars
OfAvatar(A) == A /\ UNCHANGED <<link, conn, session>> /\ UNCHANGED gameVars
                 /\ UNCHANGED gateVars /\ UNCHANGED clientVars

\* The event loop of a node reads on: whatever message waits on a mesh link is
\* taken.  Nothing is asked of the clients.
Fairness ==
    \A g \in Games, t \in Gates :
        /\ WF_vars(OfAvatar(\/ HandleGateCreateAvatarEntity(g, t)
                            \/ GameHandleForwardProxyCall(g, t)
                            \/ GameHandleForwardMailboxCall(g, t)))
        /\ WF_vars(OfClient(\/ HandleGameAvatarEntityCreateResultMessage(g, t)
                            \/ HandleGamePushToClientMessage(g, t)
                            \/ HandleGameForwardProxyCallMessage(g, t)
                            \/ HandleGameForwardStubCallMessage(g, t)))

FairSpec == Spec /\ Fairness

\* While no link is lost, a pending selection is answered, whatever other calls
\* and broadcasts share the links (pending_select_avatar_seq, which only the
\* result of the Game clears: the Gate has no timeout for it).
SelectIsAnswered ==
    \A t \in Gates, s \in SessionIds : records[t][s].pending ~> ~records[t][s].pending

=============================================================================
