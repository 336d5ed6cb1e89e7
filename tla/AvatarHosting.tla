--------------------------- MODULE AvatarHosting ----------------------------
(***************************************************************************)
(* The avatar side of the Game nodes: the relay handlers of GameNode.cpp   *)
(* and the managed runtime behind them (GameNodeRuntimeState.cs,           *)
(* AvatarEntity.cs, OnlineService.cs).                                     *)
(*                                                                         *)
(* avatars   _avatarsByEntityId of each Game: the account of the avatar    *)
(*           and the Gate its Proxy routes through                         *)
(* served    the accounts whose client calls the avatar has executed       *)
(* online    _registeredAvatars of the OnlineStub, by avatar               *)
(***************************************************************************)
EXTENDS GameNode, RelayMessages

CONSTANT OnlineHome      \* the Game that owns and hosts the OnlineStub

ASSUME OnlineAssumption == OnlineHome \in Games

VARIABLES avatars, served, online

avatarVars == <<avatars, served, online>>

NotHosted == [account |-> NoAccount, gate |-> NoGame]

AvatarTypeOK ==
    /\ avatars \in [Games -> [Avatars ->
           {NotHosted} \cup [account : Accounts, gate : Gates]]]
    /\ served \in [Games -> [Avatars -> SUBSET Accounts]]
    /\ online \in [Avatars -> {NoAvatar}
           \cup [account : Accounts, avatar : Avatars, session : SessionIds,
                 gate : Gates, game : Games]]

AvatarInit ==
    /\ avatars = [g \in Games |-> [a \in Avatars |-> NotHosted]]
    /\ served = [g \in Games |-> [a \in Avatars |-> {}]]
    /\ online = [a \in Avatars |-> NoAvatar]

-----------------------------------------------------------------------------
(* Sending.                                                                *)

IsHosted(g, a) == avatars[g][a] # NotHosted

\* The Gate session a Game sends through: Connected, registered and ready.
GateListens(g, t) ==
    LET l == <<g, t>>
    IN conn[l] = "Connected" /\ session[l].registered /\ session[l].inner_network_ready

GateUsable(g, t) == GateListens(g, t) /\ CanSend(<<g, t>>)

\* q with m sent by Game g through Gate t, when that is possible.
Through(q, g, t, m) ==
    IF GateUsable(g, t) THEN [q EXCEPT ![<<g, t>>] = Append(@, m)] ELSE q

\* S in the order of its ids.
InOrder(S) == CHOOSE q \in [1..Cardinality(S) -> S] : \A x \in S : \E i \in DOMAIN q : q[i] = x

GameRelays(g, t, type) == Receives(<<g, t>>, type) /\ Consume(<<g, t>>)

-----------------------------------------------------------------------------
(* Registration with the OnlineStub.                                       *)

\* HandleRegisterOnlineAvatar accepts: the avatar has no entry of another account.
OnlineAccepts(reg) ==
    online[reg.avatar] # NoAvatar => online[reg.avatar].account = reg.account

Registered(reg) == [online EXCEPT ![reg.avatar] = reg]

-----------------------------------------------------------------------------
(* Creation of an avatar.                                                  *)

\* The Gate ForwardManagedStubCall takes: the first that listens.
StubCallGate(g) == Head(SelectSeq(InOrder(Gates), LAMBDA t : GateListens(g, t)))

\* The registration call succeeds: the local OnlineStub accepts it, or a Gate
\* listens and the send to the first that does succeeds.
CanRegister(g, reg) ==
    IF g = OnlineHome THEN OnlineAccepts(reg)
    ELSE (\E t \in Gates : GateListens(g, t)) /\ CanSend(<<g, StubCallGate(g)>>)

\* TryRegisterAvatarWithOnlineStub, then the result: a local OnlineStub answers
\* at once, a remote one is sent the call and not waited for.
RegisterAndReport(g, t, reg, result) ==
    IF g = OnlineHome
      THEN /\ online' = Registered(reg)
           /\ toServer' = Through(toServer, g, t, result)
      ELSE /\ toServer' = Through(Through(toServer, g, StubCallGate(g),
                                         ForwardMailboxCall(OnlineHome, reg)), g, t, result)
           /\ UNCHANGED online

\* Mutant: an avatar of another account is taken over.
AccountUnchecked(g, m) == TRUE

\* The avatar is new here or belongs to the account.
AccountMatches(g, m) ==
    IsHosted(g, m.avatar) => avatars[g][m.avatar].account = m.account

\* TryCreateAvatarEntity succeeds: a new avatar, or the proxy of the old one
\* bound to the Gate that asks; the result goes back.
CreateAvatar(g, t, m) ==
    LET reg == Registration(m.account, m.avatar, m.session, t, g)
    IN /\ AccountMatches(g, m)
       /\ CanRegister(g, reg)
       /\ RegisterAndReport(g, t, reg, AvatarEntityCreateResult(m.session, m.avatar, TRUE))
       /\ avatars' = [avatars EXCEPT ![g][m.avatar] = [account |-> m.account, gate |-> t]]
       /\ UNCHANGED <<served, faults>>

\* It fails: another account's avatar, no registration (a new avatar is
\* destroyed again), or, a fault, an exception before anything is changed, which
\* GameNativeOnMessage turns into an error code.
CreateAvatarFails(g, t, m) ==
    /\ IF AccountMatches(g, m) /\ CanRegister(g, Registration(m.account, m.avatar, m.session, t, g))
         THEN Fault ELSE UNCHANGED faults
    /\ toServer' = Through(toServer, g, t, AvatarEntityCreateResult(m.session, m.avatar, FALSE))
    /\ UNCHANGED avatarVars

HandleGateCreateAvatarEntity(g, t) ==
    LET m == Head(toClient[<<g, t>>])
    IN /\ GameRelays(g, t, "CreateAvatarEntity")
       /\ CreateAvatar(g, t, m) \/ CreateAvatarFails(g, t, m)

-----------------------------------------------------------------------------
(* Calls.                                                                  *)

\* Mutant: the answer goes to the Gate that passed the call on.
PushesBack(g, t) ==
    LET m == Head(toClient[<<g, t>>])
    IN /\ GameRelays(g, t, "ForwardProxyCall")
       /\ toServer' = Through(toServer, g, t, PushToClient(m.avatar, avatars[g][m.avatar].account))
       /\ UNCHANGED <<avatars, served, online, faults>>

\* ReceiveProxyCall: a client call is executed (SetWeapon answers the client)
\* or rejected by the dispatcher; a broadcast is passed to the client.
GameHandleForwardProxyCall(g, t) ==
    LET m == Head(toClient[<<g, t>>])
        av == avatars[g][m.avatar]
    IN /\ GameRelays(g, t, "ForwardProxyCall")
       /\ \/ /\ IsHosted(g, m.avatar)
             /\ served' = IF m.caller = NoAccount THEN served
                          ELSE [served EXCEPT ![g][m.avatar] = @ \cup {m.caller}]
             /\ toServer' = Through(toServer, g, av.gate, PushToClient(m.avatar, av.account))
          \/ /\ ~IsHosted(g, m.avatar) \/ m.caller # NoAccount
             /\ UNCHANGED <<served, toServer>>
       /\ UNCHANGED <<avatars, online, faults>>

\* ReceiveMailboxCall on the OnlineStub.
GameHandleForwardMailboxCall(g, t) ==
    LET m == Head(toClient[<<g, t>>])
    IN /\ GameRelays(g, t, "ForwardMailboxCall")
       /\ online' = IF g = OnlineHome /\ m.target = g /\ OnlineAccepts(m.reg)
                      THEN Registered(m.reg) ELSE online
       /\ UNCHANGED <<toServer, avatars, served, faults>>

\* A broadcast for avatar a is a push when the avatar is local, else a proxy
\* call through the Gate it registered with.
BroadcastGate(a) == IF IsHosted(OnlineHome, a) THEN avatars[OnlineHome][a].gate ELSE online[a].gate

BroadcastCall(a) ==
    IF IsHosted(OnlineHome, a) THEN PushToClient(a, avatars[OnlineHome][a].account)
    ELSE ForwardProxyCall(a, NoAccount)

\* What HandleBroadcastOnlineAvatar sends through Gate t.
BroadcastMail(t) ==
    LET targets == SelectSeq(InOrder(Avatars),
                             LAMBDA a : online[a] # NoAvatar /\ BroadcastGate(a) = t)
    IN [i \in 1..Len(targets) |-> BroadcastCall(targets[i])]

HandleBroadcastOnlineAvatar ==
    /\ RoomForCall
    /\ toServer' = [l \in Links |->
           IF l \in {OnlineHome} \X Gates /\ GateUsable(OnlineHome, l[2])
             THEN toServer[l] \o BroadcastMail(l[2]) ELSE toServer[l]]
    /\ UNCHANGED <<toClient, avatars, served, online, faults>>

AvatarNext ==
    /\ \/ \E g \in Games, t \in Gates :
             \/ HandleGateCreateAvatarEntity(g, t)
             \/ GameHandleForwardProxyCall(g, t)
             \/ GameHandleForwardMailboxCall(g, t)
       \/ HandleBroadcastOnlineAvatar
    /\ UNCHANGED <<link, conn, session>> /\ UNCHANGED gameVars

=============================================================================
