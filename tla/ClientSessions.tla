--------------------------- MODULE ClientSessions ---------------------------
(***************************************************************************)
(* The client side of the Gate nodes: HTTP login, the conversations it     *)
(* reserves, KCP sessions and the records and indexes kept for them        *)
(* (GateNode.cpp, ClientNetwork.cpp).  Every variable is a function of the *)
(* Gate.                                                                   *)
(*                                                                         *)
(* reservations    client_conversation_reservations_, by conversation      *)
(* nextConv        next_client_conversation_                               *)
(* nextSession     next_session_id_ of the client network                  *)
(* clientSession   sessions_: the KCP sessions that exist, by session id.  *)
(*                 Each is Active; route is its route_state                *)
(* records         client_session_records_, by session id                  *)
(* byAccount       session_ids_by_account_, 0 for no entry                 *)
(* byAvatar        session_ids_by_avatar_, 0 for no entry                  *)
(* told            the successful selections the client was told of        *)
(* inbox           whose avatar's messages were pushed to the client       *)
(***************************************************************************)
EXTENDS GateNode, RelayMessages

CONSTANTS
    Hosts, Ports,     \* a client endpoint is a pair <<host, port>>
    MaxConv           \* bound: the largest conversation, 2^32 - 1 in the code

ASSUME ConversationAssumption == MaxConv \in Nat \ {0}

VARIABLES reservations, nextConv, nextSession, clientSession, records,
          byAccount, byAvatar, told, inbox

clientVars == <<reservations, nextConv, nextSession, clientSession, records,
                byAccount, byAvatar, told, inbox>>

Convs == 1..MaxConv

\* expired: the 30 s of the reservation are over, nobody has pruned it yet.
NoReservation == [account |-> NoAccount, host |-> NoAccount, expired |-> FALSE]
NoClientSession == [conv |-> 0, endpoint |-> <<>>, route |-> "Unassigned"]

\* pending: pending_select_avatar_seq # 0.
NoRecord == [account |-> NoAccount, avatar |-> NoAvatar, game |-> NoGame,
             pending |-> FALSE]

ClientTypeOK ==
    /\ reservations \in [Gates -> [Convs ->
           {NoReservation} \cup [account : Accounts, host : Hosts, expired : BOOLEAN]]]
    /\ nextConv \in [Gates -> Convs]
    /\ nextSession \in [Gates -> 1..MaxSessions + 1]
    /\ clientSession \in [Gates -> [SessionIds ->
           {NoClientSession} \cup [conv : Convs, endpoint : Hosts \X Ports,
                                   route : {"Unassigned", "Selecting", "Bound"}]]]
    /\ records \in [Gates -> [SessionIds ->
           [account : Accounts \cup {NoAccount}, avatar : Avatars \cup {NoAvatar},
            game : Games \cup {NoGame}, pending : BOOLEAN]]]
    /\ byAccount \in [Gates -> [Accounts -> 0..MaxSessions]]
    /\ byAvatar \in [Gates -> [Avatars -> 0..MaxSessions]]
    /\ told \in [Gates -> [SessionIds -> SUBSET (Avatars \X Games)]]
    /\ inbox \in [Gates -> [SessionIds -> SUBSET Accounts]]

ClientInit ==
    /\ reservations = [t \in Gates |-> [c \in Convs |-> NoReservation]]
    /\ nextConv = [t \in Gates |-> 1]
    /\ nextSession = [t \in Gates |-> 1]
    /\ clientSession = [t \in Gates |-> [s \in SessionIds |-> NoClientSession]]
    /\ records = [t \in Gates |-> [s \in SessionIds |-> NoRecord]]
    /\ byAccount = [t \in Gates |-> [a \in Accounts |-> 0]]
    /\ byAvatar = [t \in Gates |-> [a \in Avatars |-> 0]]
    /\ told = [t \in Gates |-> [s \in SessionIds |-> {}]]
    /\ inbox = [t \in Gates |-> [s \in SessionIds |-> {}]]

-----------------------------------------------------------------------------
(* Login and session admission.                                            *)

\* PruneExpiredClientConversationReservations.
Pruned(t) ==
    [c \in Convs |-> IF reservations[t][c].expired THEN NoReservation
                     ELSE reservations[t][c]]

\* The 30 s of a reservation pass.
ReservationExpires(t) ==
    /\ \E c \in Convs :
          /\ reservations[t][c] # NoReservation
          /\ ~reservations[t][c].expired
          /\ reservations' = [reservations EXCEPT ![t][c].expired = TRUE]
    /\ UNCHANGED <<nextConv, nextSession, clientSession, records, byAccount,
                   byAvatar, told, inbox>>

LiveSessions(t) == {s \in SessionIds : clientSession[t][s] # NoClientSession}

\* FindSessionByConversation.
ConvsOpen(t) == {clientSession[t][s].conv : s \in LiveSessions(t)}

\* Mutant: the counter does not wrap.
AfterNoWrap(c) == c + 1

\* The counter after c: it wraps and skips 0.
After(c) == IF c = MaxConv THEN 1 ELSE c + 1

\* How far candidate c lies ahead of the counter, which wraps and skips 0.
Ahead(t, c) == (c + MaxConv - nextConv[t]) % MaxConv

\* Mutant: open sessions are overlooked.
ConvsUnreserved(t) == {c \in Convs : Pruned(t)[c] = NoReservation}

\* The conversations ConsumeNextClientConversation may return.
ConvsFree(t) == {c \in Convs : Pruned(t)[c] = NoReservation /\ c \notin ConvsOpen(t)}

\* The reservation of the next free conversation; none is free: refused.
HandleAuthLogin(t) ==
    /\ clusterReady[t]
    /\ \E acc \in Accounts, h \in Hosts :
          IF ConvsFree(t) = {}
            THEN reservations' = [reservations EXCEPT ![t] = Pruned(t)] /\ UNCHANGED nextConv
            ELSE LET c == CHOOSE c \in ConvsFree(t) :
                             \A d \in ConvsFree(t) : Ahead(t, c) <= Ahead(t, d)
                 IN /\ reservations' = [reservations EXCEPT ![t] =
                           [Pruned(t) EXCEPT ![c] =
                              [account |-> acc, host |-> h, expired |-> FALSE]]]
                    /\ nextConv' = [nextConv EXCEPT ![t] = After(c)]
    /\ UNCHANGED <<nextSession, clientSession, records, byAccount, byAvatar, told, inbox>>

\* HandleSessionOpened on the session CreateSession has made: the record, the
\* account index and the end of the reservation.  When KCP then refuses the
\* first datagram (kept is false) the session is removed, and nothing else.
OpenSession(t, c, e, kept) ==
    LET s == nextSession[t]
        acc == reservations[t][c].account
    IN /\ s <= MaxSessions
       /\ nextSession' = [nextSession EXCEPT ![t] = s + 1]
       /\ clientSession' = IF kept THEN [clientSession EXCEPT ![t][s] =
                              [conv |-> c, endpoint |-> e, route |-> "Unassigned"]]
                           ELSE clientSession
       /\ records' = [records EXCEPT ![t][s] = [NoRecord EXCEPT !.account = acc]]
       /\ byAccount' = [byAccount EXCEPT ![t][acc] = s]
       /\ reservations' = [reservations EXCEPT ![t] = [Pruned(t) EXCEPT ![c] = NoReservation]]

\* A datagram of a conversation and endpoint without a session.
HandleIncomingDatagram(t) ==
    /\ clusterReady[t]
    /\ \E c \in Convs, e \in Hosts \X Ports :
          /\ \A s \in LiveSessions(t) : clientSession[t][s].conv # c
                                           \/ clientSession[t][s].endpoint # e
          /\ IF Pruned(t)[c] # NoReservation /\ Pruned(t)[c].host = e[1]
               THEN \E kept \in BOOLEAN : OpenSession(t, c, e, kept)
               ELSE /\ reservations' = [reservations EXCEPT ![t] = Pruned(t)]
                    /\ UNCHANGED <<nextSession, clientSession, records, byAccount>>
    /\ UNCHANGED <<nextConv, byAvatar, told, inbox>>

-----------------------------------------------------------------------------
(* Client requests.                                                        *)

\* The session entry the code asks for: Connected, registered and ready.  A
\* Gate sets it Connected with the first message and never takes it back.
GameReady(t, g) == gameSession[t][g] = "Ready"

\* Mutant: a second selection overtakes the pending one.
SelectsWhilePending(r) == r.account # NoAccount

\* The session is known, no selection of it is pending and it has no avatar.
MaySelect(r) == r.account # NoAccount /\ ~r.pending /\ r.avatar = NoAvatar

\* Mutant: a taken avatar is selected again.
AvatarAlwaysFree(t, s, a) == TRUE

\* Mutant: an avatar is taken only once its selection is confirmed.
AvatarFreeWhilePending(t, s, a) ==
    byAvatar[t][a] \in {0, s} \cup {u \in SessionIds : records[t][u].pending}

\* The avatar is not bound to another session.
AvatarIsFree(t, s, a) == byAvatar[t][a] \in {0, s}

\* Some ready Game (ResolveAvatarGameNodeId picks one at random) is asked for
\* the avatar; once the request is sent the selection is recorded.
HandleClientSelectAvatarPacket(t) ==
    /\ \E s \in LiveSessions(t), a \in Avatars, g \in Games :
          LET r == records[t][s]
          IN /\ MaySelect(r)
             /\ AvatarIsFree(t, s, a)
             /\ GameReady(t, g) /\ CanSend(<<g, t>>)
             /\ toClient' = [toClient EXCEPT ![<<g, t>>] =
                    Append(@, CreateAvatarEntity(s, r.account, a))]
             /\ records' = [records EXCEPT ![t][s] =
                    [account |-> r.account, avatar |-> a, game |-> g, pending |-> TRUE]]
             /\ byAccount' = [byAccount EXCEPT ![t][r.account] = s]
             /\ byAvatar' = [byAvatar EXCEPT ![t][a] = s]
    /\ UNCHANGED <<reservations, nextConv, nextSession, clientSession, told, inbox,
                   toServer>>

\* A call of the client goes to the avatar the record names; whether the
\* selection is confirmed is not asked.
HandleClientEntityRpcPacket(t) ==
    /\ \E s \in LiveSessions(t) :
          LET r == records[t][s]
              l == <<r.game, t>>
          IN /\ r.avatar # NoAvatar /\ r.game # NoGame
             /\ byAvatar[t][r.avatar] = s
             /\ GameReady(t, r.game) /\ CanSend(l)
             /\ RoomForCall
             /\ toClient' = [toClient EXCEPT ![l] = Append(@, ForwardProxyCall(r.avatar, r.account))]
    /\ UNCHANGED <<toServer>> /\ UNCHANGED clientVars

-----------------------------------------------------------------------------
(* Messages of the Games.  Only a registered Game is listened to; that the *)
(* message names its sender and this Gate is implied by the link.          *)

\* The message at the head of <<g, t>> is taken by Gate t.
GateRelays(g, t, type) ==
    /\ GateTakes(g, t, type)
    /\ UNCHANGED <<reservations, nextConv, nextSession, byAccount>>

GameRegistered(t, g) == gameSession[t][g] # "Configured"

\* Mutant: the avatar stays in the index.
RollbackKeepsIndex(t, s) ==
    /\ records' = [records EXCEPT ![t][s] = [NoRecord EXCEPT !.account = records[t][s].account]]
    /\ UNCHANGED <<byAvatar, clientSession, told>>

\* rollback_pending_selection: the session may select again.
RollbackPendingSelection(t, s) ==
    LET a == records[t][s].avatar
    IN /\ byAvatar' = IF byAvatar[t][a] = s THEN [byAvatar EXCEPT ![t][a] = 0] ELSE byAvatar
       /\ records' = [records EXCEPT ![t][s] = [NoRecord EXCEPT !.account = records[t][s].account]]
       /\ UNCHANGED <<clientSession, told>>

\* Mutant: pending_select_avatar_seq is not reset.
ConfirmKeepsPending(t, s, g, a) ==
    /\ clientSession' = [clientSession EXCEPT ![t][s].route = "Bound"]
    /\ told' = [told EXCEPT ![t][s] = @ \cup {<<a, g>>}]
    /\ UNCHANGED <<records, byAvatar>>

\* SetRouteSelecting and BindRoute, and the answer to the client (told also
\* counts an answer KCP fails to send).
ConfirmSelection(t, s, g, a) ==
    /\ clientSession' = [clientSession EXCEPT ![t][s].route = "Bound"]
    /\ records' = [records EXCEPT ![t][s].pending = FALSE, ![t][s].game = g]
    /\ told' = [told EXCEPT ![t][s] = @ \cup {<<a, g>>}]
    /\ UNCHANGED byAvatar

\* The result is matched with the session, not with the avatar it is about.
HandleGameAvatarEntityCreateResultMessage(g, t) ==
    LET m == Head(toServer[<<g, t>>])
        s == m.session
    IN /\ GateRelays(g, t, "AvatarEntityCreateResult")
       /\ IF GameRegistered(t, g) /\ records[t][s].pending
            THEN IF m.success /\ s \in LiveSessions(t)
                   THEN ConfirmSelection(t, s, g, m.avatar)
                   ELSE RollbackPendingSelection(t, s)
            ELSE UNCHANGED <<clientSession, records, byAvatar, told>>
       /\ UNCHANGED <<toClient, inbox>>

\* The record an avatar index entry leads to still names the avatar.
IndexedRecord(t, a) == byAvatar[t][a] # 0 /\ records[t][byAvatar[t][a]].avatar = a

HandleGamePushToClientMessage(g, t) ==
    LET m == Head(toServer[<<g, t>>])
        s == byAvatar[t][m.avatar]
    IN /\ GateRelays(g, t, "PushToClient")
       /\ inbox' = IF /\ GameRegistered(t, g)
                      /\ IndexedRecord(t, m.avatar) /\ s \in LiveSessions(t)
                     THEN [inbox EXCEPT ![t][s] = @ \cup {m.from}]
                     ELSE inbox
       /\ UNCHANGED <<toClient, clientSession, records, byAvatar, told>>

HandleGameForwardProxyCallMessage(g, t) ==
    LET m == Head(toServer[<<g, t>>])
        h == records[t][byAvatar[t][m.avatar]].game
    IN /\ GateRelays(g, t, "ForwardProxyCall")
       /\ toClient' = IF /\ GameRegistered(t, g) /\ IndexedRecord(t, m.avatar)
                         /\ h # NoGame /\ GameReady(t, h)
                        THEN [toClient EXCEPT ![<<h, t>>] = SentOn(<<h, t>>, @, <<m>>)]
                        ELSE toClient
       /\ UNCHANGED <<clientSession, records, byAvatar, told, inbox>>

HandleGameForwardStubCallMessage(g, t) ==
    LET m == Head(toServer[<<g, t>>])
    IN /\ GateRelays(g, t, "ForwardMailboxCall")
       /\ toClient' = IF GameRegistered(t, g) /\ GameReady(t, m.target)
                        THEN [toClient EXCEPT ![<<m.target, t>>] =
                                SentOn(<<m.target, t>>, @, <<m>>)]
                        ELSE toClient
       /\ UNCHANGED <<clientSession, records, byAvatar, told, inbox>>

\* A step of the client side leaves the links and the startup state alone.
ClientNext ==
    /\ \E t \in Gates :
          \/ /\ ReservationExpires(t) \/ HandleAuthLogin(t) \/ HandleIncomingDatagram(t)
             /\ UNCHANGED <<toServer, toClient>>
          \/ HandleClientSelectAvatarPacket(t) \/ HandleClientEntityRpcPacket(t)
          \/ \E g \in Games : \/ HandleGameAvatarEntityCreateResultMessage(g, t)
                              \/ HandleGamePushToClientMessage(g, t)
                              \/ HandleGameForwardProxyCallMessage(g, t)
                              \/ HandleGameForwardStubCallMessage(g, t)
    /\ UNCHANGED <<link, conn, session, faults>> /\ UNCHANGED gateVars

=============================================================================
