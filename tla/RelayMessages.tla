--------------------------- MODULE RelayMessages ----------------------------
(***************************************************************************)
(* What Gates and Games say to each other once clients are admitted, over  *)
(* the links of the inner network.                                         *)
(***************************************************************************)
EXTENDS InnerNetwork, FiniteSetsExt

CONSTANTS
    Accounts, Avatars,
    NoAccount, NoAvatar,
    MaxSessions,      \* bound: sessions a Gate creates in a behaviour
    MaxQueue          \* bound: messages on the mesh links, a new call included

ASSUME RelayAssumption ==
    /\ NoAccount \notin Accounts /\ NoAvatar \notin Avatars
    /\ MaxSessions \in Nat /\ MaxQueue \in Nat

SessionIds == 1..MaxSessions

\* An OnlineAvatarRegistration.
Registration(acc, a, s, t, g) ==
    [account |-> acc, avatar |-> a, session |-> s, gate |-> t, game |-> g]

\* The bound on calls under way.
RoomForCall ==
    MapThenSumSet(LAMBDA l : Len(toServer[l]) + Len(toClient[l]), MeshLinks) < MaxQueue

-----------------------------------------------------------------------------
(* Messages between Gates and Games.  All carry kPacketSeqNone.  The ids   *)
(* of the Gate and the Game a message names are those of the link it is on *)
(* unless it has a field for them.                                         *)

\* 2003, Gate to Game.
CreateAvatarEntity(s, acc, a) ==
    [type |-> "CreateAvatarEntity", seq |-> SeqNone, session |-> s,
     account |-> acc, avatar |-> a]

\* 2004, Game to Gate.
AvatarEntityCreateResult(s, a, ok) ==
    [type |-> "AvatarEntityCreateResult", seq |-> SeqNone, session |-> s,
     avatar |-> a, success |-> ok]

\* 2005, either way: a call of the client of account acc (ClientToServerEntityRpc)
\* or, with NoAccount, a broadcast for the client of the avatar.
ForwardProxyCall(a, acc) ==
    [type |-> "ForwardProxyCall", seq |-> SeqNone, avatar |-> a, caller |-> acc]

\* 2001, Game to Gate: from is the account the pushing avatar belongs to.
PushToClient(a, acc) ==
    [type |-> "PushToClient", seq |-> SeqNone, avatar |-> a, from |-> acc]

\* 2002, either way: the registration of an avatar with the OnlineStub.
ForwardMailboxCall(g, reg) ==
    [type |-> "ForwardMailboxCall", seq |-> SeqNone, target |-> g, reg |-> reg]

=============================================================================
