---------------------------- MODULE InnerNetwork ----------------------------
(***************************************************************************)
(* The inner network of a cluster: one link per active connector.          *)
(*                                                                         *)
(* A node dials with a ZeroMQ DEALER (ZmqActiveConnector) and answers on a *)
(* ROUTER (ZmqPassiveListener).  Every Gate and every Game dials the GM;   *)
(* once the GM has announced that all nodes are online, every Game also    *)
(* dials every Gate.  A link is named by the pair <<dialer, listener>>.    *)
(*                                                                         *)
(* link      the transport: down, tcp (TCP is connected, the ZMTP          *)
(*           handshake is not finished and the socket has no pipe), up     *)
(* conn      what the dialer believes: ZmqConnectionState as the last      *)
(*           state-change callback left it.  Connecting stands for every   *)
(*           started state that is not Connected: no handler of the nodes  *)
(*           distinguishes Connecting from Disconnected.                   *)
(* toServer  messages under way from the dialer to the listener            *)
(* toClient  messages under way from the listener to the dialer            *)
(* session   the dialer's InnerNetworkSession for this link                *)
(* faults    how many faults of the environment have happened              *)
(***************************************************************************)
EXTENDS Naturals, Sequences, FiniteSets

CONSTANTS
    Gm,             \* the GM node
    Games,          \* the configured Game nodes
    Gates,          \* the configured Gate nodes
    Stubs,          \* the server stub types the managed reflection lists
    NoGame,         \* "no owner": the empty owner_game_node_id
    MaxSeq,         \* bound: sequence numbers in use on one link at a time
    MaxFaults,      \* bound: faults of the environment
    EarlyConnected, \* may Connected be reported before the handshake ends?
    HeartbeatLinks  \* bound: the links whose heartbeat timer fires

Nodes == Games \cup Gates
GmLinks == Nodes \X {Gm}
MeshLinks == Games \X Gates
Links == GmLinks \cup MeshLinks

ASSUME ClusterAssumption ==
    /\ Games \cap Gates = {}
    /\ Gm \notin Nodes
    /\ NoGame \notin Games
    /\ MaxSeq \in Nat
    /\ MaxFaults \in Nat
    /\ EarlyConnected \in BOOLEAN
    /\ HeartbeatLinks \subseteq Links

VARIABLES link, conn, toServer, toClient, session, faults

netVars == <<link, conn, toServer, toClient, session, faults>>

-----------------------------------------------------------------------------
(* Messages.  Every packet header carries a seq: requests and their        *)
(* responses a non-zero one, notifications and reports kPacketSeqNone.     *)

SeqNone == 0
Seqs == 1..MaxSeq

\* kServerStubOwnershipAssignmentEpoch: the GM only ever uses this epoch.
AssignmentEpoch == 1

RegisterRequest(s) == [type |-> "RegisterRequest", seq |-> s]
RegisterResponse(s, ok) == [type |-> "RegisterResponse", seq |-> s, ok |-> ok]
HeartbeatRequest(s) == [type |-> "HeartbeatRequest", seq |-> s]
HeartbeatResponse(s) == [type |-> "HeartbeatResponse", seq |-> s]
ClusterNodesOnlineNotify == [type |-> "ClusterNodesOnlineNotify", seq |-> SeqNone]
MeshReadyReport == [type |-> "MeshReadyReport", seq |-> SeqNone]
OwnershipSync(f) ==
    [type |-> "OwnershipSync", seq |-> SeqNone, epoch |-> AssignmentEpoch, owner |-> f]
StubsReadyReport(e, S) ==
    [type |-> "StubsReadyReport", seq |-> SeqNone, epoch |-> e, ready |-> S]
ClusterReadyNotify(e) ==
    [type |-> "ClusterReadyNotify", seq |-> SeqNone, epoch |-> e]

ToServerMessages ==
    [type : {"RegisterRequest", "HeartbeatRequest"}, seq : Seqs]
        \cup [type : {"MeshReadyReport"}, seq : {SeqNone}]
        \cup [type : {"StubsReadyReport"}, seq : {SeqNone},
              epoch : {AssignmentEpoch}, ready : SUBSET Stubs]
ToClientMessages ==
    [type : {"RegisterResponse"}, seq : Seqs, ok : BOOLEAN]
        \cup [type : {"HeartbeatResponse"}, seq : Seqs]
        \cup [type : {"ClusterNodesOnlineNotify"}, seq : {SeqNone}]
        \cup [type : {"OwnershipSync"}, seq : {SeqNone},
              epoch : {AssignmentEpoch}, owner : [Stubs -> Games]]
        \cup [type : {"ClusterReadyNotify"}, seq : {SeqNone}, epoch : Nat]

-----------------------------------------------------------------------------
(* The dialer's session.  register_in_flight is not kept apart: the code   *)
(* sets and clears it together with register_seq, so it is register_seq    *)
(* # 0.  The heartbeat timer runs exactly while registered holds.          *)

NoSession == [registered |-> FALSE, register_seq |-> SeqNone,
              heartbeat_seq |-> SeqNone, inner_network_ready |-> FALSE]

Sessions == [registered : BOOLEAN, register_seq : 0..MaxSeq,
             heartbeat_seq : 0..MaxSeq, inner_network_ready : BOOLEAN]

NetTypeOK ==
    /\ link \in [Links -> {"down", "tcp", "up"}]
    /\ conn \in [Links -> {"Stopped", "Connecting", "Connected"}]
    /\ toServer \in [Links -> Seq(ToServerMessages)]
    /\ toClient \in [Links -> Seq(ToClientMessages)]
    /\ session \in [Links -> Sessions]
    /\ faults \in 0..MaxFaults

\* OnRun of a Gate or a Game starts its GM connector; the mesh connectors wait.
NetInit ==
    /\ link = [l \in Links |-> "down"]
    /\ conn = [l \in Links |-> IF l \in GmLinks THEN "Connecting" ELSE "Stopped"]
    /\ toServer = [l \in Links |-> <<>>]
    /\ toClient = [l \in Links |-> <<>>]
    /\ session = [l \in Links |-> NoSession]
    /\ faults = 0

\* A fault of the environment, counted against the bound.
Fault == faults < MaxFaults /\ faults' = faults + 1

-----------------------------------------------------------------------------
(* Sequence numbers.  The code counts next_seq up, skipping zero; all the  *)
(* protocol uses of it is that the number differs from every one that is   *)
(* still under way or awaited on the link, so the model takes the smallest *)
(* such number.                                                            *)

SeqsOf(q) == {q[i].seq : i \in DOMAIN q}

SeqsInUse(l) == SeqsOf(toServer[l]) \cup SeqsOf(toClient[l])
                    \cup {session[l].register_seq, session[l].heartbeat_seq}

HasNextSeq(l) == \E s \in Seqs : s \notin SeqsInUse(l)

ConsumeNextInnerSequence(l) == CHOOSE s \in Seqs : s \notin SeqsInUse(l)

-----------------------------------------------------------------------------
(* Sending and receiving.                                                  *)

\* zmq_send on the DEALER: with ZMQ_IMMEDIATE it fails unless the pipe exists.
CanSend(l) == link[l] = "up"

\* q with the messages ms sent on l: lost when the link has no pipe.
SentOn(l, q, ms) == IF CanSend(l) THEN q \o ms ELSE q

Receives(l, type) == toClient[l] # <<>> /\ Head(toClient[l]).type = type
Accepts(l, type) == toServer[l] # <<>> /\ Head(toServer[l]).type = type

\* The dialer consumes the message at the head of the link.
Consume(l) == toClient' = [toClient EXCEPT ![l] = Tail(@)]

-----------------------------------------------------------------------------
(* The transport.  A dialer reconnects no sooner than 100 ms after a       *)
(* disconnect and polls its socket monitor every millisecond, so it has    *)
(* seen the disconnect before the next TCP connection exists.              *)

TcpConnect(l) ==
    /\ conn[l] = "Connecting"
    /\ link[l] = "down"
    /\ link' = [link EXCEPT ![l] = "tcp"]
    /\ UNCHANGED <<conn, toServer, toClient, session, faults>>

Handshake(l) ==
    /\ link[l] = "tcp"
    /\ link' = [link EXCEPT ![l] = "up"]
    /\ UNCHANGED <<conn, toServer, toClient, session, faults>>

\* The connection is lost.  Of the messages under way a prefix has already
\* reached the other socket's inbound pipe and is still read.
Drop(l) ==
    /\ link[l] # "down"
    /\ Fault
    /\ link' = [link EXCEPT ![l] = "down"]
    /\ \E i \in 0..Len(toServer[l]) :
          toServer' = [toServer EXCEPT ![l] = SubSeq(@, 1, i)]
    /\ \E j \in 0..Len(toClient[l]) :
          toClient' = [toClient EXCEPT ![l] = SubSeq(@, 1, j)]
    /\ UNCHANGED <<conn, session>>

-----------------------------------------------------------------------------
(* ZmqActiveConnector: the monitor events that change the state.  CONNECTED *)
(* already means Connected, and HANDSHAKE_SUCCEEDED is then no change.      *)

SeesConnected(l) ==
    /\ conn[l] = "Connecting"
    /\ link[l] = "up" \/ (EarlyConnected /\ link[l] = "tcp")
    /\ conn' = [conn EXCEPT ![l] = "Connected"]

SeesDisconnected(l) ==
    /\ conn[l] = "Connected"
    /\ link[l] = "down"
    /\ conn' = [conn EXCEPT ![l] = "Connecting"]

\* The register request of the dialer of l, when nothing is sent yet.  A
\* failed send leaves the session alone and is not retried.
SendRegister(l) ==
    IF CanSend(l)
      THEN /\ HasNextSeq(l)
           /\ toServer' = [toServer EXCEPT ![l] =
                  Append(@, RegisterRequest(ConsumeNextInnerSequence(l)))]
           /\ session' = [session EXCEPT ![l].register_seq = ConsumeNextInnerSequence(l)]
      ELSE UNCHANGED <<toServer, session>>

\* The heartbeat timer of the dialer of l fires: at most one unanswered request.
SendHeartbeat(l) ==
    /\ l \in HeartbeatLinks
    /\ session[l].registered
    /\ conn[l] = "Connected"
    /\ session[l].heartbeat_seq = SeqNone
    /\ CanSend(l)
    /\ HasNextSeq(l)
    /\ toServer' = [toServer EXCEPT ![l] =
           Append(@, HeartbeatRequest(ConsumeNextInnerSequence(l)))]
    /\ session' = [session EXCEPT ![l].heartbeat_seq = ConsumeNextInnerSequence(l)]
    /\ UNCHANGED <<link, conn, toClient, faults>>

NetNext == \E l \in Links : TcpConnect(l) \/ Handshake(l) \/ Drop(l)

=============================================================================
