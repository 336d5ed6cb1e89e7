------------------------ MODULE ClusterStartupSteps -------------------------
(***************************************************************************)
(* Lemmas for ClusterStartupProofs: what the steps of the network, of the  *)
(* GM and of the Gates, and the steps any dialer takes, do to the          *)
(* inductive invariant.                                                    *)
(***************************************************************************)
EXTENDS ClusterStartupInv, SequenceTheorems, TLAPS

-----------------------------------------------------------------------------
(* Queues.                                                                 *)

\* What taking from, adding to and cutting a queue of elements of S leaves.
LEMMA QueueOps ==
    ASSUME NEW S, NEW q \in Seq(S)
    PROVE  /\ q # <<>> => Head(q) \in S /\ Tail(q) \in Seq(S)
           /\ \A m \in S : Append(q, m) \in Seq(S) /\ <<m>> \in Seq(S)
           /\ \A r \in Seq(S) : q \o r \in Seq(S)
           /\ \A i \in 0..Len(q) : SubSeq(q, 1, i) \in Seq(S)
           /\ <<>> \in Seq(S)
<1>1. q # <<>> => Head(q) \in S /\ Tail(q) \in Seq(S)
  BY HeadTailProperties
<1>2. \A m \in S : Append(q, m) \in Seq(S) /\ <<m>> \in Seq(S)
  OBVIOUS
<1>3. \A r \in Seq(S) : q \o r \in Seq(S)
  BY ConcatProperties
<1>4. \A i \in 0..Len(q) : SubSeq(q, 1, i) \in Seq(S)
  <2> TAKE i \in 0..Len(q)
  <2>1. Len(q) \in Nat /\ \A j \in 1..i : q[j] \in S
    BY LenProperties, ElementOfSeq
  <2>2. QED
    BY <2>1, SubSeqProperties
<1>5. QED
  BY <1>1, <1>2, <1>3, <1>4, EmptySeq

\* The links of each node.
LEMMA LinkFacts ==
    /\ \A n \in Nodes : <<n, Gm>> \in Links
    /\ \A g \in Games : g \in Nodes /\ <<g, Gm>> \in Links /\ <<g, Gm>> \notin MeshLinks
    /\ \A t \in Gates : t \in Nodes /\ <<t, Gm>> \in Links /\ <<t, Gm>> \notin MeshLinks
    /\ \A g \in Games, t \in Gates :
          <<g, t>> \in Links /\ <<g, t>> \in MeshLinks /\ <<g, t>>[2] # Gm /\ t # Gm
    /\ \A l \in Links : \/ l[2] = Gm /\ l[1] \in Nodes /\ l = <<l[1], Gm>>
                        \/ l[2] \in Gates /\ l[2] # Gm /\ l[1] \in Games /\ l = <<l[1], l[2]>>
  BY ClusterAssumption DEF Links, GmLinks, MeshLinks, Nodes

-----------------------------------------------------------------------------
(* What is claimed once stays true.                                        *)

\* Everything a message may claim only ever grows.
Grows ==
    /\ \A l \in Links : Known(l) => Known(l)'
    /\ \A g \in Games : /\ onlineSeen[g] => onlineSeen'[g]
                        /\ meshCurrent[g] => meshCurrent'[g]
                        /\ hosted[g] \subseteq hosted'[g]
    /\ allNodesOnline => allNodesOnline'
    /\ allGamesMeshReady => allGamesMeshReady' /\ owner' = owner
    /\ gateOpen => gateOpen'

\* So a queue of true messages remains one.
LEMMA SoundGrows ==
    ASSUME TypeOK, Grows, NEW l \in Links
    PROVE  /\ \A q \in Seq(SoundToClient(l)) : q \in Seq(SoundToClient(l)')
           /\ \A q \in Seq(SoundToServer(l)) : q \in Seq(SoundToServer(l)')
<1>1. SoundToClient(l) \subseteq SoundToClient(l)'
  BY DEF SoundToClient, Grows
<1>2. SoundToServer(l) \subseteq SoundToServer(l)'
  BY DEF SoundToServer, Grows, MeshLinks
<1>3. QED
  BY <1>1, <1>2, SeqMonotonic

\* The queues after a step: typed, and every message in them true.
ServerMail ==
    /\ toServer' \in [Links -> Seq(ToServerMessages)]
    /\ \A l \in Links : toServer'[l] \in Seq(SoundToServer(l)')
ClientMail ==
    /\ toClient' \in [Links -> Seq(ToClientMessages)]
    /\ \A l \in Links : toClient'[l] \in Seq(SoundToClient(l)')

\* A step that only grows keeps the queues it does not touch.
LEMMA ServerSame ==
    ASSUME TypeOK, MailIsSound, Grows, toServer' = toServer
    PROVE  ServerMail
  BY SoundGrows DEF TypeOK, NetTypeOK, MailIsSound, ServerMail

LEMMA ClientSame ==
    ASSUME TypeOK, MailIsSound, Grows, toClient' = toClient
    PROVE  ClientMail
  BY SoundGrows DEF TypeOK, NetTypeOK, MailIsSound, ClientMail

\* One queue changes to q, a queue of true messages.
LEMMA ServerChange ==
    ASSUME TypeOK, MailIsSound, Grows, NEW l \in Links,
           NEW q \in Seq(SoundToServer(l)'), toServer' = [toServer EXCEPT ![l] = q]
    PROVE  ServerMail
<1>1. q \in Seq(ToServerMessages)
  <2>1. SoundToServer(l)' \subseteq ToServerMessages
    BY DEF SoundToServer
  <2>2. QED
    BY <2>1, SeqMonotonic
<1>2. QED
  BY <1>1, SoundGrows DEF TypeOK, NetTypeOK, MailIsSound, ServerMail

LEMMA ClientChange ==
    ASSUME TypeOK, MailIsSound, Grows, NEW l \in Links,
           NEW q \in Seq(SoundToClient(l)'), toClient' = [toClient EXCEPT ![l] = q]
    PROVE  ClientMail
<1>1. q \in Seq(ToClientMessages)
  <2>1. SoundToClient(l)' \subseteq ToClientMessages
    BY DEF SoundToClient
  <2>2. QED
    BY <2>1, SeqMonotonic
<1>2. QED
  BY <1>1, SoundGrows DEF TypeOK, NetTypeOK, MailIsSound, ClientMail

\* The dialer of l sends ms, or the single message m.
LEMMA ServerSend ==
    ASSUME TypeOK, MailIsSound, Grows, NEW l \in Links,
           NEW ms \in Seq(SoundToServer(l)'), toServer' = [toServer EXCEPT ![l] = @ \o ms]
    PROVE  ServerMail
<1>1. toServer[l] \in Seq(SoundToServer(l)')
  BY SoundGrows DEF MailIsSound
<1>2. toServer[l] \o ms \in Seq(SoundToServer(l)')
  BY <1>1, QueueOps
<1>3. QED
  BY <1>2, ServerChange

LEMMA ServerAppend ==
    ASSUME TypeOK, MailIsSound, Grows, NEW l \in Links,
           NEW m \in SoundToServer(l)', toServer' = [toServer EXCEPT ![l] = Append(@, m)]
    PROVE  ServerMail
<1>1. toServer[l] \in Seq(SoundToServer(l)')
  BY SoundGrows DEF MailIsSound
<1>2. Append(toServer[l], m) \in Seq(SoundToServer(l)')
  BY <1>1, QueueOps
<1>3. QED
  BY <1>2, ServerChange

\* The listener of l takes the first message; the dialer of l consumes one.
LEMMA ServerTake ==
    ASSUME TypeOK, MailIsSound, Grows, NEW l \in Links, toServer[l] # <<>>,
           toServer' = [toServer EXCEPT ![l] = Tail(@)]
    PROVE  ServerMail
<1>1. toServer[l] \in Seq(SoundToServer(l)')
  BY SoundGrows DEF MailIsSound
<1>2. Tail(toServer[l]) \in Seq(SoundToServer(l)')
  BY <1>1, QueueOps
<1>3. QED
  BY <1>2, ServerChange

LEMMA ClientTake ==
    ASSUME TypeOK, MailIsSound, Grows, NEW l \in Links, toClient[l] # <<>>, Consume(l)
    PROVE  ClientMail
<1>1. toClient[l] \in Seq(SoundToClient(l)')
  BY SoundGrows DEF MailIsSound
<1>2. Tail(toClient[l]) \in Seq(SoundToClient(l)')
  BY <1>1, QueueOps
<1>3. QED
  BY <1>2, ClientChange DEF Consume

\* What is read from a queue is true.
LEMMA HeadIsSound ==
    ASSUME TypeOK, MailIsSound, NEW l \in Links
    PROVE  /\ toServer[l] # <<>> => Head(toServer[l]) \in SoundToServer(l)
           /\ toClient[l] # <<>> => Head(toClient[l]) \in SoundToClient(l)
  BY QueueOps DEF MailIsSound

\* The listener of l answers with m, if the link is up.
LEMMA ClientAnswer ==
    ASSUME TypeOK, MailIsSound, Grows, NEW l \in Links, NEW m \in SoundToClient(l)',
           toClient' = [toClient EXCEPT ![l] = SentOn(l, @, <<m>>)]
    PROVE  ClientMail
<1>1. toClient[l] \in Seq(SoundToClient(l)')
  BY SoundGrows DEF MailIsSound
<1>2. SentOn(l, toClient[l], <<m>>) \in Seq(SoundToClient(l)')
  BY <1>1, QueueOps DEF SentOn
<1>3. QED
  BY <1>2, ClientChange

\* A listener sends true messages on several of its links.
LEMMA ClientSpread ==
    ASSUME TypeOK, MailIsSound, Grows,
           toClient' = [k \in Links |-> toClient'[k]],
           \A k \in Links : \/ toClient'[k] = toClient[k]
                            \/ \E r \in Seq(SoundToClient(k)') : toClient'[k] = toClient[k] \o r
    PROVE  ClientMail
<1>1. ASSUME NEW k \in Links
      PROVE  toClient'[k] \in Seq(SoundToClient(k)')
  <2>1. toClient[k] \in Seq(SoundToClient(k)')
    BY SoundGrows DEF MailIsSound
  <2>2. \A r \in Seq(SoundToClient(k)') : toClient[k] \o r \in Seq(SoundToClient(k)')
    BY <2>1, QueueOps
  <2>3. QED
    BY <2>1, <2>2
<1>2. \A k \in Links : SoundToClient(k)' \subseteq ToClientMessages
  BY DEF SoundToClient
<1>3. \A k \in Links : toClient'[k] \in Seq(ToClientMessages)
  BY <1>1, <1>2, SeqMonotonic
<1>4. QED
  BY <1>1, <1>3 DEF ClientMail

-----------------------------------------------------------------------------
(* The pieces of a step.                                                   *)

\* The network's variables other than the queues are typed.
LinkTypes ==
    /\ link \in [Links -> {"down", "tcp", "up"}]
    /\ conn \in [Links -> {"Stopped", "Connecting", "Connected"}]
    /\ session \in [Links -> Sessions]
    /\ faults \in 0..MaxFaults

\* The state of the nodes.
NodesOK == GmTypeOK /\ GameTypeOK /\ GateTypeOK /\ BarriersHold /\ StubsArePlaced

LEMMA Compose ==
    ASSUME ServerMail, ClientMail, LinkTypes', SessionsAreBacked', NodesOK'
    PROVE  IInv'
  BY DEF ServerMail, ClientMail, LinkTypes, NodesOK, IInv, TypeOK, NetTypeOK, MailIsSound

\* A step that leaves the nodes' state alone.
LEMMA NodesIdle ==
    ASSUME IInv, UNCHANGED gmVars, UNCHANGED gameVars, UNCHANGED gateVars
    PROVE  Grows /\ NodesOK'
<1>1. Grows
  BY DEF Grows, Known, gmVars, gameVars, gateVars
<1>2. GmTypeOK' /\ GameTypeOK' /\ GateTypeOK'
  BY DEF IInv, TypeOK, GmTypeOK, GameTypeOK, GateTypeOK, gmVars, gameVars, gateVars
<1>3. BarriersHold' /\ StubsArePlaced'
  BY DEF IInv, BarriersHold, StubsArePlaced, Known, OwnedBy, gmVars, gameVars, gateVars
<1>4. QED
  BY <1>1, <1>2, <1>3 DEF NodesOK

\* The dialer of l replaces its session by s.
LEMMA SessionChange ==
    ASSUME TypeOK, SessionsAreBacked, Grows, NEW l \in Links, NEW s \in Sessions,
           s.registered => Known(l)', session' = [session EXCEPT ![l] = s]
    PROVE  session' \in [Links -> Sessions] /\ SessionsAreBacked'
  BY DEF TypeOK, NetTypeOK, SessionsAreBacked, Grows

LEMMA SessionSame ==
    ASSUME TypeOK, SessionsAreBacked, Grows, session' = session
    PROVE  session' \in [Links -> Sessions] /\ SessionsAreBacked'
  BY DEF TypeOK, NetTypeOK, SessionsAreBacked, Grows

\* The count of faults stays within its bound.
LEMMA FaultCounted ==
    ASSUME TypeOK, faults' = faults \/ Fault
    PROVE  faults' \in 0..MaxFaults
  BY ClusterAssumption DEF TypeOK, NetTypeOK, Fault

\* The number the dialer puts on a request.
LEMMA NextSeq ==
    ASSUME NEW l, HasNextSeq(l)
    PROVE  ConsumeNextInnerSequence(l) \in Seqs
  BY DEF HasNextSeq, ConsumeNextInnerSequence

-----------------------------------------------------------------------------
(* The transport.                                                          *)

LEMMA NetStep ==
    ASSUME IInv, OfNet(NetNext)
    PROVE  IInv'
<1> PICK l \in Links : TcpConnect(l) \/ Handshake(l) \/ Drop(l)
  BY DEF OfNet, NetNext
<1>1. Grows /\ NodesOK'
  BY NodesIdle DEF OfNet
<1>2. session' = session
  BY DEF TcpConnect, Handshake, Drop
<1>3. SessionsAreBacked' /\ session' \in [Links -> Sessions]
  BY <1>1, <1>2, SessionSame DEF IInv
<1>4. LinkTypes'
  <2>1. conn' = conn /\ \E x \in {"down", "tcp", "up"} : link' = [link EXCEPT ![l] = x]
    BY DEF TcpConnect, Handshake, Drop
  <2>2. faults' = faults \/ Fault
    BY DEF TcpConnect, Handshake, Drop
  <2>3. faults' \in 0..MaxFaults
    BY <2>2, FaultCounted DEF IInv
  <2>4. QED
    BY <1>3, <2>1, <2>3 DEF IInv, TypeOK, NetTypeOK, LinkTypes
<1>5. ServerMail
  <2>1. CASE Drop(l)
    <3>1. PICK i \in 0..Len(toServer[l]) : toServer' = [toServer EXCEPT ![l] = SubSeq(@, 1, i)]
      BY <2>1 DEF Drop
    <3>2. toServer[l] \in Seq(SoundToServer(l)')
      BY <1>1, SoundGrows DEF IInv, MailIsSound
    <3>3. SubSeq(toServer[l], 1, i) \in Seq(SoundToServer(l)')
      BY <3>2, QueueOps
    <3>4. QED
      BY <1>1, <3>1, <3>3, ServerChange DEF IInv
  <2>2. CASE TcpConnect(l) \/ Handshake(l)
    BY <1>1, <2>2, ServerSame DEF IInv, TcpConnect, Handshake
  <2>3. QED
    BY <2>1, <2>2
<1>6. ClientMail
  <2>1. CASE Drop(l)
    <3>1. PICK i \in 0..Len(toClient[l]) : toClient' = [toClient EXCEPT ![l] = SubSeq(@, 1, i)]
      BY <2>1 DEF Drop
    <3>2. toClient[l] \in Seq(SoundToClient(l)')
      BY <1>1, SoundGrows DEF IInv, MailIsSound
    <3>3. SubSeq(toClient[l], 1, i) \in Seq(SoundToClient(l)')
      BY <3>2, QueueOps
    <3>4. QED
      BY <1>1, <3>1, <3>3, ClientChange DEF IInv
  <2>2. CASE TcpConnect(l) \/ Handshake(l)
    BY <1>1, <2>2, ClientSame DEF IInv, TcpConnect, Handshake
  <2>3. QED
    BY <2>1, <2>2
<1>7. QED
  BY <1>1, <1>3, <1>4, <1>5, <1>6, Compose

-----------------------------------------------------------------------------
(* What every dialer does, on whichever link.                              *)

\* The fields of a session, one by one.
LEMMA SessionFields ==
    ASSUME NEW x \in Sessions, NEW q \in 0..MaxSeq
    PROVE  /\ [x EXCEPT !.register_seq = q] \in Sessions
           /\ [x EXCEPT !.register_seq = q].registered = x.registered
           /\ [x EXCEPT !.heartbeat_seq = q] \in Sessions
           /\ [x EXCEPT !.heartbeat_seq = q].registered = x.registered
           /\ [x EXCEPT !.heartbeat_seq = q, !.inner_network_ready = TRUE] \in Sessions
           /\ [x EXCEPT !.heartbeat_seq = q, !.inner_network_ready = TRUE].registered
                = x.registered
           /\ [x EXCEPT !.registered = FALSE, !.register_seq = q] \in Sessions
           /\ [x EXCEPT !.registered = FALSE, !.register_seq = q].registered = FALSE
  BY DEF Sessions

LEMMA NoSessionFields ==
    /\ 0 \in 0..MaxSeq /\ \A q \in Seqs : q \in 0..MaxSeq
    /\ NoSession \in Sessions /\ ~NoSession.registered
    /\ [NoSession EXCEPT !.registered = TRUE] \in Sessions
<1>1. 0 \in 0..MaxSeq /\ \A q \in Seqs : q \in 0..MaxSeq
  BY ClusterAssumption DEF Seqs
<1>2. NoSession \in Sessions /\ ~NoSession.registered
  BY <1>1 DEF NoSession, Sessions, SeqNone
<1>3. [NoSession EXCEPT !.registered = TRUE] \in Sessions
  BY <1>2 DEF Sessions
<1>4. QED
  BY <1>1, <1>2, <1>3

\* The messages a dialer may send at any time, and a request on a mesh link.
LEMMA RequestsAreSound ==
    ASSUME NEW l \in Links, NEW s \in Seqs
    PROVE  /\ HeartbeatRequest(s) \in SoundToServer(l)
           /\ (l \in MeshLinks => onlineSeen[l[1]]) => RegisterRequest(s) \in SoundToServer(l)
  BY DEF SoundToServer, ToServerMessages, HeartbeatRequest, RegisterRequest

LEMMA RegisterSent ==
    ASSUME IInv, Grows, NEW l \in Links, SendRegister(l), l \in MeshLinks => onlineSeen[l[1]]
    PROVE  ServerMail /\ session' \in [Links -> Sessions] /\ SessionsAreBacked'
<1>1. CASE ~CanSend(l)
  BY <1>1, ServerSame, SessionSame DEF IInv, SendRegister
<1>2. CASE CanSend(l)
  <2> DEFINE q == ConsumeNextInnerSequence(l)
             s == [session[l] EXCEPT !.register_seq = q]
  <2>1. q \in Seqs
    BY <1>2, NextSeq DEF SendRegister
  <2>2. RegisterRequest(q) \in SoundToServer(l)'
    <3>1. RegisterRequest(q) \in SoundToServer(l)
      BY <2>1, RequestsAreSound
    <3>2. SoundToServer(l) \subseteq SoundToServer(l)'
      BY DEF SoundToServer, Grows, MeshLinks
    <3>3. QED
      BY <3>1, <3>2
  <2>3. ServerMail
    BY <1>2, <2>2, ServerAppend DEF IInv, SendRegister
  <2>4. s \in Sessions /\ s.registered = session[l].registered
    BY <2>1, SessionFields, NoSessionFields DEF IInv, TypeOK, NetTypeOK
  <2>5. s.registered => Known(l)'
    BY <2>4 DEF IInv, SessionsAreBacked, Grows
  <2>6. session' = [session EXCEPT ![l] = s]
    BY <1>2 DEF SendRegister
  <2>7. QED
    BY <2>3, <2>4, <2>5, <2>6, SessionChange DEF IInv
<1>3. QED
  BY <1>1, <1>2

LEMMA ConnectedStep ==
    ASSUME IInv, NEW l \in Links, SeesConnected(l),
           \/ UNCHANGED <<toServer, session>>
           \/ SendRegister(l) /\ (l \in MeshLinks => onlineSeen[l[1]]),
           UNCHANGED <<link, toClient, faults>>,
           UNCHANGED gmVars, UNCHANGED gameVars, UNCHANGED gateVars
    PROVE  IInv'
<1>1. Grows /\ NodesOK'
  BY NodesIdle
<1>2. ServerMail /\ session' \in [Links -> Sessions] /\ SessionsAreBacked'
  BY <1>1, RegisterSent, ServerSame, SessionSame DEF IInv
<1>3. ClientMail
  BY <1>1, ClientSame DEF IInv
<1>4. LinkTypes'
  BY <1>2 DEF IInv, TypeOK, NetTypeOK, LinkTypes, SeesConnected
<1>5. QED
  BY <1>1, <1>2, <1>3, <1>4, Compose

LEMMA DisconnectedStep ==
    ASSUME IInv, NEW l \in Links, SeesDisconnected(l),
           session' = session \/ session' = [session EXCEPT ![l] = NoSession],
           UNCHANGED <<link, toServer, toClient, faults>>,
           UNCHANGED gmVars, UNCHANGED gameVars, UNCHANGED gateVars
    PROVE  IInv'
<1>1. Grows /\ NodesOK'
  BY NodesIdle
<1>2. NoSession \in Sessions /\ ~NoSession.registered
  BY NoSessionFields
<1>3. session' \in [Links -> Sessions] /\ SessionsAreBacked'
  BY <1>1, <1>2, SessionSame, SessionChange DEF IInv
<1>4. ServerMail /\ ClientMail
  BY <1>1, ServerSame, ClientSame DEF IInv
<1>5. LinkTypes'
  BY <1>3 DEF IInv, TypeOK, NetTypeOK, LinkTypes, SeesDisconnected
<1>6. QED
  BY <1>1, <1>3, <1>4, <1>5, Compose

LEMMA HeartbeatStep ==
    ASSUME IInv, NEW l \in Links, SendHeartbeat(l),
           UNCHANGED gmVars, UNCHANGED gameVars, UNCHANGED gateVars
    PROVE  IInv'
<1> DEFINE q == ConsumeNextInnerSequence(l)
           s == [session[l] EXCEPT !.heartbeat_seq = q]
<1>1. Grows /\ NodesOK'
  BY NodesIdle
<1>2. q \in Seqs
  BY NextSeq DEF SendHeartbeat
<1>3. HeartbeatRequest(q) \in SoundToServer(l)'
  BY <1>2 DEF SoundToServer, ToServerMessages, HeartbeatRequest
<1>4. ServerMail
  BY <1>1, <1>3, ServerAppend DEF IInv, SendHeartbeat
<1>5. s \in Sessions /\ s.registered = session[l].registered
  BY <1>2, SessionFields, NoSessionFields DEF IInv, TypeOK, NetTypeOK
<1>6. s.registered => Known(l)'
  BY <1>1, <1>5 DEF IInv, SessionsAreBacked, Grows
<1>7. session' = [session EXCEPT ![l] = s]
  BY DEF SendHeartbeat
<1>8. session' \in [Links -> Sessions] /\ SessionsAreBacked'
  BY <1>1, <1>5, <1>6, <1>7, SessionChange DEF IInv
<1>9. ClientMail
  BY <1>1, ClientSame DEF IInv, SendHeartbeat
<1>10. LinkTypes'
  BY <1>8 DEF IInv, TypeOK, NetTypeOK, LinkTypes, SendHeartbeat
<1>11. QED
  BY <1>1, <1>4, <1>8, <1>9, <1>10, Compose

\* The dialer of l consumes a response and at most changes its session.
LEMMA ResponseStep ==
    ASSUME IInv, NEW l \in Links, toClient[l] # <<>>, Consume(l),
           NEW s \in Sessions, s.registered => Known(l),
           session' = session \/ session' = [session EXCEPT ![l] = s],
           UNCHANGED <<link, conn, toServer, faults>>,
           UNCHANGED gmVars, UNCHANGED gameVars, UNCHANGED gateVars
    PROVE  IInv'
<1>1. Grows /\ NodesOK'
  BY NodesIdle
<1>2. s.registered => Known(l)'
  BY <1>1 DEF Grows
<1>3. session' \in [Links -> Sessions] /\ SessionsAreBacked'
  BY <1>1, <1>2, SessionSame, SessionChange DEF IInv
<1>4. ServerMail /\ ClientMail
  BY <1>1, ServerSame, ClientTake DEF IInv
<1>5. LinkTypes'
  BY <1>3 DEF IInv, TypeOK, NetTypeOK, LinkTypes
<1>6. QED
  BY <1>1, <1>3, <1>4, <1>5, Compose

-----------------------------------------------------------------------------
(* The GM.                                                                 *)

\* The entry of a node on the GM and of a Game on a Gate.
LEMMA KnownOf ==
    /\ \A n \in Nodes : Known(<<n, Gm>>) <=> gmSession[n] # "None"
    /\ \A g \in Games, t \in Gates : Known(<<g, t>>) <=> gameSession[t][g] # "Configured"
  BY ClusterAssumption DEF Known, Nodes

\* A step that changes the GM's session entries and removes none.
LEMMA GmSessionStep ==
    ASSUME IInv, gmSession' \in [Nodes -> {"None", "Registered", "Ready", "TimedOut"}],
           \A n \in Nodes : gmSession[n] # "None" => gmSession'[n] # "None",
           UNCHANGED <<registeredNodes, allNodesOnline, meshReady, allGamesMeshReady,
                       owner, stubsReady, readyEpoch, gateOpen>>,
           UNCHANGED gameVars, UNCHANGED gateVars
    PROVE  Grows /\ NodesOK'
<1>1. \A l \in Links : Known(l) => Known(l)'
  BY LinkFacts DEF Known, gateVars
<1>2. Grows
  BY <1>1 DEF Grows, gameVars, gateVars
<1>3. GmTypeOK' /\ GameTypeOK' /\ GateTypeOK'
  BY DEF IInv, TypeOK, GmTypeOK, GameTypeOK, GateTypeOK, gameVars, gateVars
<1>4. BarriersHold'
  BY <1>1, LinkFacts DEF IInv, BarriersHold, gameVars, gateVars
<1>5. StubsArePlaced'
  BY DEF IInv, StubsArePlaced, OwnedBy, gameVars
<1>6. QED
  BY <1>2, <1>3, <1>4, <1>5 DEF NodesOK

\* The network's part of a GM step: a message is taken from n, the dialers'
\* sessions stay.
LEMMA GmFrame ==
    ASSUME IInv, Grows, NEW n \in Nodes, NEW type, GmTakes(n, type),
           UNCHANGED <<link, conn, session>>, faults' = faults \/ Fault
    PROVE  ServerMail /\ LinkTypes' /\ SessionsAreBacked'
<1>1. ServerMail
  BY LinkFacts, ServerTake DEF IInv, GmTakes, Accepts
<1>2. session' \in [Links -> Sessions] /\ SessionsAreBacked'
  BY SessionSame DEF IInv
<1>3. LinkTypes'
  BY <1>2, FaultCounted DEF IInv, TypeOK, NetTypeOK, LinkTypes
<1>4. QED
  BY <1>1, <1>2, <1>3

LEMMA GmRegisterStep ==
    ASSUME IInv, NEW n \in Nodes, OfGm(GmHandleRegisterMessage(n))
    PROVE  IInv'
<1> DEFINE l == <<n, Gm>>
           seq == Head(toServer[l]).seq
<1>1. l \in Links /\ toServer[l] # <<>> /\ GmTakes(n, "RegisterRequest")
  BY LinkFacts DEF OfGm, GmHandleRegisterMessage, GmTakes, Accepts
<1>2. UNCHANGED <<link, conn, session, faults>> /\ UNCHANGED gameVars /\ UNCHANGED gateVars
  BY DEF OfGm, GmHandleRegisterMessage
<1>3. seq \in Seqs
  <2>1. Head(toServer[l]) \in ToServerMessages /\ Head(toServer[l]).type = "RegisterRequest"
    BY <1>1, HeadIsSound DEF IInv, SoundToServer, GmTakes, Accepts
  <2>2. QED
    BY <2>1 DEF ToServerMessages
<1>4. CASE RejectRegister(n, seq)
  <2>1. Grows /\ NodesOK'
    BY <1>2, <1>4, NodesIdle DEF RejectRegister
  <2>2. RegisterResponse(seq, FALSE) \in SoundToClient(l)'
    BY <1>3 DEF SoundToClient, ToClientMessages, RegisterResponse
  <2>3. ClientMail
    BY <1>1, <1>4, <2>1, <2>2, ClientAnswer DEF IInv, RejectRegister
  <2>4. QED
    BY <1>1, <1>2, <2>1, <2>3, GmFrame, Compose
<1>5. CASE RegisterUnanswered(n)
  <2>1. Grows /\ NodesOK'
    BY <1>2, <1>5, GmSessionStep DEF IInv, TypeOK, GmTypeOK, RegisterUnanswered
  <2>2. ClientMail
    BY <1>5, <2>1, ClientSame DEF IInv, RegisterUnanswered
  <2>3. QED
    BY <1>1, <1>2, <2>1, <2>2, GmFrame, Compose
<1>6. CASE AcceptRegister(n, seq)
  <2> DEFINE R == registeredNodes \cup {n}
             online == ~allNodesOnline /\ AreAllExpectedNodesOnline(R)
  <2>1. /\ gmSession' = [gmSession EXCEPT ![n] = "Registered"]
        /\ registeredNodes' = R
        /\ allNodesOnline' = (allNodesOnline \/ online)
        /\ toClient' = [k \in Links |->
               SentOn(k, toClient[k], RegistrationMail(n, seq, online, k))]
        /\ UNCHANGED <<meshReady, allGamesMeshReady, owner, stubsReady, readyEpoch, gateOpen>>
    BY <1>6 DEF AcceptRegister
  <2>2. \A k \in Links : Known(k) => Known(k)'
    BY <1>2, <2>1, LinkFacts DEF IInv, TypeOK, GmTypeOK, Known, gateVars
  <2>3. Grows
    BY <1>2, <2>1, <2>2 DEF Grows, gameVars
  <2>4. GmTypeOK' /\ GameTypeOK' /\ GateTypeOK'
    BY <1>2, <2>1 DEF IInv, TypeOK, GmTypeOK, GameTypeOK, GateTypeOK, gameVars, gateVars,
       AreAllExpectedNodesOnline
  <2>5. allNodesOnline' => registeredNodes' = Nodes
    BY <2>1 DEF IInv, TypeOK, GmTypeOK, BarriersHold, AreAllExpectedNodesOnline
  <2>6. BarriersHold'
    BY <1>2, <2>1, <2>2, <2>5, LinkFacts DEF IInv, BarriersHold, gameVars, gateVars
  <2>7. StubsArePlaced'
    BY <1>2, <2>1 DEF IInv, StubsArePlaced, OwnedBy, gameVars
  <2>8. ASSUME NEW k \in Links
        PROVE  RegistrationMail(n, seq, online, k) \in Seq(SoundToClient(k)')
    <3> DEFINE a == IF k = l THEN <<RegisterResponse(seq, TRUE)>> ELSE <<>>
               b == IF online /\ k[1] \in Games /\ k[2] = Gm
                         /\ (gmSession[k[1]] \in Live \/ k[1] = n)
                      THEN <<ClusterNodesOnlineNotify>> ELSE <<>>
    <3>1. k = l => Known(k)'
      BY <2>1 DEF Known, IInv, TypeOK, GmTypeOK
    <3>2. k = l => RegisterResponse(seq, TRUE) \in SoundToClient(k)'
      BY <1>3, <3>1 DEF SoundToClient, ToClientMessages, RegisterResponse
    <3>3. online => ClusterNodesOnlineNotify \in SoundToClient(k)'
      BY <2>1 DEF SoundToClient, ToClientMessages, ClusterNodesOnlineNotify
    <3>4. a \in Seq(SoundToClient(k)') /\ b \in Seq(SoundToClient(k)')
      BY <3>2, <3>3, EmptySeq, QueueOps
    <3>5. a \o b \in Seq(SoundToClient(k)')
      BY <3>4, ConcatProperties
    <3>6. QED
      BY <3>5 DEF RegistrationMail
  <2>9. ClientMail
    <3>1. \A k \in Links : \/ toClient'[k] = toClient[k]
                           \/ toClient'[k] = toClient[k] \o RegistrationMail(n, seq, online, k)
      BY <2>1 DEF SentOn
    <3>2. toClient' = [k \in Links |-> toClient'[k]]
      BY <2>1
    <3>3. QED
      BY <2>3, <2>8, <3>1, <3>2, ClientSpread DEF IInv
  <2>10. QED
    BY <1>1, <1>2, <2>3, <2>4, <2>6, <2>7, <2>9, GmFrame, Compose DEF NodesOK
<1>7. QED
  BY <1>4, <1>5, <1>6 DEF OfGm, GmHandleRegisterMessage

LEMMA GmHeartbeatStep ==
    ASSUME IInv, NEW n \in Nodes, OfGm(GmHandleHeartbeatMessage(n))
    PROVE  IInv'
<1> DEFINE l == <<n, Gm>>
           seq == Head(toServer[l]).seq
<1>1. l \in Links /\ toServer[l] # <<>> /\ GmTakes(n, "HeartbeatRequest")
  BY LinkFacts DEF OfGm, GmHandleHeartbeatMessage, GmTakes, Accepts
<1>2. UNCHANGED <<link, conn, session, faults>> /\ UNCHANGED gameVars /\ UNCHANGED gateVars
  BY DEF OfGm, GmHandleHeartbeatMessage
<1>3. Grows /\ NodesOK'
  <2>1. \/ gmSession' = gmSession
        \/ gmSession' = [gmSession EXCEPT ![n] = "Ready"]
    BY DEF OfGm, GmHandleHeartbeatMessage
  <2>2. QED
    BY <1>2, <2>1, GmSessionStep DEF OfGm, GmHandleHeartbeatMessage, IInv, TypeOK, GmTypeOK
<1>4. HeartbeatResponse(seq) \in SoundToClient(l)'
  <2>1. Head(toServer[l]) \in ToServerMessages /\ Head(toServer[l]).type = "HeartbeatRequest"
    BY <1>1, HeadIsSound DEF IInv, SoundToServer, GmTakes, Accepts
  <2>2. seq \in Seqs
    BY <2>1 DEF ToServerMessages
  <2>3. QED
    BY <2>2 DEF SoundToClient, ToClientMessages, HeartbeatResponse
<1>5. ClientMail
  <2>1. \/ toClient' = toClient
        \/ toClient' = [toClient EXCEPT ![l] = SentOn(l, @, <<HeartbeatResponse(seq)>>)]
    BY DEF OfGm, GmHandleHeartbeatMessage
  <2>2. QED
    BY <1>1, <1>3, <1>4, <2>1, ClientSame, ClientAnswer DEF IInv
<1>6. QED
  BY <1>1, <1>2, <1>3, <1>5, GmFrame, Compose

LEMMA GmTimeoutStep ==
    ASSUME IInv, OfGm(GmHandleTimeoutScan)
    PROVE  IInv'
<1>1. /\ Fault /\ UNCHANGED <<link, conn, toServer, toClient, session>>
      /\ UNCHANGED gameVars /\ UNCHANGED gateVars
  BY DEF OfGm, GmHandleTimeoutScan
<1>2. Grows /\ NodesOK'
  <2>1. PICK S \in SUBSET {n \in Nodes : gmSession[n] \in Live} :
           gmSession' = [n \in Nodes |-> IF n \in S THEN "TimedOut" ELSE gmSession[n]]
    BY DEF OfGm, GmHandleTimeoutScan
  <2>2. QED
    BY <1>1, <2>1, GmSessionStep DEF OfGm, GmHandleTimeoutScan, IInv, TypeOK, GmTypeOK
<1>3. ServerMail /\ ClientMail
  BY <1>1, <1>2, ServerSame, ClientSame DEF IInv
<1>4. session' \in [Links -> Sessions] /\ SessionsAreBacked'
  BY <1>1, <1>2, SessionSame DEF IInv
<1>5. LinkTypes'
  BY <1>1, <1>4, FaultCounted DEF IInv, TypeOK, NetTypeOK, LinkTypes
<1>6. QED
  BY <1>2, <1>3, <1>4, <1>5, Compose

\* A notification of some nodes, if its claim is true after the step.
LEMMA NotifySound ==
    ASSUME IInv, Grows, NEW N, NEW m, \A k \in Links : m \in SoundToClient(k)',
           toClient' = Notify(N, m)
    PROVE  ClientMail
<1>1. \A k \in Links : toClient'[k] = toClient[k] \/ toClient'[k] = toClient[k] \o <<m>>
  BY DEF Notify, SentOn
<1>2. toClient' = [k \in Links |-> toClient'[k]]
  BY DEF Notify
<1>3. \A k \in Links : <<m>> \in Seq(SoundToClient(k)')
  OBVIOUS
<1>4. QED
  BY <1>1, <1>2, <1>3, ClientSpread DEF IInv

LEMMA GmMeshReadyStep ==
    ASSUME IInv, NEW g \in Games, OfGm(GmHandleGameGateMeshReadyReport(g))
    PROVE  IInv'
<1> DEFINE l == <<g, Gm>>
<1>1. g \in Nodes /\ l \in Links /\ toServer[l] # <<>> /\ GmTakes(g, "MeshReadyReport")
  BY LinkFacts DEF OfGm, GmHandleGameGateMeshReadyReport, GmTakes, Accepts
<1>2. /\ UNCHANGED <<link, conn, session, gmSession, registeredNodes, allNodesOnline,
                     readyEpoch, gateOpen>>
      /\ UNCHANGED gameVars /\ UNCHANGED gateVars
  BY DEF OfGm, GmHandleGameGateMeshReadyReport
<1>3. meshCurrent[g]
  BY <1>1, HeadIsSound DEF IInv, SoundToServer, GmTakes, Accepts
<1>4. \/ UNCHANGED <<meshReady, allGamesMeshReady, owner, stubsReady, toClient, faults>>
      \/ /\ meshReady' = meshReady \cup {g}
         /\ UNCHANGED <<allGamesMeshReady, owner, stubsReady, toClient, faults>>
      \/ /\ meshReady' = meshReady \cup {g} /\ meshReady' = Games
         /\ ~allGamesMeshReady /\ allGamesMeshReady' = TRUE /\ OnAllGameReady
  BY DEF OfGm, GmHandleGameGateMeshReadyReport, LastGameReady, AreAllExpectedGamesMeshReady
<1>5. faults' = faults \/ Fault
  BY <1>4 DEF OnAllGameReady, EnsureServerStubAssignments, AssignStubsFails
<1>6. /\ meshReady \subseteq meshReady' /\ meshReady' \subseteq meshReady \cup {g}
      /\ allGamesMeshReady => allGamesMeshReady' /\ owner' = owner /\ stubsReady' = stubsReady
      /\ allGamesMeshReady' => allGamesMeshReady \/ meshReady' = Games
      /\ owner' \in [Stubs -> Games \cup {NoGame}] /\ allGamesMeshReady' \in BOOLEAN
      /\ ~allGamesMeshReady => stubsReady' = {}
      /\ ~allGamesMeshReady' => owner' = owner
  <2>1. CASE UNCHANGED <<allGamesMeshReady, owner, stubsReady>>
    BY <1>4, <2>1 DEF IInv, TypeOK, GmTypeOK, StubsArePlaced
  <2>2. CASE OnAllGameReady /\ ~allGamesMeshReady /\ allGamesMeshReady' = TRUE
    <3>1. owner' \in [Stubs -> Games \cup {NoGame}]
      BY <2>2 DEF IInv, TypeOK, GmTypeOK, OnAllGameReady, EnsureServerStubAssignments,
         AssignStubsFails
    <3>2. stubsReady' = {}
      BY <2>2 DEF IInv, StubsArePlaced, OnAllGameReady, EnsureServerStubAssignments,
         AssignStubsFails
    <3>3. meshReady' = meshReady \cup {g} /\ meshReady' = Games
      BY <1>4, <2>2
    <3>4. QED
      BY <2>2, <3>1, <3>2, <3>3
  <2>3. QED
    BY <1>4, <2>1, <2>2
<1>7. Grows
  BY <1>2, <1>6 DEF Grows, Known, gameVars, gateVars
<1>8. GmTypeOK' /\ GameTypeOK' /\ GateTypeOK'
  BY <1>2, <1>6 DEF IInv, TypeOK, GmTypeOK, GameTypeOK, GateTypeOK, gameVars, gateVars
<1>9. BarriersHold'
  <2>1. \A h \in Games, t \in Gates : Known(<<h, t>>)' <=> Known(<<h, t>>)
    BY <1>2, LinkFacts DEF Known, gateVars
  <2>2. \A h \in meshReady' : meshCurrent'[h]
    BY <1>2, <1>3, <1>6 DEF IInv, BarriersHold, gameVars
  <2>3. allGamesMeshReady' => meshReady' = Games
    BY <1>6 DEF IInv, TypeOK, GmTypeOK, BarriersHold
  <2>4. QED
    BY <1>2, <1>6, <2>1, <2>2, <2>3 DEF IInv, BarriersHold, gameVars, gateVars
<1>10. StubsArePlaced'
  <2>1. ~allGamesMeshReady => \A h \in Games : hosted[h] = {} /\ owned[h] = {}
    BY ClusterAssumption DEF IInv, TypeOK, GameTypeOK, StubsArePlaced, OwnedBy
  <2>2. CASE allGamesMeshReady
    BY <1>2, <1>6, <2>2 DEF IInv, StubsArePlaced, OwnedBy, gameVars
  <2>3. CASE ~allGamesMeshReady
    BY <1>2, <1>6, <2>1, <2>3 DEF IInv, StubsArePlaced, OwnedBy, gameVars
  <2>4. QED
    BY <2>2, <2>3
<1>11. ClientMail
  <2>1. CASE toClient' = toClient
    BY <1>7, <2>1, ClientSame DEF IInv
  <2>2. CASE allGamesMeshReady' = TRUE /\ EnsureServerStubAssignments
    <3>1. PICK f \in [Stubs -> Games] : owner' = f /\ toClient' = Notify(Games, OwnershipSync(f))
      BY <2>2 DEF EnsureServerStubAssignments
    <3>2. \A k \in Links : OwnershipSync(f) \in SoundToClient(k)'
      BY <2>2, <3>1 DEF SoundToClient, ToClientMessages, OwnershipSync
    <3>3. QED
      BY <1>7, <3>1, <3>2, NotifySound
  <2>3. QED
    BY <1>4, <2>1, <2>2 DEF OnAllGameReady, AssignStubsFails
<1>12. QED
  BY <1>1, <1>2, <1>5, <1>7, <1>8, <1>9, <1>10, <1>11, GmFrame, Compose DEF NodesOK

LEMMA GmStubsReadyStep ==
    ASSUME IInv, NEW g \in Games, OfGm(GmHandleGameStubsReadyReport(g))
    PROVE  IInv'
<1> DEFINE l == <<g, Gm>>
           m == Head(toServer[l])
           R == stubsReady \cup NewlyReady(g, m)
<1>1. g \in Nodes /\ l \in Links /\ toServer[l] # <<>> /\ GmTakes(g, "StubsReadyReport")
  BY LinkFacts DEF OfGm, GmHandleGameStubsReadyReport, GmTakes, Accepts
<1>2. /\ UNCHANGED <<link, conn, session, faults, gmSession, registeredNodes, allNodesOnline,
                     meshReady, allGamesMeshReady, owner>>
      /\ UNCHANGED gameVars /\ UNCHANGED gateVars
  BY DEF OfGm, GmHandleGameStubsReadyReport
<1>3. m.ready \subseteq hosted[g]
  BY <1>1, HeadIsSound DEF IInv, SoundToServer, GmTakes, Accepts
<1>4. \/ UNCHANGED <<stubsReady, gateOpen, readyEpoch, toClient>>
      \/ /\ allGamesMeshReady /\ stubsReady' = R
         /\ UNCHANGED <<gateOpen, readyEpoch, toClient>>
      \/ /\ allGamesMeshReady /\ stubsReady' = R
         /\ AreAllServerStubsReady(R) /\ OnAllStubReady
  BY DEF OfGm, GmHandleGameStubsReadyReport
<1>5. R \subseteq Stubs /\ stubsReady' \subseteq R /\ stubsReady \subseteq stubsReady'
  BY <1>4 DEF IInv, TypeOK, GmTypeOK, NewlyReady, OwnedBy
<1>6. /\ gateOpen' \in BOOLEAN /\ readyEpoch' \in Nat
      /\ gateOpen => gateOpen'
      /\ gateOpen' => gateOpen \/ (allGamesMeshReady /\ stubsReady' = Stubs)
  <2>1. CASE UNCHANGED <<gateOpen, readyEpoch>>
    BY <2>1 DEF IInv, TypeOK, GmTypeOK
  <2>2. CASE OnAllStubReady /\ AreAllServerStubsReady(R) /\ allGamesMeshReady /\ stubsReady' = R
    <3>1. stubsReady' = Stubs
      BY <1>5, <2>2 DEF AreAllServerStubsReady
    <3>2. gateOpen' = TRUE /\ readyEpoch' \in Nat
      BY <2>2 DEF OnAllStubReady, IInv, TypeOK, GmTypeOK
    <3>3. QED
      BY <2>2, <3>1, <3>2
  <2>3. QED
    BY <1>4, <2>1, <2>2
<1>7. Grows
  BY <1>2, <1>6 DEF Grows, Known, gameVars, gateVars
<1>8. GmTypeOK' /\ GameTypeOK' /\ GateTypeOK'
  BY <1>2, <1>5, <1>6 DEF IInv, TypeOK, GmTypeOK, GameTypeOK, GateTypeOK, gameVars, gateVars
<1>9. BarriersHold'
  <2>1. \A h \in Games, t \in Gates : Known(<<h, t>>)' <=> Known(<<h, t>>)
    BY <1>2, LinkFacts DEF Known, gateVars
  <2>2. gateOpen' => allGamesMeshReady' /\ stubsReady' = Stubs
    BY <1>2, <1>5, <1>6 DEF IInv, BarriersHold
  <2>3. QED
    BY <1>2, <1>6, <2>1, <2>2 DEF IInv, BarriersHold, gameVars, gateVars
<1>10. StubsArePlaced'
  <2>1. \A s \in stubsReady' : owner'[s] \in Games /\ s \in hosted'[owner'[s]]
    BY <1>2, <1>3, <1>5 DEF IInv, StubsArePlaced, NewlyReady, OwnedBy, gameVars
  <2>2. ~allGamesMeshReady' => stubsReady' = {}
    BY <1>2, <1>4 DEF IInv, StubsArePlaced
  <2>3. QED
    BY <1>2, <2>1, <2>2 DEF IInv, StubsArePlaced, OwnedBy, gameVars
<1>11. ClientMail
  <2>1. CASE toClient' = toClient
    BY <1>7, <2>1, ClientSame DEF IInv
  <2>2. CASE OnAllStubReady
    <3>1. \A k \in Links : ClusterReadyNotify(readyEpoch + 1) \in SoundToClient(k)'
      BY <2>2 DEF OnAllStubReady, SoundToClient, ToClientMessages, ClusterReadyNotify,
         IInv, TypeOK, GmTypeOK
    <3>2. QED
      BY <1>7, <2>2, <3>1, NotifySound DEF OnAllStubReady
  <2>3. QED
    BY <1>4, <2>1, <2>2
<1>12. QED
  BY <1>1, <1>2, <1>7, <1>8, <1>9, <1>10, <1>11, GmFrame, Compose DEF NodesOK

LEMMA GmStep ==
    ASSUME IInv, OfGm(GmNext)
    PROVE  IInv'
  BY GmRegisterStep, GmHeartbeatStep, GmTimeoutStep, GmMeshReadyStep, GmStubsReadyStep
     DEF OfGm, GmNext

-----------------------------------------------------------------------------
(* The Gates.                                                              *)

\* The responses of the GM, which Gates and Games treat alike as far as the
\* registered flag goes.
LEMMA GmResponses ==
    ASSUME IInv, NEW l \in Links, toClient[l] # <<>>, Consume(l),
           LET m == Head(toClient[l])
           IN \/ session' = session
              \/ /\ m.type = "RegisterResponse"
                 /\ session' = [session EXCEPT ![l] =
                        IF m.ok THEN [NoSession EXCEPT !.registered = TRUE]
                        ELSE [@ EXCEPT !.registered = FALSE, !.register_seq = SeqNone]]
              \/ session' = [session EXCEPT ![l].heartbeat_seq = SeqNone]
              \/ session' = [session EXCEPT ![l].heartbeat_seq = SeqNone,
                                            ![l].inner_network_ready = TRUE],
           UNCHANGED <<link, conn, toServer, faults>>,
           UNCHANGED gmVars, UNCHANGED gameVars, UNCHANGED gateVars
    PROVE  IInv'
<1> DEFINE m == Head(toClient[l])
           x == session[l]
<1>1. x \in Sessions /\ (x.registered => Known(l))
  BY DEF IInv, TypeOK, NetTypeOK, SessionsAreBacked
<1>2. SeqNone \in 0..MaxSeq
  BY NoSessionFields DEF SeqNone
<1>3. CASE session' = session
  BY <1>1, <1>3, ResponseStep
<1>4. CASE /\ m.type = "RegisterResponse"
           /\ session' = [session EXCEPT ![l] =
                  IF m.ok THEN [NoSession EXCEPT !.registered = TRUE]
                  ELSE [@ EXCEPT !.registered = FALSE, !.register_seq = SeqNone]]
  <2>1. m.ok => Known(l)
    BY <1>4, HeadIsSound DEF IInv, SoundToClient
  <2>2. CASE m.ok
    BY <1>4, <2>1, <2>2, NoSessionFields, ResponseStep
  <2>3. CASE ~m.ok
    <3>1. session' = [session EXCEPT ![l] =
             [x EXCEPT !.registered = FALSE, !.register_seq = SeqNone]]
      BY <1>4, <2>3
    <3>2. QED
      BY <1>1, <1>2, <3>1, SessionFields, ResponseStep
  <2>4. QED
    BY <2>2, <2>3
<1>5. CASE session' = [session EXCEPT ![l].heartbeat_seq = SeqNone]
  <2> DEFINE y == [x EXCEPT !.heartbeat_seq = SeqNone]
  <2>1. session' = [session EXCEPT ![l] = y]
    BY <1>5
  <2>2. y \in Sessions /\ y.registered = x.registered
    BY <1>1, <1>2, SessionFields
  <2>3. y.registered => Known(l)
    BY <1>1, <2>2
  <2> HIDE DEF y
  <2>4. QED
    BY <2>1, <2>2, <2>3, ResponseStep
<1>6. CASE session' = [session EXCEPT ![l].heartbeat_seq = SeqNone,
                                      ![l].inner_network_ready = TRUE]
  <2> DEFINE y == [x EXCEPT !.heartbeat_seq = SeqNone, !.inner_network_ready = TRUE]
  <2>1. session' = [session EXCEPT ![l] = y]
    BY <1>6 DEF IInv, TypeOK, NetTypeOK
  <2>2. y \in Sessions /\ y.registered = x.registered
    BY <1>1, <1>2, SessionFields
  <2>3. y.registered => Known(l)
    BY <1>1, <2>2
  <2> HIDE DEF y
  <2>4. QED
    BY <2>1, <2>2, <2>3, ResponseStep
<1>7. QED
  BY <1>3, <1>4, <1>5, <1>6

LEMMA GateClusterReadyStep ==
    ASSUME IInv, NEW t \in Gates, OfGate(GateHandleClusterReadyNotify(t))
    PROVE  IInv'
<1> DEFINE l == <<t, Gm>>
           m == Head(toClient[l])
<1>1. l \in Links /\ toClient[l] # <<>> /\ m.type = "ClusterReadyNotify" /\ Consume(l)
  BY LinkFacts DEF OfGate, GateHandleClusterReadyNotify, Receives
<1>2. /\ UNCHANGED <<link, conn, toServer, session, gameSession>>
      /\ UNCHANGED gmVars /\ UNCHANGED gameVars
  BY DEF OfGate, GateHandleClusterReadyNotify
<1>3. gateOpen /\ m.epoch \in Nat
  <2>1. m \in SoundToClient(l)
    BY <1>1, HeadIsSound DEF IInv
  <2>2. QED
    BY <1>1, <2>1 DEF SoundToClient, ToClientMessages
<1>4. /\ \/ UNCHANGED <<clusterReady, clusterReadyEpoch>>
         \/ /\ clusterReady' = [clusterReady EXCEPT ![t] = TRUE]
            /\ clusterReadyEpoch' = [clusterReadyEpoch EXCEPT ![t] = m.epoch]
      /\ faults' = faults \/ Fault
  BY DEF OfGate, GateHandleClusterReadyNotify, OpenClientAdmission
<1>5. Grows
  BY <1>2 DEF Grows, Known, gmVars, gameVars
<1>6. NodesOK'
  <2>1. GmTypeOK' /\ GameTypeOK'
    BY <1>2 DEF IInv, TypeOK, GmTypeOK, GameTypeOK, gmVars, gameVars
  <2>2. GateTypeOK'
    BY <1>2, <1>3, <1>4 DEF IInv, TypeOK, GateTypeOK
  <2>3. \A u \in Gates : clusterReady'[u] => gateOpen
    BY <1>3, <1>4 DEF IInv, BarriersHold, TypeOK, GateTypeOK
  <2>4. BarriersHold'
    BY <1>2, <2>3 DEF IInv, BarriersHold, Known, gmVars, gameVars
  <2>5. StubsArePlaced'
    BY <1>2 DEF IInv, StubsArePlaced, OwnedBy, gmVars, gameVars
  <2>6. QED
    BY <2>1, <2>2, <2>4, <2>5 DEF NodesOK
<1>7. ServerMail /\ ClientMail
  BY <1>1, <1>2, <1>5, ServerSame, ClientTake DEF IInv
<1>8. session' \in [Links -> Sessions] /\ SessionsAreBacked'
  BY <1>2, <1>5, SessionSame DEF IInv
<1>9. LinkTypes'
  BY <1>2, <1>4, <1>8, FaultCounted DEF IInv, TypeOK, NetTypeOK, LinkTypes
<1>10. QED
  BY <1>5, <1>6, <1>7, <1>8, <1>9, Compose

\* A Gate enters a Game, or notes a heartbeat of one it has entered.
LEMMA GateEntersStep ==
    ASSUME IInv, NEW t \in Gates, NEW g \in Games, NEW m, NEW x \in {"Registered", "Ready"},
           toServer[<<g, t>>] # <<>>,
           toServer' = [toServer EXCEPT ![<<g, t>>] = Tail(@)],
           gameSession' = [gameSession EXCEPT ![t][g] = x],
           toClient' = [toClient EXCEPT ![<<g, t>>] = SentOn(<<g, t>>, @, <<m>>)],
           m \in ToClientMessages, m.type \in {"RegisterResponse", "HeartbeatResponse"},
           UNCHANGED <<link, conn, session, faults, clusterReady, clusterReadyEpoch>>,
           UNCHANGED gmVars, UNCHANGED gameVars
    PROVE  IInv'
<1>1. <<g, t>> \in Links
  BY LinkFacts
<1>2. GateTypeOK'
  BY DEF IInv, TypeOK, GateTypeOK
<1>3. gameSession'[t][g] # "Configured"
  BY DEF IInv, TypeOK, GateTypeOK
<1>4. \A u \in Gates, h \in Games :
         gameSession[u][h] # "Configured" => gameSession'[u][h] # "Configured"
  BY DEF IInv, TypeOK, GateTypeOK
<1>5. \A k \in Links : Known(k) => Known(k)'
  BY <1>4, LinkFacts DEF Known, gmVars
<1>6. Grows
  BY <1>5 DEF Grows, gmVars, gameVars
<1>7. NodesOK'
  <2>1. GmTypeOK' /\ GameTypeOK'
    BY DEF IInv, TypeOK, GmTypeOK, GameTypeOK, gmVars, gameVars
  <2>2. BarriersHold'
    BY <1>5, LinkFacts DEF IInv, BarriersHold, gmVars, gameVars
  <2>3. StubsArePlaced'
    BY DEF IInv, StubsArePlaced, OwnedBy, gmVars, gameVars
  <2>4. QED
    BY <1>2, <2>1, <2>2, <2>3 DEF NodesOK
<1>8. Known(<<g, t>>)'
  BY <1>3, LinkFacts DEF Known
<1>9. m \in SoundToClient(<<g, t>>)'
  BY <1>8 DEF SoundToClient
<1>10. ServerMail /\ ClientMail
  BY <1>1, <1>6, <1>9, ServerTake, ClientAnswer DEF IInv
<1>11. session' \in [Links -> Sessions] /\ SessionsAreBacked'
  BY <1>6, SessionSame DEF IInv
<1>12. LinkTypes'
  BY <1>11 DEF IInv, TypeOK, NetTypeOK, LinkTypes
<1>13. QED
  BY <1>6, <1>7, <1>10, <1>11, <1>12, Compose

LEMMA GateRegisterStep ==
    ASSUME IInv, NEW t \in Gates, NEW g \in Games, OfGate(GateHandleGameRegisterMessage(g, t))
    PROVE  IInv'
<1> DEFINE l == <<g, t>>
           seq == Head(toServer[l]).seq
<1>1. l \in Links /\ toServer[l] # <<>> /\ Head(toServer[l]).type = "RegisterRequest"
  BY LinkFacts DEF OfGate, GateHandleGameRegisterMessage, GateTakes, Accepts
<1>2. Head(toServer[l]) \in ToServerMessages
  BY <1>1, HeadIsSound DEF IInv, SoundToServer
<1>3. RegisterResponse(seq, TRUE) \in ToClientMessages
  BY <1>1, <1>2 DEF ToServerMessages, ToClientMessages, RegisterResponse
<1>4. RegisterResponse(seq, TRUE).type = "RegisterResponse"
  BY DEF RegisterResponse
<1>5. QED
  BY <1>1, <1>3, <1>4, GateEntersStep DEF OfGate, GateHandleGameRegisterMessage, GateTakes

LEMMA GateHeartbeatStep ==
    ASSUME IInv, NEW t \in Gates, NEW g \in Games, OfGate(GateHandleGameHeartbeatMessage(g, t))
    PROVE  IInv'
<1> DEFINE l == <<g, t>>
           seq == Head(toServer[l]).seq
<1>1. l \in Links /\ toServer[l] # <<>> /\ Head(toServer[l]).type = "HeartbeatRequest"
  BY LinkFacts DEF OfGate, GateHandleGameHeartbeatMessage, GateTakes, Accepts
<1>2. /\ UNCHANGED <<link, conn, session, faults, clusterReady, clusterReadyEpoch>>
      /\ UNCHANGED gmVars /\ UNCHANGED gameVars
      /\ toServer' = [toServer EXCEPT ![l] = Tail(@)]
  BY DEF OfGate, GateHandleGameHeartbeatMessage, GateTakes
<1>3. CASE gameSession[t][g] # "Configured"
  <2>1. Head(toServer[l]) \in ToServerMessages
    BY <1>1, HeadIsSound DEF IInv, SoundToServer
  <2>2. HeartbeatResponse(seq) \in ToClientMessages
    BY <1>1, <2>1 DEF ToServerMessages, ToClientMessages, HeartbeatResponse
  <2>3. HeartbeatResponse(seq).type = "HeartbeatResponse"
    BY DEF HeartbeatResponse
  <2>4. /\ gameSession' = [gameSession EXCEPT ![t][g] = "Ready"]
        /\ toClient' = [toClient EXCEPT ![l] = SentOn(l, @, <<HeartbeatResponse(seq)>>)]
    BY <1>3 DEF OfGate, GateHandleGameHeartbeatMessage
  <2>5. QED
    BY <1>1, <1>2, <2>2, <2>3, <2>4, GateEntersStep
<1>4. CASE gameSession[t][g] = "Configured"
  <2>1. UNCHANGED <<gameSession, toClient>>
    BY <1>4 DEF OfGate, GateHandleGameHeartbeatMessage
  <2>2. Grows /\ NodesOK'
    BY <1>2, <2>1, NodesIdle DEF gateVars
  <2>3. ServerMail /\ ClientMail
    BY <1>1, <1>2, <2>1, <2>2, ServerTake, ClientSame DEF IInv
  <2>4. session' \in [Links -> Sessions] /\ SessionsAreBacked'
    BY <1>2, <2>2, SessionSame DEF IInv
  <2>5. LinkTypes'
    BY <1>2, <2>4 DEF IInv, TypeOK, NetTypeOK, LinkTypes
  <2>6. QED
    BY <2>2, <2>3, <2>4, <2>5, Compose
<1>5. QED
  BY <1>3, <1>4

LEMMA GateStep ==
    ASSUME IInv, OfGate(GateNext)
    PROVE  IInv'
<1>1. UNCHANGED gmVars /\ UNCHANGED gameVars
  BY DEF OfGate
<1>2. PICK t \in Gates :
         \/ GateGmConnected(t) \/ GateGmDisconnected(t)
         \/ GateHandleRegisterResponse(t) \/ GateHandleHeartbeatResponse(t)
         \/ GateSendHeartbeatRequest(t)
         \/ GateHandleClusterReadyNotify(t)
         \/ \E g \in Games : \/ GateHandleGameRegisterMessage(g, t)
                             \/ GateHandleGameHeartbeatMessage(g, t)
  BY DEF OfGate, GateNext
<1> DEFINE l == <<t, Gm>>
<1>3. l \in Links /\ l \notin MeshLinks
  BY LinkFacts
<1>4. CASE GateGmConnected(t)
  BY <1>1, <1>3, <1>4, ConnectedStep DEF GateGmConnected
<1>5. CASE GateGmDisconnected(t)
  BY <1>1, <1>3, <1>5, DisconnectedStep DEF GateGmDisconnected
<1>6. CASE GateHandleRegisterResponse(t)
  BY <1>1, <1>3, <1>6, GmResponses DEF GateHandleRegisterResponse, Receives
<1>7. CASE GateHandleHeartbeatResponse(t)
  BY <1>1, <1>3, <1>7, GmResponses DEF GateHandleHeartbeatResponse, Receives
<1>8. CASE GateSendHeartbeatRequest(t)
  BY <1>1, <1>3, <1>8, HeartbeatStep DEF GateSendHeartbeatRequest
<1>9. CASE GateHandleClusterReadyNotify(t)
  BY <1>1, <1>9, GateClusterReadyStep DEF OfGate
<1>10. CASE \E g \in Games : \/ GateHandleGameRegisterMessage(g, t)
                             \/ GateHandleGameHeartbeatMessage(g, t)
  BY <1>1, <1>10, GateRegisterStep, GateHeartbeatStep DEF OfGate
<1>11. QED
  BY <1>2, <1>4, <1>5, <1>6, <1>7, <1>8, <1>9, <1>10

=============================================================================
