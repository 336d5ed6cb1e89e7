------------------------------ MODULE GateNode ------------------------------
(***************************************************************************)
(* The startup side of the Gate nodes, src/native/node/GateNode.cpp.       *)
(*                                                                         *)
(* gameSession        the Gate's session entry for each configured Game:   *)
(*                    Configured (entered by OnInit, not registered),      *)
(*                    Registered, or Ready (inner_network_ready)           *)
(* clusterReady       cluster_ready_: client and auth networks are running *)
(* clusterReadyEpoch  cluster_ready_epoch_                                 *)
(***************************************************************************)
EXTENDS InnerNetwork

VARIABLES gameSession, clusterReady, clusterReadyEpoch

gateVars == <<gameSession, clusterReady, clusterReadyEpoch>>

GateTypeOK ==
    /\ gameSession \in [Gates -> [Games -> {"Configured", "Registered", "Ready"}]]
    /\ clusterReady \in [Gates -> BOOLEAN]
    /\ clusterReadyEpoch \in [Gates -> Nat]

GateInit ==
    /\ gameSession = [t \in Gates |-> [g \in Games |-> "Configured"]]
    /\ clusterReady = [t \in Gates |-> FALSE]
    /\ clusterReadyEpoch = [t \in Gates |-> 0]

-----------------------------------------------------------------------------
(* The link to the GM.                                                     *)

GateGmConnected(t) ==
    LET l == <<t, Gm>>
    IN /\ SeesConnected(l)
       /\ IF ~session[l].registered /\ session[l].register_seq = SeqNone
            THEN SendRegister(l)
            ELSE UNCHANGED <<toServer, session>>
       /\ UNCHANGED <<link, toClient, faults>> /\ UNCHANGED gateVars

\* ResetGmSessionState; unlike a Game, a Gate will register again.
GateGmDisconnected(t) ==
    /\ SeesDisconnected(<<t, Gm>>)
    /\ session' = [session EXCEPT ![<<t, Gm>>] = NoSession]
    /\ UNCHANGED <<link, toServer, toClient, faults>> /\ UNCHANGED gateVars

GateHandleRegisterResponse(t) ==
    LET l == <<t, Gm>>
        m == Head(toClient[l])
    IN /\ Receives(l, "RegisterResponse")
       /\ Consume(l)
       /\ session' = IF m.seq # session[l].register_seq THEN session
                     ELSE [session EXCEPT ![l] =
                             IF m.ok THEN [NoSession EXCEPT !.registered = TRUE]
                             ELSE [@ EXCEPT !.registered = FALSE, !.register_seq = SeqNone]]
       /\ UNCHANGED <<link, conn, toServer, faults>> /\ UNCHANGED gateVars

\* The Gate keeps no inner_network_ready for the GM.
GateHandleHeartbeatResponse(t) ==
    LET l == <<t, Gm>>
        m == Head(toClient[l])
    IN /\ Receives(l, "HeartbeatResponse")
       /\ Consume(l)
       /\ session' = IF m.seq # session[l].heartbeat_seq THEN session
                     ELSE [session EXCEPT ![l].heartbeat_seq = SeqNone]
       /\ UNCHANGED <<link, conn, toServer, faults>> /\ UNCHANGED gateVars

GateSendHeartbeatRequest(t) == SendHeartbeat(<<t, Gm>>) /\ UNCHANGED gateVars

\* The client network and the auth service are started.  When either fails to
\* start the Gate is as before (the client network is stopped again).
OpenClientAdmission(t, e) ==
    \/ /\ clusterReady' = [clusterReady EXCEPT ![t] = TRUE]
       /\ clusterReadyEpoch' = [clusterReadyEpoch EXCEPT ![t] = e]
       /\ UNCHANGED faults
    \/ /\ Fault
       /\ UNCHANGED <<clusterReady, clusterReadyEpoch>>

GateHandleClusterReadyNotify(t) ==
    LET l == <<t, Gm>>
        m == Head(toClient[l])
    IN /\ Receives(l, "ClusterReadyNotify")
       /\ Consume(l)
       /\ IF session[l].registered /\ m.epoch >= clusterReadyEpoch[t]
            THEN OpenClientAdmission(t, m.epoch)
            ELSE UNCHANGED <<clusterReady, clusterReadyEpoch, faults>>
       /\ UNCHANGED <<link, conn, toServer, session, gameSession>>

-----------------------------------------------------------------------------
(* The Games that dial this Gate.  Every registration of a configured Game *)
(* is accepted, a repeated one too.                                        *)

GateTakes(g, t, type) ==
    /\ Accepts(<<g, t>>, type)
    /\ toServer' = [toServer EXCEPT ![<<g, t>>] = Tail(@)]

GateHandleGameRegisterMessage(g, t) ==
    /\ GateTakes(g, t, "RegisterRequest")
    /\ gameSession' = [gameSession EXCEPT ![t][g] = "Registered"]
    /\ toClient' = [toClient EXCEPT ![<<g, t>>] =
           SentOn(<<g, t>>, @, <<RegisterResponse(Head(toServer[<<g, t>>]).seq, TRUE)>>)]
    /\ UNCHANGED <<link, conn, session, faults, clusterReady, clusterReadyEpoch>>

GateHandleGameHeartbeatMessage(g, t) ==
    /\ GateTakes(g, t, "HeartbeatRequest")
    /\ IF gameSession[t][g] # "Configured"
         THEN /\ gameSession' = [gameSession EXCEPT ![t][g] = "Ready"]
              /\ toClient' = [toClient EXCEPT ![<<g, t>>] =
                     SentOn(<<g, t>>, @, <<HeartbeatResponse(Head(toServer[<<g, t>>]).seq)>>)]
         ELSE UNCHANGED <<gameSession, toClient>>
    /\ UNCHANGED <<link, conn, session, faults, clusterReady, clusterReadyEpoch>>

GateNext ==
    \E t \in Gates :
       \/ GateGmConnected(t) \/ GateGmDisconnected(t)
       \/ GateHandleRegisterResponse(t) \/ GateHandleHeartbeatResponse(t)
       \/ GateSendHeartbeatRequest(t)
       \/ GateHandleClusterReadyNotify(t)
       \/ \E g \in Games : \/ GateHandleGameRegisterMessage(g, t)
                           \/ GateHandleGameHeartbeatMessage(g, t)

=============================================================================
