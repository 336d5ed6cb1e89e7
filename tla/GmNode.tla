------------------------------- MODULE GmNode -------------------------------
(***************************************************************************)
(* The GM node: it admits Gates and Games, watches their heartbeats and    *)
(* drives the startup of the cluster.  One action per handler of           *)
(* src/native/node/GmNode.cpp.                                             *)
(*                                                                         *)
(* gmSession          the entry of the inner session table for each node:  *)
(*                    None (no entry), Registered, Ready (registered and   *)
(*                    inner_network_ready) or TimedOut (heartbeat_timed_out*)
(*                    and no longer registered; the entry stays)           *)
(* registeredNodes    registered_gate_node_ids and registered_game_node_ids*)
(* allNodesOnline     all_nodes_online                                     *)
(* meshReady          the Games whose mesh_ready entry is set              *)
(* allGamesMeshReady  all_expected_games_mesh_ready                        *)
(* owner              owner_game_node_id of each stub entry, NoGame before *)
(*                    the reflection is loaded and assigned                *)
(* stubsReady         the stub entries in state Ready.  entity_id leaves   *)
(*                    "unknown" together with the state and is not kept.   *)
(* readyEpoch, gateOpen   ready_epoch, gate_open                           *)
(***************************************************************************)
EXTENDS InnerNetwork

VARIABLES gmSession, registeredNodes, allNodesOnline, meshReady,
          allGamesMeshReady, owner, stubsReady, readyEpoch, gateOpen

gmVars == <<gmSession, registeredNodes, allNodesOnline, meshReady,
            allGamesMeshReady, owner, stubsReady, readyEpoch, gateOpen>>

GmTypeOK ==
    /\ gmSession \in [Nodes -> {"None", "Registered", "Ready", "TimedOut"}]
    /\ registeredNodes \subseteq Nodes
    /\ allNodesOnline \in BOOLEAN
    /\ meshReady \subseteq Games
    /\ allGamesMeshReady \in BOOLEAN
    /\ owner \in [Stubs -> Games \cup {NoGame}]
    /\ stubsReady \subseteq Stubs
    /\ readyEpoch \in Nat
    /\ gateOpen \in BOOLEAN

GmInit ==
    /\ gmSession = [n \in Nodes |-> "None"]
    /\ registeredNodes = {}
    /\ allNodesOnline = FALSE
    /\ meshReady = {}
    /\ allGamesMeshReady = FALSE
    /\ owner = [s \in Stubs |-> NoGame]
    /\ stubsReady = {}
    /\ readyEpoch = 0
    /\ gateOpen = FALSE

-----------------------------------------------------------------------------
(* Startup predicates.                                                     *)

\* registered and not timed out: the sessions the GM notifies and listens to.
Live == {"Registered", "Ready"}

\* Mutant: the Gates are forgotten.
OnlyGamesOnline(R) == Games # {} /\ Games \subseteq R

AreAllExpectedNodesOnline(R) == Nodes # {} /\ R = Nodes

\* Mutant: one Game is enough.
AnyGameMeshReady(M) == M # {}

AreAllExpectedGamesMeshReady(M) == Games # {} /\ M = Games

\* Mutant: one stub is enough.
AnyServerStubReady(R) == \E s \in Stubs : owner[s] # NoGame /\ s \in R

AreAllServerStubsReady(R) ==
    Stubs # {} /\ \A s \in Stubs : owner[s] # NoGame /\ s \in R

OwnershipActive == Stubs # {} /\ \A s \in Stubs : owner[s] # NoGame

\* toClient with m sent to every live session among the nodes N.  A send the
\* ROUTER refuses is logged and skipped.
Notify(N, m) ==
    [k \in Links |-> IF k[2] = Gm /\ k[1] \in N /\ gmSession[k[1]] \in Live
                       THEN SentOn(k, toClient[k], <<m>>)
                       ELSE toClient[k]]

GmTakes(n, type) ==
    /\ Accepts(<<n, Gm>>, type)
    /\ toServer' = [toServer EXCEPT ![<<n, Gm>>] = Tail(@)]

-----------------------------------------------------------------------------
(* Registration.                                                           *)

\* What a successful registration of n puts on link k: the response, and
\* when it completes the expected set, OnAllNodeOnline's notification.
RegistrationMail(n, seq, online, k) ==
    (IF k = <<n, Gm>> THEN <<RegisterResponse(seq, TRUE)>> ELSE <<>>)
      \o (IF online /\ k[1] \in Games /\ k[2] = Gm
               /\ (gmSession[k[1]] \in Live \/ k[1] = n)
            THEN <<ClusterNodesOnlineNotify>> ELSE <<>>)

\* The node id has an entry, timed out or not: kInnerNodeIdConflict.
RejectRegister(n, seq) ==
    /\ gmSession[n] # "None"
    /\ toClient' = [toClient EXCEPT ![<<n, Gm>>] =
           SentOn(<<n, Gm>>, @, <<RegisterResponse(seq, FALSE)>>)]
    /\ UNCHANGED gmVars

\* The entry is made, but the response cannot be sent: nothing is recorded.
RegisterUnanswered(n) ==
    /\ gmSession[n] = "None"
    /\ ~CanSend(<<n, Gm>>)
    /\ gmSession' = [gmSession EXCEPT ![n] = "Registered"]
    /\ UNCHANGED <<toClient, registeredNodes, allNodesOnline, meshReady,
                   allGamesMeshReady, owner, stubsReady, readyEpoch, gateOpen>>

\* The response is handed to the socket (on a dying link it is then lost);
\* RecordStartupRegistration and, on the last node, OnAllNodeOnline.
AcceptRegister(n, seq) ==
    LET R == registeredNodes \cup {n}
        online == ~allNodesOnline /\ AreAllExpectedNodesOnline(R)
    IN /\ gmSession[n] = "None"
       /\ gmSession' = [gmSession EXCEPT ![n] = "Registered"]
       /\ registeredNodes' = R
       /\ allNodesOnline' = (allNodesOnline \/ online)
       /\ toClient' = [k \in Links |->
              SentOn(k, toClient[k], RegistrationMail(n, seq, online, k))]
       /\ UNCHANGED <<meshReady, allGamesMeshReady, owner, stubsReady,
                      readyEpoch, gateOpen>>

GmHandleRegisterMessage(n) ==
    /\ GmTakes(n, "RegisterRequest")
    /\ LET seq == Head(toServer[<<n, Gm>>]).seq
       IN RejectRegister(n, seq) \/ RegisterUnanswered(n) \/ AcceptRegister(n, seq)
    /\ UNCHANGED <<link, conn, session, faults>>

-----------------------------------------------------------------------------
(* Heartbeats.                                                             *)

GmHandleHeartbeatMessage(n) ==
    /\ GmTakes(n, "HeartbeatRequest")
    /\ IF gmSession[n] \in Live
         THEN /\ gmSession' = [gmSession EXCEPT ![n] = "Ready"]
              /\ toClient' = [toClient EXCEPT ![<<n, Gm>>] =
                     SentOn(<<n, Gm>>, @,
                            <<HeartbeatResponse(Head(toServer[<<n, Gm>>]).seq)>>)]
         ELSE UNCHANGED <<gmSession, toClient>>
    /\ UNCHANGED <<link, conn, session, faults, registeredNodes, allNodesOnline,
                   meshReady, allGamesMeshReady, owner, stubsReady, readyEpoch,
                   gateOpen>>

\* Mutant: a silent node's entry is erased.
TimeoutScanErases ==
    /\ Fault
    /\ \E n \in Nodes : gmSession[n] \in Live /\ gmSession' = [gmSession EXCEPT ![n] = "None"]
    /\ UNCHANGED <<link, conn, toServer, toClient, session, registeredNodes,
                   allNodesOnline, meshReady, allGamesMeshReady, owner,
                   stubsReady, readyEpoch, gateOpen>>

\* One scan finds that the nodes S have been silent for 15 s.  Delays are not
\* bounded, so any live session may be among them.
GmHandleTimeoutScan ==
    /\ Fault
    /\ \E S \in SUBSET {n \in Nodes : gmSession[n] \in Live} :
          /\ S # {}
          /\ gmSession' = [n \in Nodes |-> IF n \in S THEN "TimedOut" ELSE gmSession[n]]
    /\ UNCHANGED <<link, conn, toServer, toClient, session, registeredNodes,
                   allNodesOnline, meshReady, allGamesMeshReady, owner,
                   stubsReady, readyEpoch, gateOpen>>

-----------------------------------------------------------------------------
(* Mesh-ready aggregation and stub ownership.                              *)

\* EnsureServerStubAssignments succeeds: every entry gets some expected Game.
EnsureServerStubAssignments ==
    /\ Stubs # {}
    /\ \E f \in [Stubs -> Games] :
          /\ owner' = f
          /\ toClient' = Notify(Games, OwnershipSync(f))
    /\ stubsReady' = {}
    /\ UNCHANGED faults

\* It fails: no reflected stub, or the reflection cannot be loaded.  The
\* flag stays set, so it is never tried again.
AssignStubsFails ==
    /\ (Stubs = {} /\ UNCHANGED faults) \/ Fault
    /\ UNCHANGED <<owner, stubsReady, toClient>>

OnAllGameReady == EnsureServerStubAssignments \/ AssignStubsFails

\* Mutant: every report assigns the stubs anew.
EveryGameReady(g) == meshReady \cup {g} # {}

\* The report of g is the one that completes the set, for the first time.
LastGameReady(g) == ~allGamesMeshReady /\ AreAllExpectedGamesMeshReady(meshReady \cup {g})

GmHandleGameGateMeshReadyReport(g) ==
    /\ GmTakes(g, "MeshReadyReport")
    /\ IF gmSession[g] \in Live /\ allNodesOnline
         THEN /\ meshReady' = meshReady \cup {g}
              /\ IF LastGameReady(g)
                   THEN /\ allGamesMeshReady' = TRUE
                        /\ OnAllGameReady
                   ELSE UNCHANGED <<allGamesMeshReady, owner, stubsReady, toClient, faults>>
         ELSE UNCHANGED <<meshReady, allGamesMeshReady, owner, stubsReady, toClient, faults>>
    /\ UNCHANGED <<link, conn, session, gmSession, registeredNodes,
                   allNodesOnline, readyEpoch, gateOpen>>

\* gate_open, the next ready_epoch, and the notification of the live Gates.
OnAllStubReady ==
    /\ gateOpen' = TRUE
    /\ readyEpoch' = readyEpoch + 1
    /\ toClient' = Notify(Gates, ClusterReadyNotify(readyEpoch + 1))

\* HasServerStubOwnershipForGame and the entries it is about.
OwnedBy(g) == {s \in Stubs : owner[s] = g}

\* Mutant: the report of one Game stands for all.
AllNewlyReady(g, m) == Stubs

\* The entries of a report that count: the sender owns them.
NewlyReady(g, m) == m.ready \cap OwnedBy(g)

GmHandleGameStubsReadyReport(g) ==
    LET m == Head(toServer[<<g, Gm>>])
        R == stubsReady \cup NewlyReady(g, m)
    IN /\ GmTakes(g, "StubsReadyReport")
       /\ IF /\ gmSession[g] \in Live
             /\ allGamesMeshReady
             /\ OwnershipActive
             /\ m.epoch = AssignmentEpoch
             /\ OwnedBy(g) # {}
            THEN /\ stubsReady' = R
                 /\ IF ~gateOpen /\ AreAllServerStubsReady(R)
                      THEN OnAllStubReady
                      ELSE UNCHANGED <<gateOpen, readyEpoch, toClient>>
            ELSE UNCHANGED <<stubsReady, gateOpen, readyEpoch, toClient>>
       /\ UNCHANGED <<link, conn, session, faults, gmSession, registeredNodes,
                      allNodesOnline, meshReady, allGamesMeshReady, owner>>

GmNext ==
    \/ \E n \in Nodes : GmHandleRegisterMessage(n) \/ GmHandleHeartbeatMessage(n)
    \/ \E g \in Games : GmHandleGameGateMeshReadyReport(g) \/ GmHandleGameStubsReadyReport(g)
    \/ GmHandleTimeoutScan

=============================================================================
