# XServerByAI in TLA+

A verification development for the server cluster of this repository: TLA+
modules translated from the code under `src/`, TLC configurations that check
them on small instances, and theorems TLAPS proves for every instance.
Source paths are relative to the root of the repository.

## 1. The system

A cluster is one **GM** process, some **Gate** processes and some **Game**
processes, all the executable `xserver-node` in different roles. Every process
runs one single-threaded asio event loop: a handler is never interrupted by
another handler of its process.

| Part | Code | What it does |
|---|---|---|
| Inner network | `native/ipc/Zmq*.cpp`, `native/node/InnerNetwork.cpp` | ZeroMQ links: a DEALER dials, a ROUTER answers; polled every millisecond |
| Inner session table | `native/node/InnerNetworkSessionManager.cpp` | one entry per remote node, indexed by node id and by routing id |
| GM | `native/node/GmNode.cpp` | admits nodes, scans heartbeats, drives the startup, owns the stub assignment |
| Game | `native/node/GameNode.cpp` | registers, meshes with the Gates, hosts stubs and avatars in the managed runtime |
| Gate | `native/node/GateNode.cpp` | registers, accepts Games, opens the client side, routes between clients and Games |
| Client network | `native/node/ClientNetwork.cpp`, `ClientSession.cpp`, `native/net/KcpPeer.cpp` | KCP conversations and client session states |
| Managed runtime | `managed/Framework` | stubs, avatars, mailboxes, proxies, the online service |
| Core | `native/core` | timers, event loop, executor, configuration, logging |
| Codecs | `native/net/message`, `native/net/BinarySerialization.cpp` | packets and message bodies |
| HTTP services | `GmControlHttpService.cpp`, `GateAuthHttpService.cpp` | operation of the cluster, login |
| Client | `client/XServer.Client.Framework` | the client library |

The parts meet in two protocols. The first is the **startup**:

1. Every Gate and Game dials the GM, registers and beats.
2. When the GM has counted every configured node it tells the Games
   (`ClusterNodesOnlineNotify`).
3. Every Game dials every Gate, registers and beats there; when all its Gate
   sessions are registered and have answered a heartbeat, the Game tells the
   GM (`MeshReadyReport`).
4. When all Games have reported, the GM assigns every server stub to a Game and
   tells the Games (`OwnershipSync`).
5. A Game installs its stubs in the managed runtime; each becomes ready by a
   callback; when all are ready the Game tells the GM (`StubsReadyReport`).
6. When all stubs are ready the GM tells the Gates (`ClusterReadyNotify`), and
   they admit clients.

The second is **client routing**, on a cluster that is up:

1. A client logs in over HTTP; the Gate reserves a KCP conversation for its
   account and host, for 30 seconds.
2. The first datagram of the conversation opens a session and its record.
3. The client selects an avatar; the Gate asks some ready Game to create it.
4. The Game creates the avatar, or binds an existing one of the same account to
   this Gate, registers it with the `OnlineStub` (on its own Game or, through a
   Gate, on another) and reports.
5. The Gate confirms or rolls back. Calls of the client go to the avatar's
   Game, pushes of the avatar come back through the Gate it is bound to.

## 2. The modules

| Module | Models |
|---|---|
| `InnerNetwork` | links, the dialer's connection state and session, messages under way, sequence numbers |
| `GmNode` | `GmNode.cpp`: one action per handler |
| `GameNode` | the startup side of `GameNode.cpp`, and `ApplyOwnership` of the managed runtime |
| `GateNode` | the startup side of `GateNode.cpp` |
| `ClusterStartup` | the composition, its properties, fairness and the refinement mapping |
| `StartupBarrier` | the abstract specification: four barriers |
| `ClusterStartupInv` | the inductive invariant |
| `MCClusterStartup` | instances for TLC |
| `RelayMessages` | the messages between Gates and Games about clients |
| `ClientSessions` | the client side of `GateNode.cpp` and the sessions of `ClientNetwork.cpp` |
| `AvatarHosting` | the relay handlers of `GameNode.cpp`, avatars in `GameNodeRuntimeState.cs`, the `OnlineStub` |
| `ClientRouting` | the composition with the mesh links of `InnerNetwork`, its properties, fairness and the refinement mapping |
| `AvatarBinding` | the abstract specification of selecting an avatar |
| `MCClientRouting` | instances for TLC |
| `ClusterStartupSteps`, `ClusterStartupProofs`, `ClusterStartupRefinement` | the proofs |

Each variable is named after the field it stands for; the header of each module
says which. Each action is one handler as a whole, with the sends, checks and
follow-up calls it makes. Node ids, payloads, times and texts are abstracted:
a node is a model value, a message is a record of its type, its sequence number
and the fields the handlers look at.

**Links.** A link is `down`, `tcp` (connected, the ZMTP handshake unfinished: a
send fails) or `up`. What the dialer *believes* (`conn`) follows the monitor
events and lags behind. `EarlyConnected` says whether the event CONNECTED may be
handled before the handshake ends, as the connector allows. `Drop` loses a link
at any time: a prefix of the messages under way in each direction had already
reached the other process and is still read, the rest is lost. ZeroMQ keeps the
order on a link and does not duplicate; there is no order between links. The
three transport steps follow the vendored libzmq (`3rd/zeromq/src`): the pipe of
a DEALER with `ZMQ_IMMEDIATE` is made by `engine_ready`, at the end of the
handshake, and given up by `engine_error` and `reconnect`.

**Sequence numbers.** The code counts up and skips zero. A handler compares an
answer only with the number it waits for, so what matters is that a new number
differs from all numbers in use on the link; the model picks such a number
from `1..MaxSeq`.

**Faults.** A lost link, a timeout the GM diagnoses, a connector that cannot be
opened, an assignment, an activation or a start of the client side that fails:
each is a fault and counts against `MaxFaults`. Time is not modelled: a timeout
scan may find any session silent.

**Clients.** `ClientRouting` starts where the startup ends (`StartupDone`) and
leaves the GM links alone; mesh links are lost, dialled and registered again by
the same actions as in `ClusterStartup`. A client may do anything at any time,
so it has no state. `told` and `inbox` record what clients were sent, `served`
which accounts' calls an avatar executed; no handler reads them. The code never
closes a KCP session or clears a record (`ClearClientSessionRecord` is called
only for a new session id), so neither does the model; a session disappears only
when KCP refuses its first datagram. The sender of the broadcast to all online
avatars is outside the repository; it may come at any time.

A creation that fails by an exception is a fault, and changes nothing at the
Game; an exception in the middle of `TryCreateAvatarEntity`, after the
registration with the `OnlineStub`, is not modelled: what follows it there is
the activation of an `AvatarEntity`, which is sealed and has nothing to do.

**Session entries at the GM.** `TimedOut` entries stay in the table, as in
`HandleTimeoutScan`; nothing in the code removes an entry.

## 3. What is checked

| Run | Instance | Question |
|---|---|---|
| `two_games` | 2 Games, 1 Gate, 2 stubs, 1 fault, Gate heartbeats | the barriers, with several Games: `OnlineIsTrue`, `OneHostPerStub`, `ReadyIsHosted`, `AdmissionIsSafe`, `OwnerIsFinal`, the refinement `BarrierSpec`, and `IInv` |
| `two_gates` | 1 Game, 2 Gates, 1 stub, 1 fault, all timers | the mesh, with several Gates, stale answers and timeouts: `TypeOK`, `RegisteredHasEntry`, `MeshIsKnown`, `AdmissionIsSafe` |
| `startup_liveness` | 2 Games, 1 Gate, no fault | `StartupCompletes` |
| `client_calls` | 1 Gate, 2 Games, 2 accounts, 2 avatars, 2 ports, 2 conversations, 2 sessions | the wrap of the conversation counter, and whom a client talks to: `TypeOK`, `OneSessionPerConversation`, `IndexesAgree`, `ToldIsTrue`, `PushedToItsAccount`, `BindingIsStable` |
| `client_faults` | as above with 1 avatar and 1 port, 1 fault | lost links and failing creations, with calls sent before the answer: `IndexesAgree`, `OneOwnerPerAvatar`, `ServesItsAccount`, the refinement `BindingSpec` |
| `client_two_gates` | 2 Gates with a session each, 2 Games, 1 avatar, no fault | the same avatar from two Gates: `ToldIsTrue`, `PushedToItsAccount`, `OnlineExists`, `SelectIsAnswered` |

Bounds. Two Games, or two Gates, are what a barrier needs to be passed by one
and not by the other; two stubs make an assignment that splits. One fault can
hit every step of the protocol; combinations of several are left to the
proofs, which bound neither faults nor nodes. Three sequence numbers
suffice for a register request, a heartbeat and a stale answer on one link; two
where no link is lost.
Heartbeats to the GM have no part in the barriers, so only `two_gates`
lets those timers fire. The Games, and the stubs, are symmetric in `two_games`,
the Gates in `two_gates`.

`MeshIsKnown` speaks of a Game that *has concluded* that its mesh is complete.
The conclusion is never withdrawn (`mesh_conclusion`, section 4), so it does not
say that the links are up: it says that what a Game may rely on after a loss,
its entry at every Gate, is still there.

`CHECK_DEADLOCK` is off: once the cluster is up and the timers outside
`HeartbeatLinks` are silent nothing more need happen, and after some faults the
startup stops for good, which is what section 4 is about.

For clients, `MaxConv` stands for 2^32 - 1: with two conversations the counter
wraps and finds them reserved, open or free. Two accounts and two sessions are
what a mix-up needs.
`MaxQueue` bounds the client calls and broadcasts under way: a new one starts
only while the mesh links together hold fewer messages. Two, in `client_faults`,
let a call follow a selection on its link, or run while the answer is under way
or lost; three also let it meet a second selection or a broadcast. In
`client_faults` only the Game without the `OnlineStub` sends heartbeats, so the
other is not ready again after a lost link. Accounts are symmetric where only safety is checked. A login
is always possible, so these runs check for deadlock but cannot find one.

Fairness (`FairSpec`) is weak fairness of every step that is not a fault:
ZeroMQ keeps reconnecting, sockets are polled by a timer, messages are handled
in order, repeating timers fire. Nothing strong is assumed. `startup_liveness`
has no faults, since the code does not recover from them. For
`SelectIsAnswered` only the handling of messages on mesh links is fair; nothing
is asked of the clients. It has no faults either: the Gate has no timeout for a
selection, and one whose answer is lost stays pending.

## 4. Where the documents and the code differ

Each of these is a run that TLC must find violated.

| Run | The documents | The code |
|---|---|---|
| `early_connected` | `docs/STARTUP_FLOW.md:36`: a node registers once its link is established | a request sent on CONNECTED, before the handshake, fails and is not sent again |
| `mesh_conclusion` | `docs/STARTUP_FLOW.md:80`: the mesh conclusion is not used after a Gate is lost | it is |
| `gate_comes_back` | `docs/PROCESS_INNER.md:109`, `docs/STARTUP_FLOW.md:84`: a node recovers by registering again | the GM refuses the node id for ever |
| `heartbeats_go_on` | `docs/STARTUP_FLOW.md:38`: a registered Game beats periodically | one unanswered heartbeat is the last |
| `two_owners` | `docs/DISTRIBUTED_ENTITY.md:16`: an entity has one active owner | two Gates pick a Game each for the same avatar, which then lives on both (`docs/SESSION_ROUTING.md:72` limits the model to one Gate's directory) |
| `others_avatar` | `docs/SESSION_ROUTING.md:16`, `:48`: the Gate binds a session once the avatar exists, and calls follow the binding | record and index are filled when the creation is requested, and calls are forwarded from then on; with two Gates such a call is executed by the avatar of another account |

With one Gate a call that runs ahead of the answer does no harm: if the creation
fails it reaches a Game without the avatar, and as a link keeps its order it is
read before the creation for the next client, which is what `ServesItsAccount`
says and `client_faults` checks. The avatar index of a second Gate does not know
of the first, so with two Gates the same property fails, in `others_avatar`.

One more difference is known and has no run of its own.
`docs/PROCESS_INNER.md:130` says that all nodes are online when the GM announces
it; a node that has timed out counts too (`AreAllExpectedNodesOnline`).

## 5. What is proved

The theorems are in `ClusterStartupProofs` and `ClusterStartupRefinement`. They
hold for any sets of Games, Gates and stubs, any number of faults, with early
and late CONNECTED events, and any set of links that beat. The one assumption,
`ClusterAssumption`, is that the node ids are distinct, that `NoGame` is none of
them and that the bounds are numbers. TLC evaluates it in every run.

| Theorem | States |
|---|---|
| `Invariance` | `Spec => []IInv` |
| `TypeCorrect`, `OnlineIsTrueAlways`, `MeshIsKnownAlways`, `OneHostAlways`, `ReadyIsHostedAlways`, `AdmissionIsSafeAlways`, `RegisteredHasEntryAlways` | the invariants of section 3 |
| `StartupImplementsBarrier` | `Spec => BarrierSpec` |
| `OwnerIsFinalAlways` | `Spec => OwnerIsFinal` |

None of the properties is inductive: a node acts on what a message tells it, so
the reason a conclusion is right lies in a message that may still be under way.
`IInv` therefore says, besides the types,

- `MailIsSound`: whatever a message claims is true, and stays so until it is
  read (a mesh report is under way only from a Game with a complete mesh, an
  ownership message carries the owners the GM holds, ...);
- `SessionsAreBacked`: a dialer that is registered has an entry at its listener;
- `BarriersHold`: each barrier implies the one before it;
- `StubsArePlaced`: Games host what the GM assigned to them, and nothing is
  assigned before all meshes are reported.

Messages stay true because the facts they claim only grow (`Grows`,
`SoundGrows`): entries are not removed, owners do not change, hosted stubs are
not taken away. The proof has lemmas for the ways a step treats the queues (send,
take, answer, spread), a lemma per action, and combines them in `GmStep`,
`GameStep`, `GateStep`, `NetStep` and `NextIInv`. The refinement uses `IInv` to
show that each step of the detailed specification is a step of the barriers, or
none.

Only model-checked: `StartupCompletes`, the violations of section 4, and so
far everything about `ClientRouting`.
Liveness is not within the reach of the prover.

## 6. What is not modelled, and the plan

Not modelled at all: configuration and logging, the loading of the .NET
runtime, the parsing of HTTP requests. They are I/O and library calls without
protocol state.

In the order in which they are to be added:

1. Theorems on `ClientRouting`: `IndexesAgree` for any number of Gates,
   `OneOwnerPerAvatar` and `BindingSpec` for one; the state machine of
   `ClientSession.cpp` with the transitions no caller uses yet.
2. `TimerManager`, `EventLoop`: timers that cancel or reset themselves and
   others, the stop of a loop at any time.
3. `SessionTable`: the two indexes of the inner session table, as the abstract
   one-entry-per-node table that `GmNode` uses, shown by refinement.
4. `ClusterRestart`: `ClusterStartup` with restarts of processes.
5. `EntityRuntime`: the entity manager, the life cycle of entities and managed
   timers, with exceptions in the middle of a creation.
6. `NodeLifecycle`: initialisation, run and shutdown of a node.
7. The codecs, as operators checked against a reference over bounded inputs.
