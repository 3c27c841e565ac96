# Verification of sockets-cpp

TLA+ models of the header-only socket library in `src/include/sockets-cpp` and of
the server and client programs in `src/examples`, the TLC runs that check them on
small instances, and theorems that TLAPS proves for every instance: each safety
property the passing runs check is also a theorem.

## The system and its parts

| part | state it keeps | operations | modelled in |
|---|---|---|---|
| `TcpServer` (TcpServer.h) | accept socket `m_sockfd`, watch set `m_fds`, register `m_clients` (handle = descriptor number), `m_mutex`, `m_stop`, `m_thread` | `start`, `deleteClient`, `sendBcast`, `sendClientMessage`, `finish`, `getClientInfo`; its thread `serverTask` | `TcpServer` |
| `TcpClient` (TcpClient.h) | `m_sockfd`, `m_stop`, `m_thread` | `connectTo`, `sendMsg`, `finish`; its thread `ReceiveTask` | `TcpClient` |
| `SocketCore` (SocketCore.h) | none; every method is one system call | socket, bind, listen, accept, connect, select, send, recv, close | `SocketCore` (the kernel behind it) |
| `UdpSocket` (UdpSocket.h) | `m_fd`, `m_sockaddr`, `m_stop`, `m_thread` | `startMcast`, `startUnicast` (server-only, or with a remote host), `sendMsg`, `finish`; `ReceiveTask` | `UdpSocket` |
| `AddrLookup` (AddrLookup.h) | none | `lookupHost` | success or failure, as steps of `UdpSocket` and `TcpClient` |
| `SocketCommon` | option and result records | none | result = success or failure of a step |
| `serverApp.cpp` | a set of client handles under a mutex of its own, a `TcpServer` | constructor, command loop, `sendMsg`, three callbacks, destructor | `ServerApp`, `ClientServer` |
| `clientApp.cpp` | a `TcpClient` | constructor, command loop, `sendMsg`, two callbacks | `ClientApp`, `ClientServer` |
| `mcastApp.cpp`, `unicastApp.cpp` | a `UdpSocket` | one start, `sendMsg`, a callback that prints | their calls are among those of the `UdpSocket` run |

How they interact: the application owns a server or client object and calls its
operations from any of its threads. Each object runs one thread, which waits in
`select()` for at most half a second, reads, and calls back into the application
on that thread. Callbacks may call the public operations again. All objects of
the process share one descriptor table, whose numbers the kernel reuses lowest
first. Server handles *are* descriptor numbers, so a handle can come to mean
another connection.

What is hard here: `m_clients` is under `m_mutex`, while `m_fds` and `m_sockfd`
are not; pointers and descriptor numbers are used after the lock is released or
after a snapshot was taken; sockets are blocking; `finish()` joins a thread that
may be waiting for what its caller, or another thread, holds; peers come, go,
reset and stop reading at any time; operations fail half way. `PROJECT.json`
lists these hazards at their lines.

What makes each part correct: the server's register, the kernel's table and what
the application has been told agree; a message or a close reaches only the
connection it is meant for; every connected client stays watched and is served;
a lost peer is reported; `finish()` returns and releases everything. The client:
the same for its single socket. The datagram socket: in addition, messages go to
the destination of the start that succeeded. The programs: the list a user sends
from follows the server's register, the two mutexes never deadlock, quitting ends
the program, and neither side of a connection waits for ever for the other.

## Modules

* **`SocketCore`**: the kernel as the library meets it. `fdt` maps descriptors to
  what they refer to, a connection has a `stage` on this side (`new`, then `queued` at a
  server or `syn` at a client, `open`, `closed`), a `peer` state and two buffers that
  count chunks. `Connect` begins a connection, `Establish` or `Refuse` ends the wait for
  it. `RecvErr` reports a reset once, after which the stream is at its end; `Send` blocks
  on a full buffer or a connection being made, and may fail after a part was taken. `Foreign*` are files that other
  code of the process opens and closes. Payload bytes are abstracted away.
* **`TcpServer`** (extends `SocketCore`): every operation and every step of
  `serverTask`. `pc` holds each thread's position, `hnd`, `ptr` and `word` its local
  handle, `Client` pointer and copy of `m_fds`. A section under `m_mutex` is one step
  when nobody reads its intermediate states; `deleteClient()` is split (close, read
  and write of `m_fds`, erase) because `serverTask` accepts and changes `m_fds`
  without the lock, and `sendBcast()` because `send()` may block inside it.
  `FD_SET`/`FD_CLR` are a read and a write. A `Client` is named by its connection,
  so a dangling pointer is one no handle maps to; sending through it may use any
  descriptor (`Sockfd`). Unlocked reads of `m_clients` during an erase return
  anything (`TableRace`). What `recv()` returned is told to the application in a step of
  its own (`publishClientMsg`, `publishDisconnected`), since other threads may delete the
  client in between. `recv()` waits when there is nothing to read, and may wait on a
  file of other code that has taken the number.
* **`TcpClient`** (extends `SocketCore`). Nothing is locked, so every access of `m_sockfd`
  that another thread can overtake is a step. `connectTo()`: reset of `m_sockfd`,
  `socket()` and its store, the read for `connect()` (`ConnectRead`), the blocking call from
  `ConnectStarts` to `ConnectEstablished` or `ConnectRefused`, the start of the thread
  (`ConnectThread`); `dial` is the connection being made. `sendMsg()`: the read, `send()`.
  `finish()`: the join, the test and read of `m_sockfd` (`FinishTest`), `Close()`
  (`FinishClose`), the reset (`FinishReset`); between the last two `m_sockfd` names a
  closed socket or whatever has its number by then. `ReceiveTask` reads `m_sockfd` four
  times a round: for `FD_SET`, for the bound of `select()` (`SelectArgs`), for `FD_ISSET`
  and for `recv()`, which waits on a socket that is being connected (`RecvBlocks`).
  `FD_SET` or `FD_ISSET` with `INVALID_SOCKET` finds nothing, or aborts a fortified build
  (`FdMacroAborts`). `session` is the connection the application believes it has.
* **`UdpSocket`** (extends `SocketCore` for the descriptor table): the three starts in
  the order in which they write `m_sockaddr`, `m_fd` and the thread, so that a failure
  leaves exactly what the code leaves; `finish()` in the steps of the client's, with the
  same window between `Close()` and the reset; `ReceiveTask`, which reads `m_fd` anew at
  each of its five uses and goes on after a failed `recv()`; `inbox` counts waiting
  datagrams, empty ones included. `session` is the destination asked for by the start that
  succeeded. `recv()` on a socket that was replaced under the thread blocks.
* **`Session`**: what a connection-oriented server promises, without threads, locks,
  descriptors or buffers. A connection is announced at most once and under a free
  handle. The server looks at one connection at a time, one the application has
  (`Attend`); what it finds there, data or an end, the application hears of in a later
  step of its own (`Hear`, `HearEnd`). If the application drops the connection in
  between it hears of it once more, by a handle that means no other connection, and
  never again; after a shutdown it hears nothing. `TcpServer` implements it
  (`ImplementsSession`): the register is what the application has been told (`view`),
  the phase of a connection follows from `stage` and `view`, inbound data are what
  `recv()` has not taken yet, and the event is what `serverTask` holds from the lookup of
  the client to its callback. The callback is the delivery, so the one that comes after
  another thread's `deleteClient()` is a step of `Session` and not a hidden one.
* **`ServerApp`** (extends `TcpServer`): `serverApp.cpp`. Each of its steps is a step of
  the server with what the application does at that point added. `app_mutex` and
  `app_clients` are ServerApp's `m_mutex` and `m_clients`; `upcall` is what the callback
  under way has to do to the set. `DestroyMembers` comes before `DestroyServer`, as the
  members are declared; a callback that uses them after that either goes on or ends
  the program (`UseDestroyed`). `ShortCommand` (a command of one character) and
  `BrokenPipe` (`SIGPIPE`) end the program.
* **`ClientApp`** (extends `TcpClient`): `clientApp.cpp`. `onDisconnect()` and a failed
  `connectTo()` call `exit()`, "quit" destroys the client and returns from `main`;
  `Exit` lets the kernel close what is open.
* **`ClientServer`** (extends `ServerApp`, instantiates `ClientApp` with variables `c_...`):
  both programs, each with its own kernel. A successful `connect()` queues the
  connection at the server; `Up` and `Down` move a chunk from one end's send buffer to
  the other's receive buffer, and report the end of a closed side, in order or by a
  reset that overtakes data.
* **`MCTcpServer`**, **`MCTcpClient`**, **`MCUdpSocket`**, **`MCServerApp`**, **`MCClientServer`**:
  the model values, and the symmetry set where one is used, for TLC.
* **`TcpServerProofs`**, **`SessionProofs`**, **`TcpServerUseProofs`**, **`TcpClientProofs`**,
  **`UdpSocketProofs`**, **`ServerAppProofs`**, **`ClientServerProofs`**: the theorems, each in
  a module that extends the one it is about.

Assigning to a joinable `std::thread` clears `alive`, after which nothing happens.
Definitions named "Mutant of ..." in comments are faulty variants used to confirm
that each property can fail; no specification uses them.

## Runs

Passing:

| run | setting | what it shows |
|---|---|---|
| `TcpServer_callbacks` | 3 descriptors, 3 connections, one application thread, callbacks delete, send and broadcast | `WatchSetExact`, `RecvNeverBlocks`, `SendReachesItsClient`, `FinishReleasesAll` and the types hold for the use the examples make of the class |
| `TcpServer_threads` | 3 descriptors, 2 connections, 2 threads that delete, `finish()` also from callbacks, one foreign file | register, descriptor table and application's view agree (`HandleOwnsSocket`, `Ownership`, `NewClientRegistered`, `RegisterInStep`); nothing foreign is closed; data are delivered under the right handle; the server implements `Session` |
| `TcpServer_liveness` | 2 descriptors, 3 connections, callbacks delete | `FinishReturns`; `DisconnectNoticed`; `ServesUntilStop`: an `accept()` that fails for lack of a descriptor is tried again, and the connection is announced unless the client that has the last descriptor stays for ever |
| `TcpClient_lifecycle` | 2 descriptors, 2 connections, one thread and callbacks, two calls of `connectTo()` in any order with the rest, one foreign file | `m_sockfd` is the client's own socket except between `Close()` and its reset (`SockfdOwned`), nothing of other code is closed, `recv()` waits only for a `connect()` under way (`RecvWaitsForConnect`), a session has its socket and thread (`SessionHeld`), a disconnect is reported only when there is one, `finish()` releases the socket; and `FinishReturns`, `DeliveredUntilStop`, `DisconnectTold` |
| `UdpSocket_lifecycle` | 3 descriptors, 2 destinations, 2 threads and callbacks, two starts of any kind in any order with the rest, one foreign file | `FdOwned`, `ClosesOnlyItsOwn`, `DestinationKept`, `DeliveredUntilStop`, `FinishReturns` (unless another start has put a new socket under the thread) |
| `ServerApp_commands` | 3 descriptors, 2 clients, the main thread and `serverTask` | the list of clients follows the server's (`ListsItsClients`), no deadlock of the two mutexes (`NoLockCycle`), a number is not reused under a send (`SendKeepsItsNumber`), `QuitEnds`, `ClientListed` |
| `ClientServer_programs` | both programs, one connection, buffers of one chunk, one foreign file beside the client | `SendersNeverStall`, `SendReachesServer`, `ClientEndSeen`, `ClientEnds` |

`SendKeepsItsNumber` deserves a word: on its own `sendClientMessage()` may send to
another client's connection (`TcpServer_stale_client`). In the server program the
mutex that `sendMsg()` holds stops the callbacks, hence `accept()`, until `send()` has
returned, so the number is not reused; what is left of the race is a read of a freed
`Client`. `SendersNeverStall` holds because the client's receive thread never sends: with
callbacks that send on both sides, both threads can wait for ever on full buffers.

Disagreements with what the code's documentation says, each with the
counterexample TLC finds:

| run | what happens |
|---|---|
| `TcpServer_restart` | `start()` after `finish()` succeeds and serves nobody: `m_stop` is never cleared, the thread ends at its first test, the peer waits |
| `TcpServer_stale_client` | `sendClientMessage()` from a thread uses a `Client` that has been erased and sends to another client |
| `TcpServer_stalled_bcast` | `sendBcast()` blocks in `send()` with `m_mutex` held; `finish()` does not return |
| `TcpServer_stale_scan` | a callback deletes a client that is still in `read_set`, its number is reused, and `recv()` blocks the server |
| `UdpSocket_stale_dest` | `startUnicast()` with a remote host fails after storing it; a server-only `startUnicast()` then succeeds and still sends there |

Met while modelling, and without a run of their own:

* `connectTo()`, and each start of a datagram socket, after `finish()` or after a
  disconnect reports success and receives nothing, for the reason `TcpServer_restart`
  shows: `m_stop` is never cleared. `DeliveredUntilStop` says `~m_stop` because of it.
* `deleteClient()` on a thread and `FD_SET` in `serverTask` may overlap. The update of
  `m_fds` that is lost leaves a client unwatched, or a closed descriptor watched;
  `WatchSetExact` fails with `deleteClient` among the calls of a thread.
* `sendMsg()` of the client on one thread while `finish()` on another has closed the
  socket and not yet reset `m_sockfd`: it sends to whatever has the number by then.
  `SendReachesServer` fails with a second thread that sends.
* A start of the datagram socket while the receive thread is at work may put a fresh
  socket in `m_fd` between `FD_ISSET` and `recv()` and then fail: `recv()` waits on it, and
  `finish()` for the thread (the exemption in `FinishReturns`).
* `connectTo()` from `onDisconnect()`, or a second start while a thread is joinable,
  terminates the process. `connectTo()` while an earlier receive thread runs can leave
  that thread waiting in `recv()` on the new connection until then.
* `start()` or `connectTo()` called again after a failure loses the first socket
  (`FinishReleasesAll` of the server with `MaxStarts = 2`, and that of the client without
  its condition on `connects`, show it).
* `sendBcast()` stops at the first client whose `send()` fails.
* A callback that blocks in `sendMsg()` keeps `finish()` from returning.

### Bounds

Descriptors: one for the accept socket and two for clients or foreign files, so that
numbers are reused while other clients are up. In `callbacks` there is one connection
more than client descriptors, so they also run out; `TcpServer_liveness` has one client
descriptor for three connections, so that `accept()` fails again and again. It has one
client at a time; that a scan over several clients never waits is `RecvNeverBlocks`, and
`QuitEnds` has two clients when the server is destroyed. Two connections suffice where
the second thread is the point. Buffers hold one chunk, so both full and empty are met.
`MaxStarts = 1` except where restarting is the question; one foreign file is enough to
take a number that was just freed. `TcpClient_lifecycle` has two descriptors, so that a
socket and a new one, or a foreign file that has taken its number, are open at a time,
and two calls of `connectTo()`: one that connects, and one that the owner or a callback
makes while the receive thread of the first runs. A third was also explored (660,000
states, no error); the theorems hold for any number. Its threads are the
application's and the receive thread, as sends from a second thread fail (see above).
`ServerApp` has two clients, so that one comes while another is
deleted or sent to; `ClientServer` has one connection, as a client program makes only
one, and buffers of one chunk, so that both directions are full after one message. The
client process has one descriptor, which other code takes as soon as it is closed.
Liveness sets the size of these runs: TLC's check of temporal properties is the larger
cost.

### Fairness

The operating system schedules every thread, `select()` has a timeout, and
application callbacks are taken to return: strong fairness for `serverTask`, for a
thread that waits for `m_mutex` (it gets it if it is free again and again), and for
the return of a callback; weak fairness for the client's threads, which take no
lock. Nothing is assumed of peers, of other code, or of what the application
calls. In particular a peer need not read, so `send()` may block for ever. In `ServerApp`
fairness is per thread: a thread that can take a step again and again, for instance
because a mutex becomes free, does; what the user types is not fair, and every
property that a user or a peer can hold up says so. In `ClientServer` the peer is the
other program, and the network delivers data and ends in each direction (weak
fairness of `Up` and `Down`), which is what TCP does while the hosts are connected.

## Proofs

Every theorem holds for all descriptor sets, connections, threads, choices of calls
and bounds that satisfy the assumptions named in the models (`KernelAssumption`,
`ServerAssumption`, `ClientAssumption`, `UdpAssumption`, `SystemAssumption`; they only say
that descriptors are numbers, that names differ and that bounds are naturals). The
theorems of `TcpServerUseProofs` have hypotheses besides, given below.

| theorem | states |
|---|---|
| `TcpServerProofs`: `TypeCorrect`, `HandlesOwnSockets`, `OwnershipKept`, `EmplaceInserts`, `OnlyOwnClosed` | `TypeOK`, `HandleOwnsSocket`, `Ownership`, `NewClientRegistered`, `ClosesOnlyItsOwn` |
| `SessionProofs`: `RegisterFollows`, `DataAttributed`, `ServerImplementsSession` | `RegisterInStep`, `DataAttribution`, `ImplementsSession` |
| `TcpServerUseProofs`: `FinishReleases`, `SendsReach`, `WatchesExactly`, `RecvReturns` | `FinishReleasesAll`, `SendReachesItsClient`, `WatchSetExact`, `RecvNeverBlocks` |
| `TcpClientProofs`: `TypeCorrect`, `SocketOwned`, `SessionKept`, `RecvWaits`, `DisconnectsHonest`, `OnlyOwnClosed`, `FinishReleases` | `TypeOK`, `SockfdOwned`, `SessionHeld`, `RecvWaitsForConnect`, `DisconnectHonest`, `ClosesOnlyItsOwn`, `FinishReleasesAll` |
| `UdpSocketProofs`: `TypeCorrect`, `SocketOwned`, `SendsToItsDestination`, `OnlyOwnClosed` | `TypeOK`, `FdOwned`, `DestinationKept`, `ClosesOnlyItsOwn` |
| `ServerAppProofs`: `ClientsListed`, `LocksAcyclic`, `NumberKept` | `ListsItsClients`, `NoLockCycle`, `SendKeepsItsNumber` |
| `ClientServerProofs`: `ClientSendsToServer`, `ServerBesideClient` | `SendReachesServer`; the three of the server program in the composed system |

**The server** (`TcpServerProofs`). The inductive invariant is `Inv == TypeOK /\ Ownership
/\ HandleOwnsSocket`. `HandleOwnsSocket` alone is not inductive: between the close and
the erase of `deleteClient()` the number may belong to a newer connection, so one
needs that the lock is held throughout (`LockHeld`), that a connection has one
descriptor (`ConnectionOnce`), that what `serverTask` has accepted is not yet
registered (`AcceptedIsNew`), that `m_sockfd` is open (`SockfdOpen`), and that
`finish()` closes sockets only when `serverTask` has ended or is itself the caller
(`ThreadRoles`). `TypeStep` shows that every step keeps the types; `CallOwned`,
`ContinueOwned`, `ServerOwned`, `EnvironmentOwned` and `StartOwned` treat the actions
one by one; `InvStep` combines them.

**What the application is told** (`SessionProofs`). On top of `Inv` comes `Informed`. That the
register follows `m_clients` (`RegisterInStep`) needs to know what `serverTask` is about to
report (`Reporting`); that from the lookup of a client to its callback (`Holds`) the
descriptor is still that client's or belongs to no connection at all, and that the
application has nothing else under the handle (`Receiving`: only `serverTask` accepts, so
a number freed under it cannot come back as another connection); that no connection
has two handles (`HandlesOnce`); and that a connection is over between the close and the
erase (`Deleting`). The refinement then goes action by action: the lookup is `Attend`
(`AttendStep`), `recv()` finds data, an end or nothing (`FindStep`), `publishClientMsg` and
`publishDisconnected` are what the application hears (`HearStep`, `HearEndStep`), the close
of `deleteClient()` is `End`, its erase a withdrawal, `publishClientConnect` an
announcement, the close in `finish()` the end of everything, and all other steps are
hidden (`Hidden`).

**Disciplined use** (`TcpServerUseProofs`). Four properties fail for some applications (see
the runs above), and each is proved from the discipline it needs, which
`TcpServer_callbacks` satisfies and the examples follow:

* `FinishReleases`: `start()` is called at most once. Nothing else: threads and callbacks
  may delete, send and finish as they like. Every socket is `m_sockfd`, registered, or
  in the hands of `serverTask` (`Accounted`).
* `SendsReach`: `sendClientMessage()` and `deleteClient()` are called from callbacks only. A
  client that a callback has looked up cannot be erased under it (`SendsToItsClient`).
* `WatchesExactly`: `start()` at most once, `deleteClient()` from callbacks only, `finish()`
  not from a callback. `m_fds` differs from what it should be by exactly the
  descriptor being added or removed (`WatchSetFollows`).
* `RecvReturns`: `start()` at most once, `deleteClient()` from callbacks only, finitely many
  descriptors and none of them other code's. The accept socket then has the lowest
  number and the scan comes to it before any callback of the round can free a number
  (`AcceptsFirst`); so whatever is left to scan and has a client is ready (`ScansReady`).
  With one foreign descriptor the property fails, as `TcpServer_stale_scan` shows.

**The client** (`TcpClientProofs`). `Inv` has four groups beside the types. `Roles`: who may be
where (`ThreadRoles`), a `connectTo()` or `finish()` under way has ended the session
(`SessionGivenUp`), the end of a connection sets `m_stop` before it is published
(`EndStops`). `Owned`: `SockfdOwned`, which allows for the window between `Close()` and the
reset; that what `finish()` is about to close is still open (`ClosingOurs`), because the
owner is past `join()` only when there is no receive thread; and that without one nobody
takes the socket from a `connectTo()` (`DialHeld`). `Held`: what `select()` found ready
stays ready or is in the owner's `connect()` (`FoundReady`), and a `recv()` that waits is on
such a socket (`BlockedDials`), from which `RecvWaits` follows. `OneSocket` counts sockets
for `FinishReleasesAll`.

**The datagram socket** (`UdpSocketProofs`). `FdOwned` needs `ClosingOurs` as the client does;
`DestinationKept` needs what a start under way has already written to `m_sockaddr`
(`StartUnderWay`).

**The server program** (`ServerAppProofs`). Every step that does not end the program is a
step of its server or leaves the server alone (`AppCases`), so `Inv` and `Informed` carry
over. `AppParts` adds which thread is where and holds ServerApp's mutex (`Places`), what a
callback has still to do to the set (`Upcalls`), and that the number the main thread
sends on is its client's, or nobody's while `serverTask` is still on its way through the
disconnect callback (`NumberHeld`). `LocksAcyclic` is then `LockHeld` of the server: the
callback does not hold `m_mutex`.

**Both programs** (`ClientServerProofs`). To the server the network is a step of its peers,
so `AppInv` holds beside the client. `ClientPlaces` says that the client's main thread
alone changes `m_sockfd` and sends on it, so it is never sending in the window in which
`m_sockfd` names a closed socket.

Each inductive invariant was also checked with TLC on an instance.
Only model-checked: the liveness properties (`FinishReturns`, `ServesUntilStop`,
`DisconnectNoticed`, `DeliveredUntilStop`, `DisconnectTold`, `QuitEnds`, `ClientListed`,
`SendersNeverStall`, `ClientEndSeen`, `ClientEnds`), since liveness under fairness is out of
the prover's reach.

## Assumptions and what is not modelled

* In `TcpServer`, `TcpClient` and `UdpSocket` the process ignores `SIGPIPE`; the programs
  do not, and their models have it. `select()` is not interrupted by signals and the
  descriptors stay below `FD_SETSIZE`. The library handles none of these.
* Other code closes only its own descriptors. `start()`, `connectTo()` and `finish()`
  are called by one thread or from callbacks; the other operations by any thread.
* `m_isConnected` and `m_sockfd` are plain variables; a racing read gives the value
  before or after the write.
* Between the two programs, a connection that breaks without either end being told
  (a host or a cable that fails): the library sets no keep-alive, and a reader then
  waits as long as the kernel lets it.
* Message bytes, error texts, addresses and socket options; the Windows branches;
  option parsing, what the examples print, the end of their input (on which their
  loops spin); `mcastApp.cpp` and `unicastApp.cpp`, whose calls are part of what
  `UdpSocket_lifecycle` explores; the third-party `getopt`; the unit tests and mocks.

## Plan

The parts that change state are modelled, and the safety properties of every passing
run are proved. What is left:

1. safety lemmas behind the liveness properties, for instance that nobody waits for
   `m_mutex` while its holder waits for the waiter;
2. safety facts of the composed system that relate both ends of a connection: what one
   side has sent and the other received, and that neither outlives the other unseen.
