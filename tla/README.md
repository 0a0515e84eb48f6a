# Verification of net_Windows

TLA+ models, TLC runs and TLAPS proofs about the Windows network library in
`src/`. The repository holds two generations of one library:

* the **framed** library (`src/common`, `src/tcp`, `src/udp`, `src/interface`),
  which sends packets over TCP behind a 12-byte head and datagrams over UDP;
* the older **raw-stream** library at the root (`src/net_res_mgr.cpp`,
  `src/socket.cpp`, `src/buffer.h`, `src/Implement.cpp`), TCP only, unframed.

The project is about the framed library first, and about the older one where it
differs.

## Inventory

| component | state | operations | talks to |
|---|---|---|---|
| interface facade (`interface/net_interface.*`) | none | `StartupNet` ... `UdpSendTo`, callbacks `On...` | forwards to the one `NetResMgr` |
| `NetResMgr`, TCP (`common/net_res_mgr.cpp`) | `tcp_sockets_` (handle to shared socket), `tcp_indexer_` | `TcpCreate/Destroy/Listen/Connect/Send`, handlers `OnTcpAccept/Send/Recv/Error` | sockets, buffers on the heap, IOCP, user callbacks |
| `NetResMgr`, UDP | `udp_sockets_`, `udp_indexer_` | `UdpCreate/Destroy/SendTo`, `OnUdpSend/Recv/Error` | the same |
| `NetResMgr`, life cycle | `net_started_` | `StartupNet`, `CleanupNet` | both tables, IOCP |
| `IOCP` (`common/iocp.cpp`) | port, worker threads, `init_` | `Init`, `Uninit`, `BindToIOCP`, `ThreadWorker` | kernel, `TransferAsyncType` |
| `TcpSocket` (`tcp/tcp_socket.cpp`) | the SOCKET, `bind_/listen_/connect_`, parser state | `Create` ... `SetAccepted`, `OnRecv` | Winsock |
| head and buffers (`tcp_head.h`, `tcp_buffer.h`, `base_buffer.h`, `udp_buffer.h`) | OVERLAPPED, type, handle, bytes, accepted socket | `Init`, `ResetBuffer`, `set_...` | travel through the kernel |
| `UdpSocket` (`udp/udp_socket.cpp`) | the SOCKET, `bind_` | `Create`, `Bind`, `AsyncSendTo`, `AsyncRecvFrom` | Winsock |
| raw-stream library (root) | the same shape, no framing, no flags | adds a connect timeout | `Interface/NetModule.h` (not in the repository) |

Winsock, the completion port, `utility::Indexer`, `utility::Singleton` and the log
are not in the repository. They are modelled from how the code uses them, and
marked external in `PROJECT.json`.

How they interact. A user thread's call finds a socket in the table under a
lock, lets the lock go, and hands the kernel a heap buffer that remembers the
*handle*. Some worker takes the completion from the port, finds the socket again
by that handle, runs user callbacks, and arms the buffer again, frees it, or takes
the socket out of the table. A socket closes when its last shared pointer goes;
what is pending on it then completes with size 0.

What is hard: users and workers interleave between lock sections; the index of a
destroyed handle may be given again while completions of the old socket are on
their way; a receive cuts the byte stream anywhere; every step of setting up a
connection may fail; buffers are freed only by the handler of their own
completion; start and stop race with everything. `PROJECT.json` lists each
hazard at its line with the properties that cover it.

What correctness means:

* receive path: packets whole, in order, once, none withheld, no parsing outside
  the data, no memory of the receive buffer kept after it is armed again;
* resources: one owner for each index, buffer and socket; one reader for each
  connection; an accepted connection is never left without a reader; a listener
  keeps its accepts; a handler works on the socket its operation was started on;
  buffers of closed sockets come back;
* UDP: one owner for each index, as many receives for a socket as `UdpCreate` started,
  buffers come back, datagrams reach the callback (they do not: see the findings);
* life cycle: handlers run only between `StartupNet` and the end of `CleanupNet`;
  `CleanupNet` ends, and a handler has run for what completed before it; after a start,
  a failed start or a stop the flags, the port and the workers agree; a library that is up
  again has every index owned once;
* raw-stream library: the same ownership and, for accepted connections, the same promise
  about callbacks, although it removes a connection before it tells its end; accepted
  connections are read; an accept is never lost silently; a connection that is made gets a
  second reader, or loses its last one, only where `TcpConnect` shows it.

## Modules

| module | models | state |
|---|---|---|
| `PacketChannel` | what a framed connection promises: `Send`, `Deliver`, `Close` | `sent`, `got`, `open` |
| `TcpStream` | `TcpSocket::OnRecv` and its parser, fed by `NetResMgr::OnTcpRecv` | the peer's bytes, the receive buffer, `current_head_`, `current_packet_`, `current_packet_offset_`, `all_packets_`, packets delivered |
| `TcpStream_proofs` | theorems about `TcpStream` | |
| `TcpResources` | the TCP half of `NetResMgr` with its users, workers, kernel and indexer | table, indexes, socket flags, heap buffers, pending operations, locals of every thread |
| `MCTcpResources` | `TcpResources` with symmetry for TLC | |
| `TcpResources_proofs` | theorems about `TcpResources`: types and ownership | |
| `TcpConnections_proofs` | what a handle means, when no index is given twice | |
| `TcpCallbacks_proofs` | callbacks of a connection, and the refinement of `Connections` | |
| `TcpListeners_proofs` | the accepts of a listener | |
| `Connections` | what both libraries promise about the callbacks of one connection: never two at once, none after the last | `open`, `calling` |
| `Service` | what starting and stopping promises | `phase`, `busy` |
| `NetLifecycle` | `TcpResources` composed with `StartupNet`, `CleanupNet`, `IOCP::Init`, `Uninit` and `ThreadWorker` | `net_started_`, `init_`, the port's queue, running workers, where the controlling thread is, quit packets posted |
| `NetLifecycle_proofs` | theorems about `NetLifecycle`, with those of `TcpResources` | |
| `UdpResources` | the UDP half of `NetResMgr` and `UdpSocket`, with its users, kernel and indexer | table, indexes, heap buffers, pending operations, locals of every user, `crashed` |
| `UdpResources_proofs` | theorems about `UdpResources` | |
| `RawTcp`, `MCRawTcp` | the raw-stream library between `StartupNet` and `CleanupNet` | table, indexes, what Winsock knows of each socket, heap buffers, pending operations, locals of every thread |
| `RawTcp_proofs` | theorems about `RawTcp` | |

**TcpStream.** A byte is its position in the stream, so a head or a body is the
sequence of positions copied into it, and any byte lost, repeated or out of place
shows in what is delivered. `Receive` takes any number of available bytes up to
the buffer's size; after it, each iteration of `OnRecv`'s loop is a `ParseHead...`
step and, when bytes are left, a `ParsePacket...` step, which are the branches of
`ParseTcpHead` and `ParseTcpPacket`. `LoopOr` is the loop's condition.
`OnTcpReceived` is one callback and `Rearm` is `ResetBuffer` with `AsyncTcpRecv`.
A head says what the peer wrote at its positions, or anything if it is not aligned
with a frame. The two limits are two constants, as they are in two headers: `MaxSend` is
what `TcpSend` lets through (`kMaxTcpPacketSize`, `net_interface.h:23`) and `MaxSize` what
`TcpHead::Init` accepts (`kMaxTcpSendPacketSize`, `tcp_head.h:9`). The connection has one receive or one handler at a time: that is
`CallbacksSerial` of `TcpResources`.

**TcpResources.** A step is what a thread does between two points where another
thread can matter. Each function is cut there: `AddTcpSocket` into `AddIndex` and
`AddInsert`, `RemoveTcpSocket` into `RemoveErase` and `RemoveIndex`, `TcpListen`
into the look-up, `Listen` and one `ArmAccept` for each turn of the loop, and so
on. `thr[t]` holds the locals. A call that fails before it changes anything is not
a step. A failing Winsock call, a failing allocation and an expired callback owner
are one choice, "the operation was not taken". Reads of a flag after the look-up
are taken together with it. Calls made inside a callback are the calls of a user
thread at that moment. `Referenced` is the reference count; a socket is created
anew only when nothing refers to it or is pending on it.

**UdpResources.** The same cuts for the UDP calls: `UdpCreate` is `UdpCreate`,
`AddIndex`, `AddInsert` and one `ArmRecv` for each turn of its loop, `UdpDestroy` is
`RemoveErase` and `RemoveIndex`, `UdpSendTo` finds its socket and then starts the
operation (`AsyncSendTo`). A UDP handler has one step other threads can see, the look-up
in the table, so it is one action and needs no worker's locals. The inverted test of
`OnUdpRecv` is modelled as it is: `crashed` stands for the use of the null pointer,
after which nothing moves. The rest of `OnUdpRecv`, with `OnUdpReceived`, the
re-arming and `OnUdpError`, is behind that use, so no behaviour reaches it.

**Connections.** Both TCP modules implement it, with one reading of their state
(in `RawTcp` for the connections that were accepted): a connection is open while something can still call back about it (a receive on its
way or a thread that serves it), and a thread is calling while it is at a callback
of that connection. In `TcpResources` the last callback is followed by the removal
from the table; in `RawTcp` it follows the removal.

**NetLifecycle.** `StartupNet` is `StartupNet`, `Init_` and one `Spawn` for each
worker; `CleanupNet` is `CleanupNet`, `ClearTable`, `ClearIndexes`, one `PostQuit` for
each worker, `CloseHandle` once all have been joined, and `Stop`, where
`NetInterface::CleanupNet` releases the manager and what was added to it late. The
port is a FIFO queue of buffers and quit packets: `Packet` puts the buffer of an ended
operation into it, and a worker either takes the head and begins its handler (`Take`)
or ends with it (`QuitWorker`). Everything else is the steps of `TcpResources`,
unchanged. Assumed: one thread at a time starts and stops (no flag is locked), no
callback stops the library, and no call outlives the last worker (`CloseHandle`
waits for the users), since the manager is deleted afterwards. Buffers that are
with the kernel or behind the last quit packet when the port closes are never freed
by the code; the model forgets them at `CloseHandle`, and no property says otherwise.

**RawTcp.** The same cuts again. `state` holds what Winsock knows of a socket,
because this library has no flags and lets Winsock refuse; accepted and connected
sockets differ only in name. `Connect` and `Select` are the two halves of
`Socket::Connect`: the attempt goes on in the kernel (`Attempt`) whether or not somebody
waits, and a refused one looks like a wait because only the write set is watched.
`Take` turns a completed buffer into the handler's unique pointer; `Release` gives it back
to the kernel and `Delete` is its end. Nothing keeps two `TcpConnect`s of one socket apart:
when the attempt of the first is refused and the second one's connects, both find the socket
writable, both start a receive, and two workers may call back about one connection at once.
The model has these behaviours, so `Connections` is claimed for accepted connections only.
For those that `TcpConnect` makes, `ReadersTakeOver` says that this is the only way to a second
reader, and `ConnectLossReported` that a socket left in the table with nobody to notice its end
(the attempt timed out and connects later, or the first receive could not be armed) is left so by a
`TcpConnect` that returns false. Its time limit is not modelled: `select` may give up at any
moment (`socket.cpp:65` takes the rest of the milliseconds for microseconds, so it gives up
early). A `TcpSend`
of more than 2048 bytes sends nothing and succeeds; whether `TcpSend` lets one through
depends on `MAX_TCP_PACKET_SIZE`, whose header is not in the repository, so sizes are not
modelled. `StartupNet` and `CleanupNet` here are calls of `utility::Iocp`, also not in
the repository.

Definitions called "Mutant" are deliberate errors (a check left out, a reset
forgotten, an order changed). Each is what one property must catch when it takes the
place of the definition that follows it; no specification uses them.

## Runs

| run | module, cfg | question | distinct states |
|---|---|---|---|
| stream | `TcpStream`, `TcpStream.cfg` | any peer, any cuts: parser invariants, nothing withheld, refinement of `PacketChannel`; from this library: everything delivered, nothing refused | 49,004 |
| ownership | `MCTcpResources`, `ResOwnership.cfg` | handles given again, accepts armed again: one owner for indexes, buffers, sockets | 1,615,831 |
| accept | `MCTcpResources`, `ResAccept.cfg` | no deaf connection, accepts kept, refinement of `Connections` | 38,785 |
| connect | `MCTcpResources`, `ResConnect.cfg` | racing users: one reader, one owner for buffers, handles mean one socket, refinement of `Connections` | 165,897 |
| drain | `MCTcpResources`, `ResDrain.cfg` | liveness: buffers of closed sockets come back | 98,496 |
| recycle | `MCTcpResources`, `ResRecycle.cfg` | violation expected: see the findings | |
| lifecycle | `NetLifecycle`, `NetLifecycle.cfg` | start, failed start, stop, start again: quit packets, flags, refinement of `Service`, `CleanupNet` ends | 506,282 |
| cleanup | `NetLifecycle`, `NetCleanup.cfg` | violation expected: see the findings | |
| raw | `MCRawTcp`, `RawTcp.cfg` | the older library's listener: buffers, accepted connections read, accepts reported, refinement of `Connections` | 159,845 |
| raw_connect | `MCRawTcp`, `RawConnect.cfg` | the older library's racing `TcpConnect`s: who reads, who is told, indexes | 419,250 |
| udp | `UdpResources`, `UdpResources.cfg` | two users: one owner for indexes, receives bounded; liveness: sends, and buffers of closed sockets, come back | 93,527 |
| udp_recv | `UdpResources`, `UdpRecv.cfg` | violation expected: see the findings | |

Bounds. `TcpStream`: a head of 3 bytes, a buffer of 4 and bodies of 0, 1, 5 and 6
with a limit of 5. A head can then be cut twice, a body can be
shorter than, equal to and longer than what is left of a buffer and can span three
receives, one receive can end a packet and begin the next, and 5 and 6 are the two
sides of the limit. Three frames let a stale offset or head of one packet meet the
next. The parser compares only sums of these numbers, so 12, 2048 and 16 MiB
bring no other branch. `TcpResources`: two
threads of the kinds that race, two handles (one listener and one connection, or two
connections), sockets for those and the accept armed next, and two or three buffers.
Running out of handles happens in the runs and is the "no useful index" path. `Buffers`
and `Sockets` bound what is alive at once; an allocation that finds none free is the
failure the code handles in `ArmAccept`, `RecvNew`, `Send` and `Reset`. `Backlog` is 2
where the loop over accepts matters. While a worker arms an accept again, the listener and the
accepted socket are both alive: `ownership` has a third socket, so that the buffer does get a new one while
the other accept is pending, and `accept` a fourth, so that both accepts do. `ownership` leaves out `TcpConnect`, which
creates and removes no handle; `connect` checks the buffers of its calls with two users. `Recycle` chooses whether the
indexer may give a destroyed index again: TRUE in `ownership`, FALSE where a property is about the socket
a handle means.

`UdpResources`: two users, because one has to destroy while the other creates or sends;
`RecvCount` 2 so that the loop can fail in its middle, and three buffers, so that two
receives and a send, or receives of two sockets, are on their way together. There is one handle, for
which both users contend, and it is given again at once: a closed socket's operations complete
while the next socket has the handle.

`NetLifecycle`: two workers, so that one can quit while the other is in a handler; two
starts, so that what the first leaves meets the second; a listener, because its handler
adds sockets and arms operations while the library stops, with one accept and one receive on their way.
`RawTcp`: in `raw` a listener with two accepts, one user, and two workers that serve what it
accepts; in `raw_connect` two users, so that one can destroy, send or connect while the other
waits in `select`, and two workers, so that both receives of one connection can be served at once.

Deadlock is checked in all passing `TcpResources` runs, in `raw` and in `raw_connect`. In `NetLifecycle`
a library that was stopped may stay so. In `TcpStream` a closed
connection to a peer that has written its last frame is an end; in `UdpResources` a
process that used the null pointer is.

Fairness. `stream`: the kernel completes a receive for which there are bytes,
and a worker that runs a handler goes on (weak fairness of the parser, the callback
loop and the re-arming). A disconnection is never forced. `drain`: every thread in a
call or handler goes on, so callbacks return (weak); the kernel aborts what is pending
on a closed socket (weak); a completion in the port is taken in its turn, although
workers become busy again and again (strong for each buffer: the port is a queue).
Completion of an operation on an open socket is not assumed. `udp`: a send ends by itself,
and whatever is pending on a closed socket is aborted (weak); the workers take each completion in
the end, as the port is a queue and UDP handlers call nobody (weak). All of it only while the
process runs: `crashed` ends the obligation, since a receive whose socket is gone is never given
back. `lifecycle`: the controlling
thread goes on once `StartupNet` or `CleanupNet` was called (nobody has to call them);
every thread in a call or handler goes on, so callbacks return; while the port has a
packet, some idle worker takes one (weak).

## Findings

**A stale completion may reach a new socket.** `net_interface.h:3` says "THREAD: safe". `OnTcpRecv` and `OnTcpAccept` find the socket
again by the handle in the buffer (`net_res_mgr.cpp:454`, `475`), and
`RemoveTcpSocket` gives the index back (`306`) while the old socket's operation is
still pending. If `utility::Indexer` gives the index again before the completion is
handled, the handler works on the new socket: run `recycle` shows one user that
connects, destroys and creates again, and a worker that then reports the new socket
disconnected and removes it. The indexer is not in the repository: with one that never
repeats an index, the run `connect` shows that a handle always means one socket.

**A handle may mean another socket after `CleanupNet`'s clearing.** `net_interface.h:3`
says "THREAD: safe". `CleanupNet` clears `tcp_sockets_` and then `tcp_indexer_`
(`net_res_mgr.cpp:35`, `37`) while calls and workers go on. A socket that is added between the
two stays in the table with an index the indexer gives again; the next `AddTcpSocket` inserts
nothing (`284`), ignores that, and `TcpCreate` returns true. Run `cleanup` shows it; run
`lifecycle` shows that no more than that window is affected: `Release` takes it all away.

**UDP datagrams are never delivered.** `net_interface.h:32` declares `OnUdpReceived`.
`OnUdpRecv` tests `recv_socket != nullptr` (`net_res_mgr.cpp:517`) where `OnTcpRecv`
tests `== nullptr` (`476`). With a socket it frees the buffer, calls nobody and arms
nothing; without one it calls a member of a null pointer. Run `udp_recv` shows a user
that creates and destroys a UDP socket, and the completion of its receive that ends the
process. The properties of run `udp` are about the code as it is, up to that point.

## Proofs

Every theorem is about all values of the constants that `ConstantsOK` (for `NetLifecycle`
also `LifecycleOK`: the workers are finitely many and there is one, since `ThreadNum` is
twice a processor count) allows. Further hypotheses are written in the theorem:

* `Recycle = FALSE`, the indexer gives no index again. The indexer is not in the repository,
  and run `recycle` refutes what these theorems say when it does, so this is what the
  code relies on and does not state. Runs `accept` and `connect` make the same choice.
* `"connect" \notin Calls`, for `ConnectionsNeverDeaf`: a `TcpConnect` whose receive cannot be
  armed leaves a connected socket in the table with no reader (see the hazards), so the
  property is about accepted connections, as in run `accept`.
* `MaxSend <= MaxSize`, for `OwnPacketsNeverRefused`: the two headers agree (both say 16 MiB). That
  they do is read from the code; the run gives both constants the same value.
* `Finite`, for `AcceptsKept` and `AcceptLossesReported`: buffers and workers are finite sets,
  because these theorems count.

**`TcpStream_proofs`.** `TypeCorrect`, `ParserCorrect`, `AssertionHolds`, `NoBorrowedMemory`,
`NoPacketWithheld`, `ChannelImplemented`, `OwnPacketsNeverRefused`. `TypeOK` alone is not
inductive: that a body's copy stays within the packet needs the offset to be what was
copied, and that needs the offset to have been reset for this packet. `ParserInv` adds it,
and `IInv` is the two together. What is delivered needs more. `Content` adds
`FramesAbut` (each frame begins where the one before it ends), `Cursor` (the parser's place in the
stream is the start of the frame after those it has parsed, plus what it has copied of that
one), `Partial` (what it has copied are the bytes of that frame) and `InOrder` (packet `i`
of those parsed is frame `i`). From these, a head that is complete is the head the peer
wrote, so each delivery is the next frame, which is the step of `PacketChannel`; and when the next receive
is armed, a frame that lies before `base` has been delivered.

**`TcpResources_proofs`.** `TypesCorrect`, `IndexesOwned`, `BuffersOwned`, `SocketsOwned`. The
invariant is the types, what each local is at each point of a call (`LocalsInv`), that
every index named anywhere was issued (`IssuedInv`), the three ownerships, and
`FreshInv`: a thread that has made a socket and not yet inserted it has the only reference. The last
is what makes `AddInsert` keep a socket under one handle. `OwnershipKept` says it for a
step from any state with `Ownership`, with or without `IndexOwnership`: `CleanupNet` breaks the latter,
and `NetLifecycle_proofs` uses both halves.

**`TcpConnections_proofs`.** `HandlesMeanOneSocket`, with `Recycle = FALSE`. `Claimed(h, s)` says
that the table, a buffer or a thread means `s` by `h`; the invariant is that a handle is claimed
for one socket and a socket under one handle (`OneToOne`), with what the flags of a socket and the
locals of a thread say of each other (`PartsInv`, `FlagsInv`), and that a socket in the making is
claimed by its maker only (`PrivateInv`).

**`TcpCallbacks_proofs`.** `CallbacksAreSerial`, `ConnectionsImplemented`,
`ConnectionsNeverDeaf`. The right to call back is a baton: the buffer of the pending receive has it,
or the thread that took its completion, or the thread that is about to arm the
first one, and never two of them (`OneReader`). Each step hands it on, makes
it (a new connection) or ends it (the removal), and these are the steps of `Connections`
(`CStep`). `Heard` says of every step that the baton of a socket still in the table is not
dropped, but where `TcpConnect` could not arm its first receive.

**`TcpListeners_proofs`.** `AcceptsKept`. The accepts of a listener are
counted as buffers on their way plus workers that serve one. A handler exchanges an element of
one set for an element of the other, and a set in which one element is exchanged for another
has the same size; only a worker on its way to the removal gives one up.

**`UdpResources_proofs`.** `TypesCorrect`, `IndexesOwned`, `ReceivesStayBounded`. The bound needs that a socket's receives are those of the one
`UdpCreate` that made it: a socket is made by one thread, which has it alone up to
`AddUdpSocket`, with no receive until its loop starts one (`CreatorInv`). `HandleInv` says where a
thread's handle and socket are set.

**`NetLifecycle_proofs`.** `LifeTypesCorrect`, `QuitForEach`, `CompletionsInPort`,
`EarlierHandled`, `StartedUp`, `OwnedWhenUp`, `ServiceImplemented`. `LifeInv` has: what calls and handlers keep
whether or not their tables are cleared under them (`ResourcesInv`); what the stage of the
controlling thread says about the port and the workers (`StageInv`); one place in the queue for each
completion (`PortHoldsCompletions`), and as many quit packets, posted or to be posted, as
workers that run (`QuitInv`, a cardinality of places); that a completion which was in the port
before the first quit packet is ahead of every quit packet (`DueInv`), so no worker
has taken one while it waits (a handler that runs then finds the tables cleared, and gives the
buffer back without a callback unless the handle was added since: that is what the code does, and
the property claims no more); and `IndexOwnership` everywhere but inside
`CleanupNet` (`IndexInv`), which the release of the manager brings back.

**`RawTcp_proofs`.** `TypesCorrect`, `IndexesOwned`, `BuffersOwned`, `AcceptedAreRead`,
`ConnectionsImplemented`, `ReadersHandOver`, `ConnectLossesReported`, `AcceptLossesReported`. One
assumption is in the model itself and not in these theorems: its indexer gives no index
twice (`issued`). Any number of `TcpConnect`s may run at once. None of the properties is
inductive as it stands. That an accepted connection is
read is about a socket, and the code works with handles: `OneToOne` says that one handle means
one socket, whether the table, a buffer or a thread means it, and `SoleInv` that a socket to accept on
or still to be inserted is known to one of them only. `ReadInv` is the baton again: one
reader for each accepted connection; one that `TcpConnect` made may have several. `StateInv` is what a user knows of its socket's state when it
is about to start the first receive, and `GoneInv` that a handler on its way to the last callback, or
in it, has the connection out of the table; so the end is told once. From these each step is a step of `Connections`
(`CStep`): it hands the reader's right on (`HandKeeps`), makes it (`StartKeeps`) or ends it
(`EndKeeps`). The same lemmas give the other two
action properties of each step: what a socket is read by anew another reader gave up, except
for the user that leaves `select` (`TakeOverStep`), and what loses its last reader leaves the table or
is told to the caller (`LossStep`). The accepts of a listener are counted as in `TcpListeners_proofs`, for every
listener and every step, and the one step that drops one is shown to go on to `OnTcpError`.

Only model-checked: liveness (`DeliversEverything`, `ClosedSocketsDrain`, `BuffersDrain`, `CleanupEnds`),
which with ENABLED is out of the prover's reach. Every other property that a passing run
checks is a theorem. That the three expected violations are violations is TLC's to show.

## Not modelled, and the plan

Still to do: a tighter statement of the hazards that have no property yet, and shorter
proofs where two modules repeat one argument (the baton of `TcpCallbacks_proofs` and of
`RawTcp_proofs`).

Not modelled: two threads in `StartupNet` or `CleanupNet` at once, or `CleanupNet` from
a callback (the code has no lock there, and the second never returns from `join`); the
UDP table during start and stop, which the same steps clear; a
`PostQueuedCompletionStatus` that fails; `StartupNet` and `CleanupNet` of the raw-stream
library; time, and with it the length of its connect timeout.

Left out for good: the address getters (no state changes), logging, the text of
addresses, `Singleton`, and the widths of integers, whose largest value here is
16 MiB + 2 KiB.
