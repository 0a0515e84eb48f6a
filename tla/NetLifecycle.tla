---------------------------- MODULE NetLifecycle ----------------------------
(***************************************************************************)
(* StartupNet and CleanupNet (src/common/net_res_mgr.cpp) with the IOCP    *)
(* they start and stop (src/common/iocp.cpp), composed with the calls and  *)
(* handlers of TcpResources: the completion port is now a queue of         *)
(* packets, and a worker is a thread that is started, takes one packet     *)
(* after another, and ends with the first quit packet it takes.            *)
(*                                                                         *)
(* None of net_started_, init_, iocp_ and iocp_thread_ is locked, so one   *)
(* thread at a time calls StartupNet and CleanupNet here. Other threads go *)
(* on calling while workers exist, as callbacks do; a call that outlives   *)
(* them would use a manager that Release deletes.                          *)
(***************************************************************************)
EXTENDS TcpResources, Sequences

CONSTANTS MaxStarts,    \* bound: calls of StartupNet
          Quit          \* the packet (0, NULL, NULL)

ASSUME LifecycleOK == /\ MaxStarts \in Nat /\ Quit \notin Buffers
                      /\ IsFiniteSet(Workers) /\ Workers # {}

VARIABLES started,      \* net_started_
          init,         \* init_
          port,         \* iocp_ is not NULL
          queue,        \* the packets in the port
          live,         \* the workers whose threads run
          ctl,          \* where StartupNet or CleanupNet is
          posted,       \* quit packets Uninit has posted
          due,          \* history: buffers in the port when Uninit began, not yet handled
          starts        \* StartupNet calls so far

ctlVars  == <<started, init, port, live, ctl, posted, due, starts>>
lifeVars == <<vars, queue, ctlVars>>

Stages == {"idle", "init", "spawn", "clear_table", "clear_indexes", "post", "join", "stop"}

\* thread_num: GetProcessorNum() * 2.
ThreadNum == Cardinality(Workers)

Quits == Cardinality({i \in DOMAIN queue : queue[i] = Quit})

-----------------------------------------------------------------------------
(* StartupNet.                                                             *)

StartupNet ==
  /\ ctl = "idle" /\ ~started /\ starts < MaxStarts
  /\ started' = TRUE
  /\ ctl' = "init"
  /\ starts' = starts + 1
  /\ UNCHANGED <<vars, queue, init, port, live, posted, due>>

\* Mutant: StartupNet returns false without cleaning up.
InitKeeping ==
  /\ ctl = "init"
  /\ \/ init' = TRUE /\ port' = TRUE /\ ctl' = "spawn"
     \/ ctl' = "idle" /\ UNCHANGED <<init, port>>
  /\ UNCHANGED <<vars, queue, started, live, posted, due, starts>>

\* IOCP::Init up to the port. When WSAStartup or CreateIoCompletionPort fails init_ is
\* FALSE again, and StartupNet calls CleanupNet.
Init_ ==
  /\ ctl = "init"
  /\ \/ init' = TRUE /\ port' = TRUE /\ ctl' = "spawn"
     \/ ctl' = "clear_table" /\ UNCHANGED <<init, port>>
  /\ UNCHANGED <<vars, queue, started, live, posted, due, starts>>

\* One turn of Init's loop: a worker starts.
Spawn ==
  /\ ctl = "spawn"
  /\ \E w \in Workers \ live : live' = live \cup {w}
  /\ ctl' = IF live' = Workers THEN "idle" ELSE ctl
  /\ UNCHANGED <<vars, queue, started, init, port, posted, due, starts>>

-----------------------------------------------------------------------------
(* CleanupNet.                                                             *)

CleanupNet ==
  /\ ctl = "idle" /\ started
  /\ ctl' = "clear_table"
  /\ UNCHANGED <<vars, queue, started, init, port, live, posted, due, starts>>

\* tcp_sockets_.clear, under the lock.
ClearTable ==
  /\ ctl = "clear_table"
  /\ table' = [h \in Handles |-> None]
  /\ ctl' = "clear_indexes"
  /\ UNCHANGED <<indexes, issued, told, sock, bufVars, thr, queue>>
  /\ UNCHANGED <<started, init, port, live, posted, due, starts>>

\* tcp_indexer_.Clear, and Uninit, which returns at once if there was no Init.
ClearIndexes ==
  /\ ctl = "clear_indexes"
  /\ indexes' = {}
  /\ due' = {b \in Buffers : \E i \in DOMAIN queue : queue[i] = b}
  /\ ctl' = IF init THEN "post" ELSE "stop"
  /\ UNCHANGED <<table, issued, told, sock, bufVars, thr, queue>>
  /\ UNCHANGED <<started, init, port, live, posted, starts>>

\* Mutant: one thread gets no quit packet.
AllPostedEarly(n) == n = ThreadNum - 1

\* Mutant: one quit packet too many.
AllPostedLate(n) == n = ThreadNum + 1

AllPosted(n) == n = ThreadNum

\* One turn of Uninit's first loop.
PostQuit ==
  /\ ctl = "post"
  /\ queue' = Append(queue, Quit)
  /\ posted' = posted + 1
  /\ ctl' = IF AllPosted(posted') THEN "join" ELSE ctl
  /\ UNCHANGED <<vars, started, init, port, live, due, starts>>

\* Mutant: one worker is not joined.
JoinedMost == Cardinality(live) <= 1

Joined == live = {}

\* Uninit from the last join on: the port is closed, and what is in it or still with the
\* kernel comes to nobody: those buffers are forgotten here.
CloseHandle ==
  /\ ctl = "join"
  /\ Joined /\ \A t \in Users : At(t, "idle")
  /\ port' = FALSE /\ init' = FALSE
  /\ queue' = <<>> /\ posted' = 0
  /\ heap' = {} /\ buf' = [b \in Buffers |-> Blank] /\ io' = [b \in Buffers |-> "none"]
  /\ ctl' = "stop"
  /\ UNCHANGED <<tableVars, sock, thr, started, live, due, starts>>

\* Mutant: the manager is not released, and what was added late stays.
StopKeeping ==
  /\ ctl = "stop"
  /\ started' = FALSE /\ ctl' = "idle"
  /\ UNCHANGED <<vars, queue, init, port, live, posted, due, starts>>

\* CleanupNet returns, and NetInterface::CleanupNet releases the manager: the sockets
\* that were added after ClearTable go with it. (After a failed StartupNet, which keeps the
\* manager, there is none: nothing can be bound to a port that was never there.)
Stop ==
  /\ ctl = "stop"
  /\ started' = FALSE
  /\ table' = [h \in Handles |-> None]
  /\ indexes' = {}
  /\ ctl' = "idle"
  /\ UNCHANGED <<issued, told, sock, bufVars, thr, queue>>
  /\ UNCHANGED <<init, port, live, posted, due, starts>>

-----------------------------------------------------------------------------
(* Users, workers and the kernel.                                          *)

\* Mutant: a completion without data ends the thread, as a quit packet does.
IsQuitOrEmpty(p) == p \in {Quit} \cup {b \in Buffers : io[b] = "zero"}

IsQuit(p) == p = Quit

\* ThreadWorker takes a packet that ends it.
QuitWorker(w) ==
  /\ w \in live /\ At(w, "idle") /\ queue # <<>> /\ IsQuit(Head(queue))
  /\ live' = live \ {w}
  /\ queue' = Tail(queue)
  /\ UNCHANGED <<vars, started, init, port, ctl, posted, due, starts>>

\* ThreadWorker takes a completion, and TransferAsyncType begins its handler.
Take(w) ==
  /\ w \in live /\ queue # <<>> /\ ~IsQuit(Head(queue))
  /\ LET b == Head(queue) IN
       /\ OnTcpAccept(w, b) \/ OnTcpSend(w, b) \/ OnTcpRecv(w, b)
       /\ due' = due \ {b}
  /\ queue' = Tail(queue)
  /\ UNCHANGED <<started, init, port, live, ctl, posted, starts>>

\* A call that finds net_started_ TRUE. TcpCreate needs the port, and the others a socket,
\* so without a port each fails with nothing changed.
UserCall(t) ==
  /\ started /\ live # {}
  /\ Call(t)
  /\ UNCHANGED <<queue, ctlVars>>

ThreadStep(t) == Step(t) /\ UNCHANGED <<queue, ctlVars>>

\* The kernel puts the packet of a completed operation into the port.
Packet(b) ==
  /\ Complete(b) \/ Abort(b)
  /\ queue' = Append(queue, b)
  /\ UNCHANGED ctlVars

-----------------------------------------------------------------------------
LifeInit ==
  /\ Init
  /\ started = FALSE /\ init = FALSE /\ port = FALSE
  /\ queue = <<>> /\ live = {}
  /\ ctl = "idle" /\ posted = 0 /\ due = {} /\ starts = 0

Control == \/ StartupNet \/ Init_ \/ Spawn
           \/ CleanupNet \/ ClearTable \/ ClearIndexes \/ PostQuit \/ CloseHandle \/ Stop

LifeNext == \/ Control
            \/ \E t \in Users : UserCall(t)
            \/ \E t \in Threads : ThreadStep(t)
            \/ \E w \in Workers : QuitWorker(w) \/ Take(w)
            \/ \E b \in Buffers : Packet(b)

LifeSpec == LifeInit /\ [][LifeNext]_lifeVars

\* Every thread runs on, and callbacks return; so do StartupNet and CleanupNet, which
\* nobody has to call. A worker that waits takes a packet.
LifeFairness ==
  /\ WF_lifeVars(Control /\ ctl # "idle")
  /\ \A t \in Threads : WF_lifeVars(ThreadStep(t))
  /\ WF_lifeVars(\E w \in Workers : QuitWorker(w) \/ Take(w))

LiveLifeSpec == LifeSpec /\ LifeFairness

-----------------------------------------------------------------------------
(* Properties.                                                             *)

Busy == {w \in Workers : ~At(w, "idle")}

\* Types of what this module adds; no worker that has ended is in a handler.
LifeTypeOK ==
  /\ {started, init, port} \subseteq BOOLEAN
  /\ \A i \in DOMAIN queue : queue[i] \in Buffers \cup {Quit}
  /\ Busy \subseteq live /\ live \subseteq Workers
  /\ ctl \in Stages
  /\ posted \in 0 .. ThreadNum /\ starts \in 0 .. MaxStarts /\ due \subseteq Buffers

\* Handlers run only while the library is up or waits for them, and CleanupNet ends,
\* although completions keep coming and callbacks keep calling: see Service.
S == INSTANCE Service
       WITH busy <- Busy,
            phase <- IF ~port THEN "off"
                     ELSE IF ctl \in {"clear_table", "clear_indexes", "post", "join"}
                     THEN "stopping" ELSE "on"

ImplementsService == S!Spec

CleanupEnds == S!Ends

\* There is one quit packet for each worker that still runs, never one too few (join would
\* wait for ever) or one too many, and none but Uninit's: no worker ends before.
OneQuitEach ==
  port /\ ctl # "spawn" =>
    Cardinality(live) = Quits + (IF ctl \in {"post", "join"} THEN ThreadNum - posted ELSE ThreadNum)

\* A packet in the port is exactly a buffer whose operation has ended and that no handler
\* has taken, once: no completion is handled twice or lost while there is a port.
PortHoldsCompletions ==
  \A b \in Buffers :
    Cardinality({i \in DOMAIN queue : queue[i] = b}) = IF io[b] \in {"ok", "zero"} THEN 1 ELSE 0

\* When the last worker has ended no handler still holds a buffer, and a handler ran for
\* every completion that was in the port when Uninit began. (It returned the buffer without a
\* callback, because the tables were cleared first, unless the handle was added since.) What
\* the closing of the port leaves behind is only what the kernel had at that time.
EarlierCompletionsHandled ==
  ctl = "join" /\ live = {} => due = {} /\ \A b \in heap : io[b] # "none"

\* Between StartupNet and CleanupNet, and after either, the flags of NetResMgr and IOCP and
\* the workers agree, also when Init failed: calls that pass the test of net_started_ find a
\* port and its workers, and a StartupNet that failed can be called again.
StartedMeansUp ==
  ctl = "idle" => /\ started = port /\ started = init
                  /\ live = IF started THEN Workers ELSE {}

\* Whatever calls and handlers did while the tables were being cleared, a library that is
\* up (again) has every index owned once.
OwnershipWhenUp == ctl = "idle" => IndexOwnership

\* AddTcpSocket, which ignores the result of insert, always inserts: a handle it returns
\* means the socket it was given. Refuted when CleanupNet clears the indexer between
\* CreateIndex and insert.
InsertSucceeds == [][\A t \in Threads : AddInsert(t) => table[thr[t].ah] = None]_lifeVars
=============================================================================
