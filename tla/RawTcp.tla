------------------------------- MODULE RawTcp -------------------------------
(***************************************************************************)
(* The older, unframed library at the root of the repository               *)
(* (src/net_res_mgr.cpp, src/socket.cpp, src/buffer.h): its table, indexer,*)
(* sockets and buffers, between StartupNet and CleanupNet, cut into steps  *)
(* as TcpResources is. It differs where it matters: a socket has no flags  *)
(* and leaves every refusal to Winsock; connect has a timeout, after which *)
(* the attempt goes on in the kernel; OnTcpAccept arms the next accept     *)
(* before it serves this one, and only reports that it could not; a        *)
(* connection leaves the table before the application is told its end.     *)
(* Buffers are unique pointers that are released to the kernel.            *)
(***************************************************************************)
EXTENDS Integers, FiniteSets

CONSTANTS Users,          \* threads that call the interface
          Workers,        \* threads of utility::Iocp
          Handles,        \* bound: the indexes the indexer can give
          Sockets,        \* bound: socket objects alive at once
          Buffers,        \* bound: buffers alive at once
          Backlog,        \* GetProcessorNum() * 2
          None            \* nullptr, or no handle

Threads == Users \cup Workers

ASSUME ConstantsOK == /\ Users \cap Workers = {} /\ Threads \cap Buffers = {}
                      /\ None \notin Handles \cup Sockets \cup Buffers
                      /\ Backlog \in Nat \ {0}

VARIABLES table,          \* tcp_sockets_
          indexes,        \* the indexer: indexes in use
          issued,         \* the indexer: indexes given so far; none is given again
          told,           \* handles the application was given
          state,          \* what the kernel knows of each socket
          heap,           \* the buffers allocated
          buf,            \* what a buffer holds
          io,             \* where a buffer's overlapped operation is
          thr             \* the locals of each thread

tableVars == <<table, indexes, issued, told>>
bufVars   == <<heap, buf, io>>
vars      == <<table, indexes, issued, told, state, heap, buf, io, thr>>

Types  == {"accept", "send", "recv"}
States == {"new", "listening", "connecting", "connected", "accepted"}
Blank  == [type |-> "send", handle |-> None, accept |-> None, sock |-> None]

\* Locals: h and s are the handle and socket the call or handler is about, b the buffer a
\* unique pointer holds, ok how its operation ended, then what follows a removal, k the
\* accepts armed, l and ls the handle and socket of a listener.
Idle == [pc |-> "idle", h |-> None, s |-> None, b |-> None, ok |-> FALSE, then |-> "idle",
         k |-> 0, l |-> None, ls |-> None]

PCs == {"idle", "add_index", "add_insert", "remove", "destroy_index", "listen", "arm",
        "connect", "select", "send", "recv_new", "accept_next", "listen_error",
        "set_accepted", "on_accepted", "on_received", "rearm", "on_disconnected", "on_error"}

At(t, pc)   == thr[t].pc = pc
Goto(t, pc) == thr' = [thr EXCEPT ![t].pc = pc]

\* Mutant: a thread that is done keeps its shared pointers.
ReturnHolding(t) == thr' = [thr EXCEPT ![t].pc = "idle"]

\* A call or handler returns, and its locals go.
Return(t) == thr' = [thr EXCEPT ![t] = Idle]

\* RemoveTcpSocket(h), then the callback.
Remove(t, then) == thr' = [thr EXCEPT ![t].pc = "remove", ![t].then = then]

-----------------------------------------------------------------------------
(* Objects.                                                                *)

\* A socket object exists while a shared pointer or an accept buffer refers to it.
Referenced(s) ==
  \/ \E h \in Handles : table[h] = s
  \/ \E t \in Threads : thr[t].s = s \/ thr[t].ls = s
  \/ \E b \in heap : buf[b].accept = s

FreeSockets == {s \in Sockets : ~Referenced(s) /\ \A b \in heap : buf[b].sock # s}

Connected(s) == state[s] \in {"connected", "accepted"}

\* The kernel takes the operation of buffer b, and buffer.release() gives it up.
Release(b, type, h, s, a) ==
  /\ heap' = heap \cup {b}
  /\ buf' = [buf EXCEPT ![b] = [type |-> type, handle |-> h, accept |-> a, sock |-> s]]
  /\ io' = [io EXCEPT ![b] = "pending"]

\* A unique pointer that was not released deletes its buffer.
Delete(b) ==
  /\ heap' = heap \ {b}
  /\ buf' = [buf EXCEPT ![b] = Blank]
  /\ io' = [io EXCEPT ![b] = "none"]

\* AsyncTcpAccept, when AcceptEx takes buffer b: it needs a listener and a new socket.
AsyncTcpAccept(b, h, s) ==
  /\ state[s] = "listening"
  /\ \E a \in FreeSockets : /\ state' = [state EXCEPT ![a] = "new"]
                            /\ Release(b, "accept", h, s, a)

\* AsyncTcpRecv, when WSARecv takes buffer b.
AsyncTcpRecv(b, h, s) == Connected(s) /\ Release(b, "recv", h, s, None)

-----------------------------------------------------------------------------
(* AddTcpSocket and RemoveTcpSocket.                                       *)

\* CreateIndex. Without an index the socket is dropped.
AddIndex(t) ==
  /\ At(t, "add_index")
  /\ \/ \E i \in Handles \ issued :
          /\ indexes' = indexes \cup {i}
          /\ issued' = issued \cup {i}
          /\ thr' = [thr EXCEPT ![t].pc = "add_insert", ![t].h = i]
     \/ Handles = issued /\ Return(t) /\ UNCHANGED <<indexes, issued>>
  /\ UNCHANGED <<table, told, state, bufVars>>

AddInsert(t) ==
  LET h == thr[t].h IN
  /\ At(t, "add_insert")
  /\ table' = IF table[h] = None THEN [table EXCEPT ![h] = thr[t].s] ELSE table
  /\ IF t \in Users
     THEN told' = told \cup {h} /\ Return(t)
     ELSE UNCHANGED told /\ Goto(t, "on_accepted")
  /\ UNCHANGED <<indexes, issued, state, bufVars>>

\* Mutant: the index is destroyed even when the handle is not found.
RemoveEraseBlind(t) ==
  /\ At(t, "remove")
  /\ table' = [table EXCEPT ![thr[t].h] = None]
  /\ Goto(t, "destroy_index")
  /\ UNCHANGED <<indexes, issued, told, state, bufVars>>

\* Nothing follows TcpDestroy's removal; a handler goes on to a callback.
AfterRemove(t) ==
  IF thr[t].then = "idle" THEN Return(t) ELSE Goto(t, thr[t].then)

RemoveErase(t) ==
  LET h == thr[t].h IN
  /\ At(t, "remove")
  /\ IF table[h] # None
     THEN table' = [table EXCEPT ![h] = None] /\ Goto(t, "destroy_index")
     ELSE UNCHANGED table /\ AfterRemove(t)
  /\ UNCHANGED <<indexes, issued, told, state, bufVars>>

RemoveIndex(t) ==
  /\ At(t, "destroy_index")
  /\ indexes' = indexes \ {thr[t].h}
  /\ AfterRemove(t)
  /\ UNCHANGED <<table, issued, told, state, bufVars>>

-----------------------------------------------------------------------------
(* The interface.                                                          *)

TcpCreate(t) ==
  /\ At(t, "idle")
  /\ \E s \in FreeSockets :
       /\ state' = [state EXCEPT ![s] = "new"]
       /\ thr' = [thr EXCEPT ![t].pc = "add_index", ![t].s = s]
  /\ UNCHANGED <<tableVars, bufVars>>

TcpDestroy(t, h) ==
  /\ At(t, "idle")
  /\ thr' = [thr EXCEPT ![t].pc = "remove", ![t].h = h]
  /\ UNCHANGED <<tableVars, state, bufVars>>

\* GetTcpSocket finds a socket; otherwise the call fails with nothing changed.
GetTcpSocket(t, call, h) ==
  /\ At(t, "idle")
  /\ table[h] # None
  /\ thr' = [thr EXCEPT ![t].pc = call, ![t].h = h, ![t].s = table[h]]
  /\ UNCHANGED <<tableVars, state, bufVars>>

TcpListen(t, h)  == GetTcpSocket(t, "listen", h)
TcpConnect(t, h) == GetTcpSocket(t, "connect", h)
TcpSend(t, h)    == GetTcpSocket(t, "send", h)

\* Winsock lets a socket listen, even again, unless it connects or is connected.
Listen(t) ==
  LET s == thr[t].s IN
  /\ At(t, "listen")
  /\ \/ /\ state[s] \in {"new", "listening"}
        /\ state' = [state EXCEPT ![s] = "listening"]
        /\ Goto(t, "arm")
     \/ Return(t) /\ UNCHANGED state
  /\ UNCHANGED <<tableVars, bufVars>>

\* One turn of TcpListen's loop.
ArmAccept(t) ==
  LET me == thr[t] IN
  /\ At(t, "arm")
  /\ \/ /\ \E b \in Buffers \ heap : AsyncTcpAccept(b, me.h, me.s)
        /\ IF me.k + 1 = Backlog THEN Return(t) ELSE thr' = [thr EXCEPT ![t].k = @ + 1]
     \/ Return(t) /\ UNCHANGED <<state, bufVars>>
  /\ UNCHANGED tableVars

\* Socket::Connect up to connect: it is refused at once on a socket that listens, connects
\* or is connected, succeeds, or goes on (WSAEWOULDBLOCK).
Connect(t) ==
  LET s == thr[t].s IN
  /\ At(t, "connect")
  /\ \/ /\ state[s] = "new"
        /\ \E r \in {"connecting", "connected"} :
             /\ state' = [state EXCEPT ![s] = r]
             /\ Goto(t, IF r = "connected" THEN "recv_new" ELSE "select")
     \/ Return(t) /\ UNCHANGED state
  /\ UNCHANGED <<tableVars, bufVars>>

\* select: the socket can be written to, or the timeout. Only the write set is watched, so
\* a refused attempt is noticed as a timeout, and one that timed out goes on in the kernel.
\* Nothing tells whose attempt made the connection: two threads that wait here for one
\* socket both start a receive.
Select(t) ==
  /\ At(t, "select")
  /\ IF state[thr[t].s] = "connected" THEN Goto(t, "recv_new") ELSE Return(t)
  /\ UNCHANGED <<tableVars, state, bufVars>>

\* TcpSend: WSASend takes the buffer or it is deleted. (What set_buffer refuses, more than
\* 2048 bytes, is sent as nothing, and the call succeeds too.)
Send(t) ==
  LET me == thr[t] IN
  /\ At(t, "send")
  /\ \/ Connected(me.s) /\ \E b \in Buffers \ heap : Release(b, "send", me.h, me.s, None)
     \/ UNCHANGED bufVars
  /\ Return(t)
  /\ UNCHANGED <<tableVars, state>>

\* The first receive of a connection: TcpConnect returns, OnTcpAccept ends or reports.
RecvNew(t) ==
  LET me == thr[t] IN
  /\ At(t, "recv_new")
  /\ \/ (\E b \in Buffers \ heap : AsyncTcpRecv(b, me.h, me.s)) /\ Return(t)
     \/ /\ UNCHANGED bufVars
        /\ IF t \in Users THEN Return(t) ELSE Remove(t, "on_error")
  /\ UNCHANGED <<tableVars, state>>

-----------------------------------------------------------------------------
(* The kernel.                                                             *)

\* A connection attempt ends, whether somebody still waits for it or not.
Attempt(s) ==
  /\ state[s] = "connecting"
  /\ \E r \in {"connected", "new"} : state' = [state EXCEPT ![s] = r]
  /\ UNCHANGED <<tableVars, bufVars, thr>>

Complete(b) ==
  /\ io[b] = "pending" /\ Referenced(buf[b].sock)
  /\ io' = [io EXCEPT ![b] = "ok"]
  /\ UNCHANGED <<tableVars, state, heap, buf, thr>>

\* The peer closed, the operation failed, or the socket was closed here.
Abort(b) ==
  /\ io[b] = "pending"
  /\ io' = [io EXCEPT ![b] = "zero"]
  /\ UNCHANGED <<tableVars, state, heap, buf, thr>>

-----------------------------------------------------------------------------
(* The handlers, run by a worker that took the completion of buffer b.     *)

Completed(t, b, type) == At(t, "idle") /\ io[b] \in {"ok", "zero"} /\ buf[b].type = type

\* IocpCallbackFunc makes a unique pointer of b, and the handler finds the socket of its
\* handle or ends. An accepted socket moves out of the buffer into the locals.
Take(t, b, locals) ==
  IF table[buf[b].handle] = None
  THEN Delete(b) /\ UNCHANGED thr
  ELSE /\ thr' = [thr EXCEPT ![t] = locals]
       /\ buf' = [buf EXCEPT ![b].accept = None]
       /\ io' = [io EXCEPT ![b] = "none"]
       /\ UNCHANGED heap

\* OnTcpAccept up to accept_socket().
OnTcpAccept(t, b) ==
  LET l == buf[b].handle IN
  /\ Completed(t, b, "accept")
  /\ Take(t, b, [Idle EXCEPT !.pc = "accept_next", !.l = l, !.ls = table[l],
                             !.s = buf[b].accept, !.b = b, !.ok = (io[b] = "ok")])
  /\ UNCHANGED <<tableVars, state>>

\* Mutant: nobody is told that the next accept could not be armed.
AcceptNextQuiet(t) ==
  LET me == thr[t] IN
  /\ At(t, "accept_next")
  /\ \/ AsyncTcpAccept(me.b, me.l, me.ls)
     \/ Delete(me.b) /\ UNCHANGED state
  /\ thr' = [thr EXCEPT ![t].pc = "set_accepted", ![t].b = None]
  /\ UNCHANGED tableVars

\* AsyncTcpAccept with the handler's buffer, before its connection is served. When it
\* fails the buffer goes, and the listener stays.
AcceptNext(t) ==
  LET me == thr[t] IN
  /\ At(t, "accept_next")
  /\ \/ /\ AsyncTcpAccept(me.b, me.l, me.ls)
        /\ thr' = [thr EXCEPT ![t].pc = "set_accepted", ![t].b = None]
     \/ /\ Delete(me.b) /\ UNCHANGED state
        /\ thr' = [thr EXCEPT ![t].pc = "listen_error", ![t].b = None]
  /\ UNCHANGED tableVars

\* The callback OnTcpError(listen_handle, 1).
OnListenError(t) ==
  /\ At(t, "listen_error")
  /\ Goto(t, "set_accepted")
  /\ UNCHANGED <<tableVars, state, bufVars>>

\* SetAccepted and BindToIocp; when either fails the accepted socket is dropped.
SetAccepted(t) ==
  /\ At(t, "set_accepted")
  /\ \/ /\ thr[t].ok
        /\ state' = [state EXCEPT ![thr[t].s] = "accepted"]
        /\ Goto(t, "add_index")
     \/ Return(t) /\ UNCHANGED state
  /\ UNCHANGED <<tableVars, bufVars>>

\* The callback OnTcpAccepted(listen_handle, accept_handle).
OnTcpAccepted(t) ==
  /\ At(t, "on_accepted")
  /\ told' = told \cup {thr[t].h}
  /\ Goto(t, "recv_new")
  /\ UNCHANGED <<table, indexes, issued, state, bufVars>>

OnTcpSend(t, b) ==
  /\ Completed(t, b, "send")
  /\ Delete(b)
  /\ UNCHANGED <<tableVars, state, thr>>

\* Mutant: the receive is armed again before the callback (which here is the step that
\* calls OnTcpError and ends the handler).
OnTcpRecvEarly(t, b) ==
  LET h == buf[b].handle IN
  /\ Completed(t, b, "recv")
  /\ IF table[h] = None
     THEN Delete(b) /\ UNCHANGED thr
     ELSE /\ AsyncTcpRecv(b, h, table[h])
          /\ thr' = [thr EXCEPT ![t] = [Idle EXCEPT !.pc = "on_error", !.h = h, !.s = table[h]]]
  /\ UNCHANGED <<tableVars, state>>

\* OnTcpRecv up to its first callback or removal.
OnTcpRecv(t, b) ==
  LET me == [Idle EXCEPT !.h = buf[b].handle, !.s = table[buf[b].handle], !.b = b] IN
  /\ Completed(t, b, "recv")
  /\ Take(t, b, IF io[b] = "ok"
                THEN [me EXCEPT !.pc = "on_received"]
                ELSE [me EXCEPT !.pc = "remove", !.then = "on_disconnected"])
  /\ UNCHANGED <<tableVars, state>>

\* The callback OnTcpReceived.
OnTcpReceived(t) ==
  /\ At(t, "on_received")
  /\ Goto(t, "rearm")
  /\ UNCHANGED <<tableVars, state, bufVars>>

\* Mutant: a receive that cannot be armed again is reported by nobody.
RearmQuiet(t) ==
  /\ At(t, "rearm")
  /\ AsyncTcpRecv(thr[t].b, thr[t].h, thr[t].s) \/ Delete(thr[t].b)
  /\ Return(t)
  /\ UNCHANGED <<tableVars, state>>

\* Mutant: the buffer is released even if WSARecv did not take it.
RearmReleased(t) ==
  /\ At(t, "rearm")
  /\ AsyncTcpRecv(thr[t].b, thr[t].h, thr[t].s) \/ UNCHANGED bufVars
  /\ Return(t)
  /\ UNCHANGED <<tableVars, state>>

\* AsyncTcpRecv with the same buffer; when it fails the buffer goes, and the connection.
Rearm(t) ==
  LET me == thr[t] IN
  /\ At(t, "rearm")
  /\ \/ AsyncTcpRecv(me.b, me.h, me.s) /\ Return(t)
     \/ /\ Delete(me.b)
        /\ thr' = [thr EXCEPT ![t].pc = "remove", ![t].then = "on_error", ![t].b = None]
  /\ UNCHANGED <<tableVars, state>>

\* The callback OnTcpDisconnected, after the removal; the buffer goes when the handler ends.
OnTcpDisconnected(t) ==
  /\ At(t, "on_disconnected")
  /\ Delete(thr[t].b)
  /\ Return(t)
  /\ UNCHANGED <<tableVars, state>>

\* The callback OnTcpError(handle, 2), after the removal.
OnTcpError(t) ==
  /\ At(t, "on_error")
  /\ Return(t)
  /\ UNCHANGED <<tableVars, state, bufVars>>

-----------------------------------------------------------------------------
Init ==
  /\ table = [h \in Handles |-> None]
  /\ indexes = {} /\ issued = {} /\ told = {}
  /\ state = [s \in Sockets |-> "new"]
  /\ heap = {}
  /\ buf = [b \in Buffers |-> Blank]
  /\ io = [b \in Buffers |-> "none"]
  /\ thr = [t \in Threads |-> Idle]

Call(t) == \/ TcpCreate(t)
           \/ \E h \in told : TcpDestroy(t, h) \/ TcpListen(t, h) \/ TcpConnect(t, h) \/ TcpSend(t, h)

Handle(t) == \E b \in Buffers : OnTcpAccept(t, b) \/ OnTcpSend(t, b) \/ OnTcpRecv(t, b)

Step(t) == \/ AddIndex(t) \/ AddInsert(t) \/ RemoveErase(t) \/ RemoveIndex(t)
           \/ Listen(t) \/ ArmAccept(t) \/ Connect(t) \/ Select(t) \/ Send(t) \/ RecvNew(t)
           \/ AcceptNext(t) \/ OnListenError(t) \/ SetAccepted(t) \/ OnTcpAccepted(t)
           \/ OnTcpReceived(t) \/ Rearm(t) \/ OnTcpDisconnected(t) \/ OnTcpError(t)

Kernel == \/ \E b \in Buffers : Complete(b) \/ Abort(b)
          \/ \E s \in Sockets : Attempt(s)

Next == \/ \E t \in Users : Call(t)
        \/ \E t \in Workers : Handle(t)
        \/ \E t \in Threads : Step(t)
        \/ Kernel

Spec == Init /\ [][Next]_vars

-----------------------------------------------------------------------------
(* Properties.                                                             *)

Maybe(S) == S \cup {None}

Operations == [type : Types, handle : Maybe(Handles), accept : Maybe(Sockets), sock : Maybe(Sockets)]
Locals     == [pc : PCs, h : Maybe(Handles), s : Maybe(Sockets), b : Maybe(Buffers),
               ok : BOOLEAN, then : {"idle", "on_disconnected", "on_error"},
               k : 0 .. Backlog, l : Maybe(Handles), ls : Maybe(Sockets)]

\* Every variable has its type, and a thread outside every call and handler holds nothing:
\* no shared pointer of a finished call keeps a socket open.
TypeOK ==
  /\ table \in [Handles -> Maybe(Sockets)]
  /\ indexes \subseteq issued /\ issued \subseteq Handles /\ told \subseteq issued
  /\ state \in [Sockets -> States]
  /\ heap \subseteq Buffers
  /\ buf \in [Buffers -> Operations]
  /\ io \in [Buffers -> {"none", "pending", "ok", "zero"}]
  /\ thr \in [Threads -> Locals]
  /\ \A t \in Threads : At(t, "idle") => thr[t] = Idle

\* Thread t answers for an index that no entry has: it is about to insert the entry, or it
\* erased the entry and is about to destroy the index.
Owns(t, h) == (At(t, "add_insert") \/ At(t, "destroy_index")) /\ thr[t].h = h

\* An index in use is an entry's or one thread's, never both and never two threads', however
\* many threads (TcpDestroy, a disconnection, an error) remove one handle at once.
IndexOwnership ==
  \A h \in Handles :
    /\ h \in indexes <=> table[h] # None \/ \E t \in Threads : Owns(t, h)
    /\ \A t \in Threads : Owns(t, h) => /\ table[h] = None
                                       /\ \A u \in Threads : Owns(u, h) => u = t

\* A buffer is the kernel's (or its port's), or one handler's unique pointer has it: no
\* release() without an operation leaks it, no operation writes into one that is deleted.
BufferOwnership ==
  /\ \A b \in heap : io[b] = "none" <=> \E w \in Workers : thr[w].b = b
  /\ \A b \in Buffers \ heap : io[b] = "none" /\ \A w \in Workers : thr[w].b # b
  /\ \A v, w \in Workers : thr[v].b = thr[w].b => v = w \/ thr[v].b = None

\* The connection a thread is about to read, to call back about, or to give up.
Serves(t) ==
  IF \/ At(t, "recv_new")
     \/ /\ t \in Workers
        /\ thr[t].pc \in {"add_index", "add_insert", "remove", "destroy_index", "on_accepted",
                         "on_received", "rearm", "on_disconnected", "on_error"}
  THEN thr[t].s
  ELSE None

Readers(s) == {b \in heap : buf[b].type = "recv" /\ io[b] # "none" /\ buf[b].sock = s}
                \cup {t \in Threads : Serves(t) = s}

Calling(t) ==
  IF thr[t].pc \in {"on_accepted", "on_received", "on_disconnected", "on_error"}
  THEN thr[t].s ELSE None

\* An accepted connection is open while it has a reader.
Open == {s \in Sockets : state[s] = "accepted" /\ Readers(s) # {}}

CallingAccepted(t) ==
  IF Calling(t) # None /\ state[Calling(t)] = "accepted" THEN Calling(t) ELSE None

\* This library keeps the promise of Connections for the connections it accepts, although
\* it removes a connection before it tells its end: callbacks about one connection never
\* overlap, and none comes after OnTcpDisconnected or OnTcpError.
C == INSTANCE Connections
       WITH open <- Open,
            calling <- [t \in Threads |-> CallingAccepted(t)]

ImplementsConnections == C!Spec

\* A socket that has a reader gets another only in place of one: a receive is handed to its
\* handler, a handler ends with the next receive. The exception is a TcpConnect that waited
\* in select for an attempt that was refused and finds the next one's connection.
ReadersTakeOver ==
  [][\A s \in Sockets :
       Readers(s) # {} /\ ~(Readers(s)' \subseteq Readers(s)) =>
         \/ ~(Readers(s) \subseteq Readers(s)')
         \/ \E u \in Users : At(u, "select") /\ At(u, "recv_new")' /\ thr[u].s = s
    ]_vars

\* Who will notice what becomes of socket s: its readers, and who waits for its connection.
Watchers(s) == Readers(s) \cup {u \in Users : At(u, "select") /\ thr[u].s = s}

\* A socket that stays in the table does lose its last watcher: an attempt that timed out
\* may connect later, and the first receive of a connection may fail. Then nobody will
\* notice its data or its end, but some TcpConnect returns false.
ConnectLossReported ==
  [][\A h \in Handles :
       LET s == table[h] IN
       s # None /\ table'[h] = s /\ Watchers(s) # {} /\ Watchers(s)' = {} =>
         \E u \in Users : /\ At(u, "select") \/ At(u, "recv_new")
                          /\ thr[u].s = s /\ At(u, "idle")'
    ]_vars

\* A connection that was accepted and is in the table is never deaf: a receive is on its
\* way, or a thread starts one or takes the connection out.
AcceptedNeverDeaf ==
  \A h \in Handles : table[h] # None /\ state[table[h]] = "accepted" => Readers(table[h]) # {}

\* The accepts of listener s: with the kernel, in the port, or with a worker.
AcceptSlots(s) == {b \in heap : buf[b].type = "accept" /\ buf[b].sock = s /\ io[b] # "none"}
                    \cup {w \in Workers : At(w, "accept_next") /\ thr[w].ls = s}

\* A listener that stays in the table does lose accepts, one by one. It never loses one
\* without a call of OnTcpError(listen_handle, 1), by which the application can know.
AcceptLossReported ==
  [][\A h \in Handles :
       LET s == table[h] IN
       s # None /\ table'[h] = s =>
         \/ Cardinality(AcceptSlots(s)') >= Cardinality(AcceptSlots(s))
         \/ \E w \in Workers : At(w, "accept_next") /\ At(w, "listen_error")' /\ thr[w].l = h
    ]_vars
=============================================================================
