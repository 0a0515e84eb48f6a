---------------------------- MODULE TcpResources ----------------------------
(***************************************************************************)
(* The TCP half of NetResMgr (src/common/net_res_mgr.cpp) between          *)
(* StartupNet and CleanupNet: the table from handles to sockets, the       *)
(* indexer that numbers the handles, the sockets held by shared pointers,  *)
(* the heap buffers that carry overlapped operations, and the threads:     *)
(* users that call the interface and IOCP workers that run the handlers.   *)
(*                                                                         *)
(* A step is what a thread does between two points where another can       *)
(* matter: a section under tcp_sockets_lock_, a call of the indexer, a     *)
(* call of Winsock, a callback. A socket object exists while a shared      *)
(* pointer or an accept buffer refers to it (Referenced); when the last    *)
(* reference goes its destructor closes it, and the kernel then completes  *)
(* what is still pending on it with size 0. What OnRecv does with the      *)
(* bytes is module TcpStream's subject.                                    *)
(***************************************************************************)
EXTENDS Integers, FiniteSets

CONSTANTS Users,        \* threads that call the interface
          Workers,      \* threads of IOCP::ThreadWorker
          Handles,      \* bound: the indexes the indexer can give
          Sockets,      \* bound: socket objects alive at once
          Buffers,      \* bound: buffers alive at once
          Backlog,      \* GetProcessorNum() * 2
          Calls,        \* bound: the interface functions the users call
          Recycle,      \* TRUE: the indexer gives a destroyed index again
          None          \* nullptr, or no handle

Threads == Users \cup Workers

ASSUME ConstantsOK == /\ Users \cap Workers = {} /\ Threads \cap Buffers = {}
                      /\ None \notin Handles \cup Sockets \cup Buffers
                      /\ Backlog \in Nat \ {0}
                      /\ Recycle \in BOOLEAN

VARIABLES table,        \* tcp_sockets_
          indexes,      \* the indexer: indexes in use
          issued,       \* the indexer: indexes given so far
          told,         \* handles the application was given
          sock,         \* the flags of each socket object
          heap,         \* the buffers allocated
          buf,          \* what a buffer holds
          io,           \* where a buffer's overlapped operation is
          thr           \* the locals of each thread

tableVars == <<table, indexes, issued, told>>
bufVars   == <<heap, buf, io>>
vars      == <<table, indexes, issued, told, sock, heap, buf, io, thr>>

Types == {"accept", "send", "recv"}
Blank == [type |-> "send", handle |-> None, accept |-> None, sock |-> None]

\* The states of an overlapped operation: not started or taken by a worker, with the
\* kernel, or completed in the port (with data or a connection, or with neither).
IoStates == {"none", "pending", "ok", "zero"}

\* Locals: h and s are the handle and socket the call is about, a and ah the socket being
\* added and its handle, rh the handle to be removed, b the buffer, ok its completion,
\* k the accepts armed.
Idle == [pc |-> "idle", h |-> None, s |-> None, a |-> None, ah |-> None, rh |-> None,
         b |-> None, ok |-> FALSE, k |-> 0]

PCs == {"idle", "add_index", "add_insert", "remove", "destroy_index", "listen", "arm",
        "connect", "send", "recv_new", "set_accepted", "on_accepted", "reset", "on_error",
        "parse", "on_received", "rearm", "on_disconnected"}

\* Mutant: a thread that is done keeps its shared pointers.
ReturnHolding(t) == thr' = [thr EXCEPT ![t].pc = "idle"]

\* A call or handler returns: its locals go, and its shared pointers with them.
Return(t) == thr' = [thr EXCEPT ![t] = Idle]
Goto(t, pc) == thr' = [thr EXCEPT ![t].pc = pc]
At(t, pc) == thr[t].pc = pc

-----------------------------------------------------------------------------
(* Objects.                                                                *)

Referenced(s) ==
  \/ \E h \in Handles : table[h] = s
  \/ \E t \in Threads : thr[t].s = s \/ thr[t].a = s
  \/ \E b \in heap : buf[b].accept = s

\* Socket objects that can be made: no reference, and nothing left in the kernel.
FreeSockets == {s \in Sockets : ~Referenced(s) /\ \A b \in heap : buf[b].sock # s}

NewSocket == [bind |-> FALSE, listen |-> FALSE, connect |-> FALSE]

\* The kernel takes the operation of buffer b on socket s, started for handle h.
Submit(b, type, h, s, a) ==
  /\ heap' = heap \cup {b}
  /\ buf' = [buf EXCEPT ![b] = [type |-> type, handle |-> h, accept |-> a, sock |-> s]]
  /\ io' = [io EXCEPT ![b] = "pending"]

\* Return...Buffer: delete.
Delete(b) ==
  /\ heap' = heap \ {b}
  /\ buf' = [buf EXCEPT ![b] = Blank]
  /\ io' = [io EXCEPT ![b] = "none"]

\* Mutant: a buffer that finds no socket is forgotten, not returned.
DropNothing(b) == io' = [io EXCEPT ![b] = "none"] /\ UNCHANGED <<heap, buf, thr>>

\* A handler that finds no socket for its buffer's handle.
Drop(b) == Delete(b) /\ UNCHANGED thr

\* What TcpSocket asks of itself before it hands an operation to Winsock.
CanAccept(s) == sock[s].listen
CanSend(s)   == sock[s].connect
CanRecv(s)   == sock[s].connect

\* AsyncTcpAccept, when AcceptEx takes the buffer: with a new socket to accept on.
AsyncTcpAccept(b, h, s) ==
  /\ CanAccept(s)
  /\ \E a \in FreeSockets : /\ sock' = [sock EXCEPT ![a] = NewSocket]
                            /\ Submit(b, "accept", h, s, a)

\* Mutant: ResetBuffer cleared the handle and nothing sets it again.
AsyncTcpRecvUnset(b, h, s) ==
  CanRecv(s) /\ Submit(b, "recv", IF b \in heap THEN None ELSE h, s, None)

\* AsyncTcpRecv, when WSARecv takes the buffer.
AsyncTcpRecv(b, h, s) == CanRecv(s) /\ Submit(b, "recv", h, s, None)

-----------------------------------------------------------------------------
(* AddTcpSocket and RemoveTcpSocket, for users and workers.                *)

FreeIndexes == Handles \ (IF Recycle THEN indexes ELSE issued)

\* CreateIndex. With no useful index the socket is dropped; a worker goes on to arm the
\* accept buffer again.
AddIndex(t) ==
  /\ At(t, "add_index")
  /\ \/ \E i \in FreeIndexes :
          /\ indexes' = indexes \cup {i}
          /\ issued' = issued \cup {i}
          /\ thr' = [thr EXCEPT ![t].pc = "add_insert", ![t].ah = i]
     \/ /\ FreeIndexes = {}
        /\ UNCHANGED <<indexes, issued>>
        /\ IF t \in Users THEN Return(t) ELSE Goto(t, "reset")
  /\ UNCHANGED <<table, told, sock, bufVars>>

\* insert, which leaves an existing entry as it is.
AddInsert(t) ==
  LET h == thr[t].ah IN
  /\ At(t, "add_insert")
  /\ table' = IF table[h] = None THEN [table EXCEPT ![h] = thr[t].a] ELSE table
  /\ IF t \in Users
     THEN told' = told \cup {h} /\ Return(t)
     ELSE UNCHANGED told /\ Goto(t, "set_accepted")
  /\ UNCHANGED <<indexes, issued, sock, bufVars>>

\* Mutant: OnTcpAccept gives up after a socket it could not serve.
AfterRemoveReturn(t) == Return(t)

\* What follows RemoveTcpSocket: a worker that still has its accept buffer arms it again.
AfterRemove(t) ==
  IF thr[t].b # None THEN thr' = [thr EXCEPT ![t].pc = "reset", ![t].rh = None] ELSE Return(t)

\* Mutant: the index is destroyed even when the handle is not found.
RemoveEraseBlind(t) ==
  /\ At(t, "remove")
  /\ table' = [table EXCEPT ![thr[t].rh] = None]
  /\ Goto(t, "destroy_index")
  /\ UNCHANGED <<indexes, issued, told, sock, bufVars>>

\* find and erase, under the lock.
RemoveErase(t) ==
  LET h == thr[t].rh IN
  /\ At(t, "remove")
  /\ IF table[h] # None
     THEN table' = [table EXCEPT ![h] = None] /\ Goto(t, "destroy_index")
     ELSE UNCHANGED table /\ AfterRemove(t)
  /\ UNCHANGED <<indexes, issued, told, sock, bufVars>>

\* DestroyIndex, after the lock is released.
RemoveIndex(t) ==
  /\ At(t, "destroy_index")
  /\ indexes' = indexes \ {thr[t].rh}
  /\ AfterRemove(t)
  /\ UNCHANGED <<table, issued, told, sock, bufVars>>

-----------------------------------------------------------------------------
(* The interface, called by a user.                                        *)

\* TcpCreate up to AddTcpSocket: the socket is created, bound and bound to the port.
\* (If one of them fails nothing is left of it.)
TcpCreate(t) ==
  /\ At(t, "idle") /\ "create" \in Calls
  /\ \E s \in FreeSockets :
       /\ sock' = [sock EXCEPT ![s] = [NewSocket EXCEPT !.bind = TRUE]]
       /\ thr' = [thr EXCEPT ![t].pc = "add_index", ![t].a = s]
  /\ UNCHANGED <<tableVars, bufVars>>

TcpDestroy(t, h) ==
  /\ At(t, "idle") /\ "destroy" \in Calls
  /\ thr' = [thr EXCEPT ![t].pc = "remove", ![t].rh = h]
  /\ UNCHANGED <<tableVars, sock, bufVars>>

\* GetTcpSocket finds a socket: otherwise the call fails with nothing changed, as it does
\* when a flag forbids it. (A flag read here stands for one read a moment later: the
\* thread holds the socket from now on.)
GetTcpSocket(t, call, h) ==
  /\ At(t, "idle") /\ call \in Calls
  /\ table[h] # None
  /\ thr' = [thr EXCEPT ![t].pc = call, ![t].h = h, ![t].s = table[h]]
  /\ UNCHANGED <<tableVars, sock, bufVars>>

TcpListen(t, h)  == GetTcpSocket(t, "listen", h) /\ sock[table[h]].bind /\ ~sock[table[h]].listen
TcpConnect(t, h) == GetTcpSocket(t, "connect", h) /\ ~sock[table[h]].connect
TcpSend(t, h)    == GetTcpSocket(t, "send", h)

\* TcpSocket::Listen: the call of listen, which a connected socket refuses.
Listen(t) ==
  LET s == thr[t].s IN
  /\ At(t, "listen")
  /\ \/ /\ ~sock[s].connect
        /\ sock' = [sock EXCEPT ![s].listen = TRUE]
        /\ Goto(t, "arm")
     \/ UNCHANGED sock /\ Return(t)
  /\ UNCHANGED <<tableVars, bufVars>>

\* One iteration of TcpListen's loop: an accept buffer, a new socket, AcceptEx. A failure
\* returns the buffer and ends TcpListen with what is armed so far.
ArmAccept(t) ==
  LET me == thr[t] IN
  /\ At(t, "arm")
  /\ \/ /\ \E b \in Buffers \ heap : AsyncTcpAccept(b, me.h, me.s)
        /\ IF me.k + 1 = Backlog THEN Return(t) ELSE thr' = [thr EXCEPT ![t].k = @ + 1]
     \/ Return(t) /\ UNCHANGED <<sock, bufVars>>
  /\ UNCHANGED tableVars

\* Mutant: the kernel lets a connected socket connect once more.
ConnectTwice(t) ==
  /\ At(t, "connect") /\ ~sock[thr[t].s].listen
  /\ sock' = [sock EXCEPT ![thr[t].s].connect = TRUE]
  /\ thr' = [thr EXCEPT ![t].pc = "recv_new", ![t].a = thr[t].s, ![t].ah = thr[t].h]
  /\ UNCHANGED <<tableVars, bufVars>>

\* TcpSocket::Connect: connect fails on a socket that listens or is connected by now.
Connect(t) ==
  LET s == thr[t].s IN
  /\ At(t, "connect")
  /\ \/ /\ ~sock[s].listen /\ ~sock[s].connect
        /\ sock' = [sock EXCEPT ![s].connect = TRUE]
        /\ thr' = [thr EXCEPT ![t].pc = "recv_new", ![t].a = s, ![t].ah = thr[t].h]
     \/ UNCHANGED sock /\ Return(t)
  /\ UNCHANGED <<tableVars, bufVars>>

\* TcpSend from the send buffer on: WSASend takes it, or it is returned.
Send(t) ==
  /\ At(t, "send")
  /\ \/ CanSend(thr[t].s) /\ \E b \in Buffers \ heap : Submit(b, "send", thr[t].h, thr[t].s, None)
     \/ UNCHANGED bufVars
  /\ Return(t)
  /\ UNCHANGED <<tableVars, sock>>

\* The first receive of a connection, for TcpConnect and OnTcpAccept: a new buffer and
\* AsyncTcpRecv. When it fails TcpConnect returns false, OnTcpAccept reports an error.
RecvNew(t) ==
  LET me == thr[t] IN
  /\ At(t, "recv_new")
  /\ \/ /\ \E b \in Buffers \ heap : AsyncTcpRecv(b, me.ah, me.a)
        /\ IF t \in Users THEN Return(t) ELSE Goto(t, "reset")
     \/ /\ UNCHANGED bufVars
        /\ IF t \in Users THEN Return(t)
           ELSE thr' = [thr EXCEPT ![t].pc = "on_error", ![t].rh = me.ah]
  /\ UNCHANGED <<tableVars, sock>>

-----------------------------------------------------------------------------
(* The kernel.                                                             *)

\* A connection, data, or data sent: on a socket that is still open.
Complete(b) ==
  /\ io[b] = "pending"
  /\ Referenced(buf[b].sock)
  /\ io' = [io EXCEPT ![b] = "ok"]
  /\ UNCHANGED <<tableVars, sock, heap, buf, thr>>

\* The peer closed, the operation failed, or the socket was closed here.
Abort(b) ==
  /\ io[b] = "pending"
  /\ io' = [io EXCEPT ![b] = "zero"]
  /\ UNCHANGED <<tableVars, sock, heap, buf, thr>>

-----------------------------------------------------------------------------
(* The handlers, run by a worker that took the completion of buffer b.     *)

Completed(t, b, type) == At(t, "idle") /\ b \in heap /\ io[b] \in {"ok", "zero"} /\ buf[b].type = type

\* TcpAcceptBuffer::accept_socket: the unique pointer moves out of the buffer.
TakeAccepted(b) == buf' = [buf EXCEPT ![b].accept = None]

\* OnTcpAccept up to AddTcpSocket. The accepted socket leaves the buffer first; without
\* the listener it and the buffer are dropped.
OnTcpAccept(t, b) ==
  LET h == buf[b].handle IN
  /\ Completed(t, b, "accept")
  /\ IF table[h] = None
     THEN Drop(b)
     ELSE /\ thr' = [thr EXCEPT ![t] = [Idle EXCEPT !.pc = "add_index", !.h = h, !.s = table[h],
                                          !.a = buf[b].accept, !.b = b, !.ok = (io[b] = "ok")]]
          /\ TakeAccepted(b)
          /\ io' = [io EXCEPT ![b] = "none"]
          /\ UNCHANGED heap
  /\ UNCHANGED <<tableVars, sock>>

\* SetAccepted, then BindToIOCP; RemoveTcpSocket when either fails.
SetAccepted(t) ==
  LET me == thr[t] IN
  /\ At(t, "set_accepted")
  /\ \/ /\ me.ok
        /\ sock' = [sock EXCEPT ![me.a].bind = TRUE, ![me.a].connect = TRUE]
        /\ \/ Goto(t, "on_accepted")
           \/ thr' = [thr EXCEPT ![t].pc = "remove", ![t].rh = me.ah]
     \/ /\ UNCHANGED sock
        /\ thr' = [thr EXCEPT ![t].pc = "remove", ![t].rh = me.ah]
  /\ UNCHANGED <<tableVars, bufVars>>

\* The callback OnTcpAccepted(listen_handle, accept_handle).
OnTcpAccepted(t) ==
  /\ At(t, "on_accepted")
  /\ told' = told \cup {thr[t].ah}
  /\ Goto(t, "recv_new")
  /\ UNCHANGED <<table, indexes, issued, sock, bufVars>>

\* Mutant: the buffer is armed again with the socket it accepted before.
ResetKeeping(t) ==
  LET me == thr[t] IN
  /\ At(t, "reset") /\ CanAccept(me.s)
  /\ Submit(me.b, "accept", me.h, me.s, me.a)
  /\ Return(t)
  /\ UNCHANGED <<tableVars, sock>>

\* ResetBuffer and AsyncTcpAccept with the handler's own buffer: a new socket to accept
\* on. A failure returns the buffer, reports an error and removes the listener.
Reset(t) ==
  LET me == thr[t] IN
  /\ At(t, "reset")
  /\ \/ /\ AsyncTcpAccept(me.b, me.h, me.s)
        /\ Return(t)
     \/ /\ Delete(me.b)
        /\ thr' = [thr EXCEPT ![t].pc = "on_error", ![t].rh = me.h, ![t].b = None]
        /\ UNCHANGED sock
  /\ UNCHANGED tableVars

\* The callback OnTcpError(rh, error); RemoveTcpSocket follows.
OnTcpError(t) ==
  /\ At(t, "on_error")
  /\ Goto(t, "remove")
  /\ UNCHANGED <<tableVars, sock, bufVars>>

\* Mutant: a send buffer whose data went out is never returned.
OnTcpSendKept(t, b) ==
  /\ Completed(t, b, "send")
  /\ io' = [io EXCEPT ![b] = "none"]
  /\ UNCHANGED <<tableVars, sock, heap, buf, thr>>

OnTcpSend(t, b) ==
  /\ Completed(t, b, "send")
  /\ Delete(b)
  /\ UNCHANGED <<tableVars, sock, thr>>

\* OnTcpRecv: the buffer is returned at once when the socket is gone or the size is 0.
OnTcpRecv(t, b) ==
  LET h  == buf[b].handle
      me == [Idle EXCEPT !.h = h, !.s = table[h]]
  IN
  /\ Completed(t, b, "recv")
  /\ IF table[h] = None
     THEN Drop(b)
     ELSE IF io[b] = "zero"
     THEN /\ Delete(b)
          /\ thr' = [thr EXCEPT ![t] = [me EXCEPT !.pc = "on_disconnected", !.rh = h]]
     ELSE /\ thr' = [thr EXCEPT ![t] = [me EXCEPT !.pc = "parse", !.b = b]]
          /\ io' = [io EXCEPT ![b] = "none"]
          /\ UNCHANGED <<heap, buf>>
  /\ UNCHANGED <<tableVars, sock>>

\* The callback OnTcpDisconnected(recv_handle); RemoveTcpSocket follows.
OnTcpDisconnected(t) ==
  /\ At(t, "on_disconnected")
  /\ Goto(t, "remove")
  /\ UNCHANGED <<tableVars, sock, bufVars>>

\* Mutant: the buffer is armed again before the packets are given to the callback.
OnRecvEarly(t) ==
  /\ At(t, "parse")
  /\ AsyncTcpRecv(thr[t].b, thr[t].h, thr[t].s)
  /\ Goto(t, "on_received")
  /\ UNCHANGED <<tableVars, sock>>

\* Mutant: a bad head only returns the buffer.
OnRecvQuiet(t) ==
  /\ At(t, "parse")
  /\ \/ Goto(t, "on_received") /\ UNCHANGED bufVars
     \/ Delete(thr[t].b) /\ Return(t)
  /\ UNCHANGED <<tableVars, sock>>

\* TcpSocket::OnRecv over the buffer; a bad head returns the buffer and ends in OnTcpError.
OnRecv(t) ==
  LET me == thr[t] IN
  /\ At(t, "parse")
  /\ \/ Goto(t, "on_received") /\ UNCHANGED bufVars
     \/ Delete(me.b) /\ thr' = [thr EXCEPT ![t].pc = "on_error", ![t].rh = me.h, ![t].b = None]
  /\ UNCHANGED <<tableVars, sock>>

\* The callbacks OnTcpReceived, one for each packet.
OnTcpReceived(t) ==
  /\ At(t, "on_received")
  /\ Goto(t, "rearm")
  /\ UNCHANGED <<tableVars, sock, bufVars>>

\* ResetBuffer and AsyncTcpRecv with the same buffer, or OnTcpError.
Rearm(t) ==
  LET me == thr[t] IN
  /\ At(t, "rearm")
  /\ \/ AsyncTcpRecv(me.b, me.h, me.s) /\ Return(t)
     \/ Delete(me.b) /\ thr' = [thr EXCEPT ![t].pc = "on_error", ![t].rh = me.h, ![t].b = None]
  /\ UNCHANGED <<tableVars, sock>>

-----------------------------------------------------------------------------
Init ==
  /\ table = [h \in Handles |-> None]
  /\ indexes = {} /\ issued = {} /\ told = {}
  /\ sock = [s \in Sockets |-> NewSocket]
  /\ heap = {}
  /\ buf = [b \in Buffers |-> Blank]
  /\ io = [b \in Buffers |-> "none"]
  /\ thr = [t \in Threads |-> Idle]

Call(t) == \/ TcpCreate(t)
           \/ \E h \in told : TcpDestroy(t, h) \/ TcpListen(t, h) \/ TcpConnect(t, h) \/ TcpSend(t, h)

Handle(t) == \E b \in Buffers : OnTcpAccept(t, b) \/ OnTcpSend(t, b) \/ OnTcpRecv(t, b)

Step(t) == \/ AddIndex(t) \/ AddInsert(t) \/ RemoveErase(t) \/ RemoveIndex(t)
           \/ Listen(t) \/ ArmAccept(t) \/ Connect(t) \/ Send(t) \/ RecvNew(t)
           \/ SetAccepted(t) \/ OnTcpAccepted(t) \/ Reset(t) \/ OnTcpError(t)
           \/ OnTcpDisconnected(t) \/ OnRecv(t) \/ OnTcpReceived(t) \/ Rearm(t)

Kernel == \E b \in Buffers : Complete(b) \/ Abort(b)

Next == \/ \E t \in Users : Call(t)
        \/ \E t \in Workers : Handle(t)
        \/ \E t \in Threads : Step(t)
        \/ Kernel

Spec == Init /\ [][Next]_vars

\* Every thread runs on and callbacks return. The kernel aborts what is pending on a
\* closed socket, and the port is a queue: each completion is taken in its turn, although
\* the workers are busy again and again.
Fairness ==
  /\ \A t \in Threads : WF_vars(Step(t))
  /\ \A b \in Buffers : WF_vars(~Referenced(buf[b].sock) /\ Abort(b))
  /\ \A b \in Buffers :
       SF_vars(\E t \in Workers : OnTcpAccept(t, b) \/ OnTcpSend(t, b) \/ OnTcpRecv(t, b))

LiveSpec == Spec /\ Fairness

-----------------------------------------------------------------------------
(* Properties.                                                             *)

Maybe(S) == S \cup {None}

Flags      == [bind : BOOLEAN, listen : BOOLEAN, connect : BOOLEAN]
Operations == [type : Types, handle : Maybe(Handles), accept : Maybe(Sockets),
               sock : Maybe(Sockets)]
Locals     == [pc : PCs, h : Maybe(Handles), s : Maybe(Sockets), a : Maybe(Sockets),
               ah : Maybe(Handles), rh : Maybe(Handles), b : Maybe(Buffers),
               ok : BOOLEAN, k : 0 .. Backlog]

\* Every variable has its type, and a thread outside every call and handler holds nothing:
\* no shared pointer of a finished call keeps a socket open.
TypeOK ==
  /\ table \in [Handles -> Maybe(Sockets)]
  /\ indexes \subseteq issued /\ issued \subseteq Handles /\ told \subseteq issued
  /\ sock \in [Sockets -> Flags]
  /\ heap \subseteq Buffers
  /\ buf \in [Buffers -> Operations]
  /\ io \in [Buffers -> IoStates]
  /\ thr \in [Threads -> Locals]
  /\ \A t \in Threads : At(t, "idle") => thr[t] = Idle

\* Thread t answers for an index that no entry has: it is about to insert the entry, or it
\* erased the entry and is about to destroy the index.
Owns(t, h) == \/ At(t, "add_insert") /\ thr[t].ah = h
              \/ At(t, "destroy_index") /\ thr[t].rh = h

\* An index in use is an entry's or one thread's, never both and never two threads'. So
\* insert never meets an entry of another socket (AddTcpSocket ignores its result),
\* DestroyIndex never hits an index given to somebody else, and no index is lost.
IndexOwnership ==
  \A h \in Handles :
    /\ h \in indexes <=> table[h] # None \/ \E t \in Threads : Owns(t, h)
    /\ \A t \in Threads : Owns(t, h) => /\ table[h] = None
                                       /\ \A u \in Threads : Owns(u, h) => u = t

\* A buffer that was allocated is with the kernel or its port, or with one worker: none
\* leaks, and none is used by a handler while an operation writes into it.
BufferOwnership ==
  /\ \A b \in heap : io[b] = "none" <=> \E w \in Workers : thr[w].b = b
  /\ \A b \in Buffers \ heap : io[b] = "none" /\ \A w \in Workers : thr[w].b # b
  /\ \A v, w \in Workers : thr[v].b = thr[w].b => v = w \/ thr[v].b = None

\* A socket is registered under one handle at most, and the socket an accept buffer owns
\* is owned by nothing else: its unique pointer is never a second owner.
SocketOwnership ==
  /\ \A h1, h2 \in Handles : table[h1] = table[h2] => h1 = h2 \/ table[h1] = None
  /\ \A b \in heap : buf[b].accept # None =>
       /\ \A h \in Handles : table[h] # buf[b].accept
       /\ \A t \in Threads : buf[b].accept \notin {thr[t].s, thr[t].a}
       /\ \A b2 \in heap \ {b} : buf[b].accept # buf[b2].accept

\* A handler finds the socket its buffer's operation was started on, or none: what the
\* buffer and the locals call a handle still means the socket they mean by it.
HandleMeansOneSocket ==
  /\ \A b \in heap : io[b] # "none" =>
       buf[b].handle # None /\ table[buf[b].handle] \in {None, buf[b].sock}
  /\ \A t \in Threads :
       /\ thr[t].s # None => table[thr[t].h] \in {None, thr[t].s}
       /\ thr[t].ah # None => table[thr[t].ah] \in {None, thr[t].a}

\* The handler of a completed operation finds the socket the operation was started on, or
\* none: never a socket created since, which it would tell disconnected, feed with another
\* connection's bytes or remove. Refuted when the indexer gives a destroyed index again.
NoStrayCompletion ==
  [][\A t \in Workers, b \in Buffers :
       OnTcpAccept(t, b) \/ OnTcpRecv(t, b) => thr'[t].s \in {None, buf[b].sock}]_vars

\* The connection whose receive a thread is about to start, handles, or ends.
Serves(t) ==
  IF At(t, "set_accepted") \/ At(t, "on_accepted") \/ At(t, "recv_new")
     \/ (thr[t].rh # None /\ thr[t].rh = thr[t].ah)
  THEN thr[t].a
  ELSE IF At(t, "parse") \/ At(t, "on_received") \/ At(t, "rearm") \/ At(t, "on_disconnected")
          \/ (thr[t].rh # None /\ thr[t].rh = thr[t].h /\ ~sock[thr[t].s].listen)
  THEN thr[t].s
  ELSE None

Receives(s) == {b \in heap : buf[b].type = "recv" /\ io[b] # "none" /\ buf[b].sock = s}

\* Who may call back about connection s: a receive on its way, or a thread that serves it.
Readers(s) == Receives(s) \cup {t \in Threads : Serves(t) = s}

\* One connection has one receive or one handler at a time, so OnRecv (which takes no
\* lock) parses one chunk at a time in the order of the stream, its callbacks never
\* overlap, and OnTcpDisconnected or OnTcpError is the last of them.
CallbacksSerial == \A s \in Sockets : \A r, q \in Readers(s) : r = q

\* The connection a thread is calling back about. on_error is also about a listener, which
\* is no connection.
Calling(t) ==
  IF At(t, "on_accepted") \/ (At(t, "on_error") /\ thr[t].rh = thr[t].ah)
  THEN thr[t].a
  ELSE IF At(t, "on_received") \/ At(t, "on_disconnected")
          \/ (At(t, "on_error") /\ ~sock[thr[t].s].listen)
  THEN thr[t].s
  ELSE None

\* A connection is open while it has a reader whose last callback is still to come.
Open == {s \in Sockets : \/ Receives(s) # {}
                         \/ \E t \in Threads : /\ Serves(t) = s
                                              /\ ~At(t, "remove") /\ ~At(t, "destroy_index")}

C == INSTANCE Connections
       WITH open <- Open,
            calling <- [t \in Threads |-> Calling(t)]

\* Every interleaving of users and workers keeps the promise of Connections: a connection's
\* callbacks never overlap, and nothing is called back after OnTcpDisconnected or OnTcpError.
ImplementsConnections == C!Spec

\* A connection in the table is never deaf: a receive is on its way, or a thread is about
\* to start one or to take the connection out. Stated where nobody calls TcpConnect, which
\* leaves a connected socket without a receive when it fails after connect.
NeverDeaf ==
  \A h \in Handles : table[h] # None /\ sock[table[h]].connect => Readers(table[h]) # {}

\* The accepts of listener s: with the kernel, in the port, or with a worker.
AcceptSlots(s) == {b \in heap : buf[b].type = "accept" /\ buf[b].sock = s /\ io[b] # "none"}
                    \cup {w \in Workers : thr[w].s = s /\ sock[s].listen /\ thr[w].b # None}

\* A listener never loses one of its accepts for good while it stays in the table: the
\* handler arms the buffer again, whatever became of the accepted socket, or it takes the
\* listener out.
AcceptSlotsKept ==
  [][\A h \in Handles :
       LET s == table[h] IN
       s # None /\ table'[h] = s /\ sock[s].listen =>
         \/ Cardinality(AcceptSlots(s)') >= Cardinality(AcceptSlots(s))
         \/ \E w \in Workers : At(w, "on_error")' /\ thr'[w].rh = h
    ]_vars

\* What was pending on a closed socket is given back: the kernel aborts it and the handler,
\* which does not find the handle any more, returns the buffer.
ClosedSocketsDrain ==
  \A b \in Buffers : b \in heap /\ ~Referenced(buf[b].sock) ~> b \notin heap
=============================================================================
