---------------------------- MODULE UdpResources ----------------------------
(***************************************************************************)
(* The UDP half of NetResMgr (src/common/net_res_mgr.cpp) between          *)
(* StartupNet and CleanupNet, cut into steps as TcpResources is. A UDP     *)
(* socket has several receives at once, and OnUdpRecv tests the result of  *)
(* GetUdpSocket the wrong way round (line 517): it returns when there is a *)
(* socket and uses the null pointer when there is none, which ends the     *)
(* process (crashed). What follows that use is never reached.              *)
(***************************************************************************)
EXTENDS Integers, FiniteSets

CONSTANTS Users,        \* threads that call the interface
          Handles,      \* bound: the indexes the indexer can give
          Sockets,      \* bound: socket objects alive at once
          Buffers,      \* bound: buffers alive at once
          RecvCount,    \* GetProcessorNum(): receives for each socket
          None          \* nullptr, or no handle

ASSUME ConstantsOK == /\ None \notin Handles \cup Sockets \cup Buffers
                      /\ RecvCount \in Nat \ {0}

VARIABLES table,        \* udp_sockets_
          indexes,      \* the indexer: indexes in use
          told,         \* handles the application was given
          heap,         \* the buffers allocated
          buf,          \* what a buffer holds
          io,           \* where a buffer's overlapped operation is
          thr,          \* the locals of each user's call
          crashed       \* the process ended in a null pointer

bufVars == <<heap, buf, io>>
vars    == <<table, indexes, told, heap, buf, io, thr, crashed>>

Blank == [type |-> "send", handle |-> None, sock |-> None]
Idle  == [pc |-> "idle", h |-> None, s |-> None, k |-> 0]
PCs   == {"idle", "add_index", "add_insert", "arm", "send", "remove", "destroy_index"}

At(t, pc)   == thr[t].pc = pc
Goto(t, pc) == thr' = [thr EXCEPT ![t].pc = pc]

\* Mutant: the socket's reference is kept after the call.
ReturnHolding(t) == thr' = [thr EXCEPT ![t] = [Idle EXCEPT !.s = thr[t].s]]

Return(t) == thr' = [thr EXCEPT ![t] = Idle]

\* A socket object exists while a shared pointer refers to it.
Referenced(s) == (\E h \in Handles : table[h] = s) \/ (\E t \in Users : thr[t].s = s)

FreeSockets == {s \in Sockets : ~Referenced(s) /\ \A b \in heap : buf[b].sock # s}

\* Winsock takes the operation of buffer b.
Submit(b, type, h, s) ==
  /\ heap' = heap \cup {b}
  /\ buf' = [buf EXCEPT ![b] = [type |-> type, handle |-> h, sock |-> s]]
  /\ io' = [io EXCEPT ![b] = "pending"]

\* ReturnUdpSendBuffer, ReturnUdpRecvBuffer.
Delete(b) ==
  /\ heap' = heap \ {b}
  /\ buf' = [buf EXCEPT ![b] = Blank]
  /\ io' = [io EXCEPT ![b] = "none"]

-----------------------------------------------------------------------------
(* The interface.                                                          *)

\* UdpCreate up to AddUdpSocket.
UdpCreate(t) ==
  /\ At(t, "idle")
  /\ \E s \in FreeSockets : thr' = [thr EXCEPT ![t].pc = "add_index", ![t].s = s]
  /\ UNCHANGED <<table, indexes, told, bufVars>>

\* AddUdpSocket: CreateIndex, and without an index the socket is dropped.
AddIndex(t) ==
  /\ At(t, "add_index")
  /\ IF Handles \ indexes = {}
     THEN UNCHANGED indexes /\ Return(t)
     ELSE \E i \in Handles \ indexes :
            /\ indexes' = indexes \cup {i}
            /\ thr' = [thr EXCEPT ![t].pc = "add_insert", ![t].h = i]
  /\ UNCHANGED <<table, told, bufVars>>

\* AddUdpSocket: insert, which leaves an existing entry as it is.
AddInsert(t) ==
  LET h == thr[t].h IN
  /\ At(t, "add_insert")
  /\ table' = IF table[h] = None THEN [table EXCEPT ![h] = thr[t].s] ELSE table
  /\ Goto(t, "arm")
  /\ UNCHANGED <<indexes, told, bufVars>>

\* Mutant: one receive too many.
ArmedAllLate(k) == k > RecvCount

ArmedAll(k) == k = RecvCount

\* UdpCreate returns: the caller has the handle, whether it returns true or false.
Tell(t) == told' = told \cup {thr[t].h} /\ Return(t)

\* One turn of UdpCreate's loop. A failure ends UdpCreate and leaves the socket where it is.
ArmRecv(t) ==
  LET me == thr[t] IN
  /\ At(t, "arm")
  /\ \/ /\ \E b \in Buffers \ heap : Submit(b, "recv", me.h, me.s)
        /\ IF ArmedAll(me.k + 1)
           THEN Tell(t)
           ELSE thr' = [thr EXCEPT ![t].k = @ + 1] /\ UNCHANGED told
     \/ Tell(t) /\ UNCHANGED bufVars
  /\ UNCHANGED <<table, indexes>>

UdpDestroy(t, h) ==
  /\ At(t, "idle")
  /\ thr' = [thr EXCEPT ![t].pc = "remove", ![t].h = h]
  /\ UNCHANGED <<table, indexes, told, bufVars>>

\* Mutant: the index is given back before the entry is erased.
RemoveEraseLast(t) ==
  /\ At(t, "remove")
  /\ indexes' = indexes \ {thr[t].h}
  /\ Goto(t, "destroy_index")
  /\ UNCHANGED <<table, told, bufVars>>

\* RemoveUdpSocket: find and erase, under the lock.
RemoveErase(t) ==
  LET h == thr[t].h IN
  /\ At(t, "remove")
  /\ IF table[h] # None
     THEN table' = [table EXCEPT ![h] = None] /\ Goto(t, "destroy_index")
     ELSE UNCHANGED table /\ Return(t)
  /\ UNCHANGED <<indexes, told, bufVars>>

\* RemoveUdpSocket: DestroyIndex, after the lock is released.
RemoveIndex(t) ==
  /\ At(t, "destroy_index")
  /\ indexes' = indexes \ {thr[t].h}
  /\ Return(t)
  /\ UNCHANGED <<table, told, bufVars>>

\* UdpSendTo finds the socket.
UdpSendTo(t, h) ==
  /\ At(t, "idle")
  /\ table[h] # None
  /\ thr' = [thr EXCEPT ![t].pc = "send", ![t].h = h, ![t].s = table[h]]
  /\ UNCHANGED <<table, indexes, told, bufVars>>

\* WSASendTo takes the buffer, or it is returned.
AsyncSendTo(t) ==
  /\ At(t, "send")
  /\ (\E b \in Buffers \ heap : Submit(b, "send", thr[t].h, thr[t].s)) \/ UNCHANGED bufVars
  /\ Return(t)
  /\ UNCHANGED <<table, indexes, told>>

-----------------------------------------------------------------------------
(* The kernel and the handlers.                                            *)

\* A datagram came or went, the operation failed, or the socket was closed.
Complete(b) ==
  /\ io[b] = "pending"
  /\ io' = [io EXCEPT ![b] = "done"]
  /\ UNCHANGED <<table, indexes, told, heap, buf, thr>>

\* Some worker takes the completion: TransferAsyncType tells by the type. A handler has
\* one step that other threads can see, so a worker needs no locals.
Completed(b, type) == io[b] = "done" /\ buf[b].type = type

\* Mutant: a send whose socket is gone is forgotten.
OnUdpSendLost(b) ==
  /\ Completed(b, "send")
  /\ IF table[buf[b].handle] # None
     THEN Delete(b)
     ELSE io' = [io EXCEPT ![b] = "none"] /\ UNCHANGED <<heap, buf>>
  /\ UNCHANGED <<table, indexes, told, thr, crashed>>

\* A send is given back however it ended.
OnUdpSend(b) ==
  /\ Completed(b, "send")
  /\ Delete(b)
  /\ UNCHANGED <<table, indexes, told, thr, crashed>>

\* With a socket the buffer is returned; without one recv_socket->callback() is called on
\* a null pointer. So OnUdpReceived is never called, and no receive is armed again.
OnUdpRecv(b) ==
  /\ Completed(b, "recv")
  /\ IF table[buf[b].handle] # None
     THEN Delete(b) /\ UNCHANGED crashed
     ELSE crashed' = TRUE /\ UNCHANGED bufVars
  /\ UNCHANGED <<table, indexes, told, thr>>

-----------------------------------------------------------------------------
Init ==
  /\ table = [h \in Handles |-> None]
  /\ indexes = {} /\ told = {} /\ heap = {}
  /\ buf = [b \in Buffers |-> Blank]
  /\ io = [b \in Buffers |-> "none"]
  /\ thr = [t \in Users |-> Idle]
  /\ crashed = FALSE

User(t) == \/ UdpCreate(t) \/ AddIndex(t) \/ AddInsert(t) \/ ArmRecv(t)
           \/ \E h \in told : UdpDestroy(t, h) \/ UdpSendTo(t, h)
           \/ RemoveErase(t) \/ RemoveIndex(t) \/ AsyncSendTo(t)

Handle(b) == OnUdpSend(b) \/ OnUdpRecv(b)

Next == /\ ~crashed
        /\ \/ \E t \in Users : User(t) /\ UNCHANGED crashed
           \/ \E b \in Buffers : Complete(b) /\ UNCHANGED crashed
           \/ \E b \in Buffers : Handle(b)

Spec == Init /\ [][Next]_vars

\* A send ends by itself and what is pending on a closed socket is aborted, and the workers
\* take every completion from the port, as long as the process runs.
Fairness ==
  \A b \in Buffers :
    WF_vars(/\ ~crashed
            /\ \/ /\ buf[b].type = "send" \/ ~Referenced(buf[b].sock)
                  /\ Complete(b)
                  /\ UNCHANGED crashed
               \/ Handle(b))

LiveSpec == Spec /\ Fairness

-----------------------------------------------------------------------------
Operations == [type : {"send", "recv"}, handle : Handles \cup {None}, sock : Sockets \cup {None}]
Locals     == [pc : PCs, h : Handles \cup {None}, s : Sockets \cup {None}, k : 0 .. RecvCount]

\* Types; a user between calls holds nothing.
TypeOK ==
  /\ table \in [Handles -> Sockets \cup {None}]
  /\ indexes \subseteq Handles /\ told \subseteq Handles
  /\ heap \subseteq Buffers
  /\ buf \in [Buffers -> Operations]
  /\ io \in [Buffers -> {"none", "pending", "done"}]
  /\ thr \in [Users -> Locals]
  /\ \A t \in Users : At(t, "idle") => thr[t] = Idle
  /\ crashed \in BOOLEAN

\* Thread t answers for an index that no entry has: it is about to insert the entry, or it
\* erased the entry and has to destroy the index.
Owns(t, h) == thr[t].pc \in {"add_insert", "destroy_index"} /\ thr[t].h = h

\* An index in use is an entry's or one thread's, never both and never two threads':
\* AddUdpSocket's insert never meets an entry, and RemoveUdpSocket never destroys an index
\* that was given to another socket since.
IndexOwnership ==
  \A h \in Handles :
    /\ h \in indexes <=> table[h] # None \/ \E t \in Users : Owns(t, h)
    /\ \A t \in Users : Owns(t, h) => /\ table[h] = None
                                     /\ \A u \in Users : Owns(u, h) => u = t

Receives(s) == {b \in heap : buf[b].type = "recv" /\ buf[b].sock = s}

\* The receives on their way for one socket are at most those UdpCreate starts: what it
\* has started so far while it runs, the number of processors afterwards.
ReceivesBounded ==
  \A s \in Sockets :
    /\ Cardinality(Receives(s)) <= RecvCount
    /\ \A t \in Users : At(t, "arm") /\ thr[t].s = s => Cardinality(Receives(s)) <= thr[t].k

\* No handler uses the null pointer GetUdpSocket returns for a handle it cannot find. The
\* inverted test of OnUdpRecv refutes it as soon as a receive outlives its socket.
NoNullSocket == ~crashed

\* Every send, and every operation that outlives its socket, is given back in the end,
\* whether the handler finds the socket, none, or one that has the index since; unless the
\* process ends first, as it does when a receive finds none.
BuffersDrain ==
  \A b \in Buffers :
    b \in heap /\ (buf[b].type = "send" \/ ~Referenced(buf[b].sock)) ~> b \notin heap \/ crashed
=============================================================================
