------------------------ MODULE TcpResources_proofs ------------------------
(***************************************************************************)
(* Proofs about TcpResources, for every set of threads, indexes, sockets   *)
(* and buffers, every backlog, whatever the indexer gives again.           *)
(***************************************************************************)
EXTENDS TcpResources, TLAPS

UserPCs   == {"idle", "add_index", "add_insert", "remove", "destroy_index", "listen", "arm",
              "connect", "send", "recv_new"}
WorkerPCs == PCs \ {"listen", "arm", "connect", "send"}

\* What the locals of a thread are at each point of a call or handler.
LocalsOK(t) ==
  /\ IF t \in Users THEN thr[t].pc \in UserPCs /\ thr[t].b = None ELSE thr[t].pc \in WorkerPCs
  /\ thr[t].pc \in {"add_index", "add_insert", "set_accepted", "on_accepted", "recv_new"}
       => thr[t].a \in Sockets
  /\ thr[t].pc \in {"add_insert", "set_accepted", "on_accepted", "recv_new"}
       => thr[t].ah \in Handles
  /\ thr[t].pc \in {"listen", "arm", "connect", "send", "reset", "parse", "on_received", "rearm",
                    "on_disconnected", "on_error"}
       => thr[t].h \in Handles /\ thr[t].s \in Sockets
  /\ thr[t].pc \in {"on_error", "on_disconnected", "remove", "destroy_index"}
       => thr[t].rh \in Handles
  /\ At(t, "listen") \/ At(t, "arm") => thr[t].k < Backlog
  /\ thr[t].b # None => thr[t].h \in Handles /\ thr[t].s \in Sockets
  /\ t \in Workers /\ thr[t].pc \in {"add_index", "add_insert", "set_accepted", "on_accepted",
                                     "recv_new", "reset", "parse", "on_received", "rearm"}
       => thr[t].b \in Buffers
  /\ thr[t].pc \in {"idle", "on_disconnected"} => thr[t].b = None

LocalsInv == \A t \in Threads : LocalsOK(t)

\* The handles that are in use anywhere were given by the indexer.
IssuedInv ==
  /\ \A t \in Threads : thr[t].h \in Maybe(issued) /\ thr[t].ah \in Maybe(issued)
                          /\ thr[t].rh \in Maybe(issued)
  /\ \A b \in heap : buf[b].handle \in Maybe(issued)
  /\ \A h \in Handles : table[h] # None => h \in issued

\* A socket that is still to be inserted is known to the thread that inserts it alone, and
\* a buffer whose accept is on its way has the socket to accept on.
FreshInv ==
  /\ \A t \in Threads : At(t, "add_index") \/ At(t, "add_insert") =>
       /\ \A h \in Handles : table[h] # thr[t].a
       /\ \A u \in Threads : thr[u].s # thr[t].a /\ (u # t => thr[u].a # thr[t].a)
       /\ \A b \in heap : buf[b].accept # thr[t].a
  /\ \A b \in heap : io[b] # "none" => /\ buf[b].handle \in Handles /\ buf[b].sock \in Sockets
                                       /\ buf[b].type = "accept" => buf[b].accept \in Sockets

IInv == TypeOK /\ LocalsInv /\ IssuedInv /\ IndexOwnership /\ BufferOwnership /\ FreshInv /\ SocketOwnership

-----------------------------------------------------------------------------
(* What each action does to the locals of its thread.                      *)

Moved(t, pc, h, s, a, ah, rh, b, k) ==
  /\ thr' \in [Threads -> Locals]
  /\ thr'[t].pc = pc /\ thr'[t].h = h /\ thr'[t].s = s /\ thr'[t].a = a
  /\ thr'[t].ah = ah /\ thr'[t].rh = rh /\ thr'[t].b = b /\ thr'[t].k = k
  /\ pc = "idle" => thr'[t] = Idle
  /\ \A u \in Threads : u # t => thr'[u] = thr[u]

LEMMA ConstantTypes ==
  /\ Blank \in Operations /\ Idle \in Locals /\ NewSocket \in Flags
  /\ NewSocket.listen = FALSE /\ NewSocket.connect = FALSE
BY ConstantsOK DEF Blank, Operations, Types, Idle, Locals, PCs, NewSocket, Flags, Maybe

LEMMA FieldTypes ==
  ASSUME TypeOK, NEW t \in Threads
  PROVE  /\ thr[t] \in Locals /\ thr[t].pc \in PCs
         /\ thr[t].h \in Maybe(Handles) /\ thr[t].s \in Maybe(Sockets)
         /\ thr[t].a \in Maybe(Sockets) /\ thr[t].ah \in Maybe(Handles)
         /\ thr[t].rh \in Maybe(Handles) /\ thr[t].b \in Maybe(Buffers)
         /\ thr[t].ok \in BOOLEAN /\ thr[t].k \in 0 .. Backlog
BY DEF TypeOK, Locals

\* The locals become r.
LEMMA MoveTo ==
  ASSUME TypeOK, NEW t \in Threads, NEW r \in Locals, thr' = [thr EXCEPT ![t] = r],
         r.pc = "idle" => r = Idle
  PROVE  Moved(t, r.pc, r.h, r.s, r.a, r.ah, r.rh, r.b, r.k)
BY DEF TypeOK, Moved

LEMMA ReturnMoves ==
  ASSUME TypeOK, NEW t \in Threads, Return(t)
  PROVE  Moved(t, "idle", None, None, None, None, None, None, 0)
<1>1. Idle \in Locals
  BY ConstantTypes
<1> QED
  BY <1>1, MoveTo DEF Return, Idle

LEMMA GotoMoves ==
  ASSUME TypeOK, NEW t \in Threads, NEW pc \in PCs \ {"idle"}, Goto(t, pc)
  PROVE  Moved(t, pc, thr[t].h, thr[t].s, thr[t].a, thr[t].ah, thr[t].rh, thr[t].b, thr[t].k)
<1> DEFINE r == [thr[t] EXCEPT !.pc = pc]
<1>1. thr' = [thr EXCEPT ![t] = r]
  BY DEF Goto
<1>2. /\ r \in Locals /\ r.pc = pc /\ r.h = thr[t].h /\ r.s = thr[t].s /\ r.a = thr[t].a
      /\ r.ah = thr[t].ah /\ r.rh = thr[t].rh /\ r.b = thr[t].b /\ r.k = thr[t].k
  BY FieldTypes DEF Locals
<1> HIDE DEF r
<1> QED
  BY <1>1, <1>2, MoveTo

\* AddIndex takes index i.
LEMMA IndexMoves ==
  ASSUME TypeOK, NEW t \in Threads, NEW i \in Handles,
         thr' = [thr EXCEPT ![t].pc = "add_insert", ![t].ah = i]
  PROVE  Moved(t, "add_insert", thr[t].h, thr[t].s, thr[t].a, i, thr[t].rh, thr[t].b, thr[t].k)
<1> DEFINE r == [thr[t] EXCEPT !.pc = "add_insert", !.ah = i]
<1>1. thr' = [thr EXCEPT ![t] = r]
  BY DEF TypeOK
<1>2. /\ r \in Locals /\ r.pc = "add_insert" /\ r.h = thr[t].h /\ r.s = thr[t].s
      /\ r.a = thr[t].a /\ r.ah = i /\ r.rh = thr[t].rh
      /\ r.b = thr[t].b /\ r.k = thr[t].k
  BY FieldTypes DEF Locals, Maybe, PCs
<1> HIDE DEF r
<1> QED
  BY <1>1, <1>2, MoveTo

\* TcpCreate made socket x.
LEMMA CreateMoves ==
  ASSUME TypeOK, NEW t \in Threads, NEW x \in Sockets,
         thr' = [thr EXCEPT ![t].pc = "add_index", ![t].a = x]
  PROVE  Moved(t, "add_index", thr[t].h, thr[t].s, x, thr[t].ah, thr[t].rh, thr[t].b, thr[t].k)
<1> DEFINE r == [thr[t] EXCEPT !.pc = "add_index", !.a = x]
<1>1. thr' = [thr EXCEPT ![t] = r]
  BY DEF TypeOK
<1>2. /\ r \in Locals /\ r.pc = "add_index" /\ r.h = thr[t].h /\ r.s = thr[t].s
      /\ r.a = x /\ r.ah = thr[t].ah /\ r.rh = thr[t].rh
      /\ r.b = thr[t].b /\ r.k = thr[t].k
  BY FieldTypes DEF Locals, Maybe, PCs
<1> HIDE DEF r
<1> QED
  BY <1>1, <1>2, MoveTo

\* TcpDestroy and SetAccepted go on with RemoveTcpSocket, the handlers with OnTcpError.
LEMMA DestroyMoves ==
  ASSUME TypeOK, NEW t \in Threads, NEW pc \in PCs \ {"idle"}, NEW x \in Maybe(Handles),
         thr' = [thr EXCEPT ![t].pc = pc, ![t].rh = x]
  PROVE  Moved(t, pc, thr[t].h, thr[t].s, thr[t].a, thr[t].ah, x, thr[t].b, thr[t].k)
<1> DEFINE r == [thr[t] EXCEPT !.pc = pc, !.rh = x]
<1>1. thr' = [thr EXCEPT ![t] = r]
  BY DEF TypeOK
<1>2. /\ r \in Locals /\ r.pc = pc /\ r.h = thr[t].h /\ r.s = thr[t].s
      /\ r.a = thr[t].a /\ r.ah = thr[t].ah /\ r.rh = x
      /\ r.b = thr[t].b /\ r.k = thr[t].k
  BY FieldTypes DEF Locals, Maybe, PCs
<1> HIDE DEF r
<1> QED
  BY <1>1, <1>2, MoveTo

\* GetTcpSocket found socket x for handle y.
LEMMA FindMoves ==
  ASSUME TypeOK, NEW t \in Threads, NEW pc \in PCs \ {"idle"}, NEW y \in Handles, NEW x \in Sockets,
         thr' = [thr EXCEPT ![t].pc = pc, ![t].h = y, ![t].s = x]
  PROVE  Moved(t, pc, y, x, thr[t].a, thr[t].ah, thr[t].rh, thr[t].b, thr[t].k)
<1> DEFINE r == [thr[t] EXCEPT !.pc = pc, !.h = y, !.s = x]
<1>1. thr' = [thr EXCEPT ![t] = r]
  BY DEF TypeOK
<1>2. /\ r \in Locals /\ r.pc = pc /\ r.h = y /\ r.s = x
      /\ r.a = thr[t].a /\ r.ah = thr[t].ah /\ r.rh = thr[t].rh
      /\ r.b = thr[t].b /\ r.k = thr[t].k
  BY FieldTypes DEF Locals, Maybe, PCs
<1> HIDE DEF r
<1> QED
  BY <1>1, <1>2, MoveTo

\* TcpConnect goes on with the first receive.
LEMMA ConnectMoves ==
  ASSUME TypeOK, NEW t \in Threads,
         thr' = [thr EXCEPT ![t].pc = "recv_new", ![t].a = thr[t].s, ![t].ah = thr[t].h]
  PROVE  Moved(t, "recv_new", thr[t].h, thr[t].s, thr[t].s, thr[t].h, thr[t].rh, thr[t].b, thr[t].k)
<1> DEFINE r == [thr[t] EXCEPT !.pc = "recv_new", !.a = thr[t].s, !.ah = thr[t].h]
<1>1. thr' = [thr EXCEPT ![t] = r]
  BY DEF TypeOK
<1>2. /\ r \in Locals /\ r.pc = "recv_new" /\ r.h = thr[t].h /\ r.s = thr[t].s
      /\ r.a = thr[t].s /\ r.ah = thr[t].h /\ r.rh = thr[t].rh
      /\ r.b = thr[t].b /\ r.k = thr[t].k
  BY FieldTypes DEF Locals, Maybe, PCs
<1> HIDE DEF r
<1> QED
  BY <1>1, <1>2, MoveTo

\* A handler returned its buffer and reports an error.
LEMMA ErrorMoves ==
  ASSUME TypeOK, NEW t \in Threads, NEW x \in Maybe(Handles),
         thr' = [thr EXCEPT ![t].pc = "on_error", ![t].rh = x, ![t].b = None]
  PROVE  Moved(t, "on_error", thr[t].h, thr[t].s, thr[t].a, thr[t].ah, x, None, thr[t].k)
<1> DEFINE r == [thr[t] EXCEPT !.pc = "on_error", !.rh = x, !.b = None]
<1>1. thr' = [thr EXCEPT ![t] = r]
  BY DEF TypeOK
<1>2. /\ r \in Locals /\ r.pc = "on_error" /\ r.h = thr[t].h /\ r.s = thr[t].s
      /\ r.a = thr[t].a /\ r.ah = thr[t].ah /\ r.rh = x
      /\ r.b = None /\ r.k = thr[t].k
  BY FieldTypes DEF Locals, Maybe, PCs
<1> HIDE DEF r
<1> QED
  BY <1>1, <1>2, MoveTo

LEMMA IdleFields ==
  /\ Idle.pc = "idle" /\ Idle.h = None /\ Idle.s = None /\ Idle.a = None /\ Idle.ah = None
  /\ Idle.rh = None /\ Idle.b = None /\ Idle.k = 0
BY DEF Idle

\* OnTcpAccept found the listener x and moved socket y out of its buffer.
LEMMA AcceptMoves ==
  ASSUME TypeOK, NEW t \in Threads, NEW g \in Handles, NEW x \in Sockets, NEW y \in Maybe(Sockets),
         NEW b \in Buffers, NEW ok \in BOOLEAN,
         thr' = [thr EXCEPT ![t] = [Idle EXCEPT !.pc = "add_index", !.h = g, !.s = x,
                                      !.a = y, !.b = b, !.ok = ok]]
  PROVE  Moved(t, "add_index", g, x, y, None, None, b, 0)
<1> DEFINE r == [Idle EXCEPT !.pc = "add_index", !.h = g, !.s = x, !.a = y, !.b = b, !.ok = ok]
<1>1. /\ r \in Locals /\ r.pc = "add_index" /\ r.h = g /\ r.s = x /\ r.a = y
      /\ r.ah = None /\ r.rh = None /\ r.b = b /\ r.k = 0
  BY ConstantTypes, IdleFields DEF Locals, Maybe, PCs
<1>2. thr' = [thr EXCEPT ![t] = r]
  OBVIOUS
<1> HIDE DEF r
<1>3. Moved(t, r.pc, r.h, r.s, r.a, r.ah, r.rh, r.b, r.k)
  BY <1>1, <1>2, MoveTo, Zenon
<1> QED
  BY <1>1, <1>3

\* OnTcpRecv found the connection x closed.
LEMMA CloseMoves ==
  ASSUME TypeOK, NEW t \in Threads, NEW g \in Handles, NEW x \in Sockets,
         thr' = [thr EXCEPT ![t] = [[Idle EXCEPT !.h = g, !.s = x]
                                      EXCEPT !.pc = "on_disconnected", !.rh = g]]
  PROVE  Moved(t, "on_disconnected", g, x, None, None, g, None, 0)
<1> DEFINE me == [Idle EXCEPT !.h = g, !.s = x]
           r  == [me EXCEPT !.pc = "on_disconnected", !.rh = g]
<1>1. /\ me \in Locals /\ me.h = g /\ me.s = x /\ me.a = None
      /\ me.ah = None /\ me.b = None /\ me.k = 0
  BY ConstantTypes, IdleFields DEF Locals, Maybe
<1>2. thr' = [thr EXCEPT ![t] = r]
  OBVIOUS
<1> HIDE DEF me
<1>3. /\ r \in Locals /\ r.pc = "on_disconnected" /\ r.h = g /\ r.s = x /\ r.a = None
      /\ r.ah = None /\ r.rh = g /\ r.b = None /\ r.k = 0
  BY <1>1 DEF Locals, Maybe, PCs
<1> HIDE DEF r
<1> QED
  BY <1>2, <1>3, MoveTo

\* OnTcpRecv has a chunk for the connection x in buffer b.
LEMMA ParseMoves ==
  ASSUME TypeOK, NEW t \in Threads, NEW g \in Handles, NEW x \in Sockets, NEW b \in Buffers,
         thr' = [thr EXCEPT ![t] = [[Idle EXCEPT !.h = g, !.s = x] EXCEPT !.pc = "parse", !.b = b]]
  PROVE  Moved(t, "parse", g, x, None, None, None, b, 0)
<1> DEFINE me == [Idle EXCEPT !.h = g, !.s = x]
           r  == [me EXCEPT !.pc = "parse", !.b = b]
<1>1. /\ me \in Locals /\ me.h = g /\ me.s = x /\ me.a = None
      /\ me.ah = None /\ me.rh = None /\ me.k = 0
  BY ConstantTypes, IdleFields DEF Locals, Maybe
<1>2. thr' = [thr EXCEPT ![t] = r]
  OBVIOUS
<1> HIDE DEF me
<1>3. /\ r \in Locals /\ r.pc = "parse" /\ r.h = g /\ r.s = x /\ r.a = None
      /\ r.ah = None /\ r.rh = None /\ r.b = b /\ r.k = 0
  BY <1>1 DEF Locals, Maybe, PCs
<1> HIDE DEF r
<1> QED
  BY <1>2, <1>3, MoveTo

\* What follows RemoveTcpSocket.
LEMMA AfterRemoveMoves ==
  ASSUME TypeOK, NEW t \in Threads, AfterRemove(t)
  PROVE  \/ /\ thr[t].b # None
            /\ Moved(t, "reset", thr[t].h, thr[t].s, thr[t].a, thr[t].ah, None, thr[t].b, thr[t].k)
         \/ thr[t].b = None /\ Moved(t, "idle", None, None, None, None, None, None, 0)
BY ReturnMoves, DestroyMoves DEF AfterRemove, PCs, Maybe

-----------------------------------------------------------------------------
(* Types and locals.                                                       *)

TableTypeOK ==
  /\ table \in [Handles -> Maybe(Sockets)]
  /\ indexes \subseteq issued /\ issued \subseteq Handles /\ told \subseteq issued

BufferTypeOK ==
  /\ heap \subseteq Buffers
  /\ buf \in [Buffers -> Operations]
  /\ io \in [Buffers -> IoStates]

ThreadTypeOK == LocalsInv /\ thr \in [Threads -> Locals]
                  /\ \A t \in Threads : At(t, "idle") => thr[t] = Idle

TypesOK == TableTypeOK /\ sock \in [Sockets -> Flags] /\ BufferTypeOK /\ ThreadTypeOK

LEMMA TypesParts == TypesOK <=> TypeOK /\ LocalsInv
BY DEF TypesOK, TypeOK, TableTypeOK, BufferTypeOK, ThreadTypeOK

\* The buffers after any of the calls that change them.
LEMMA BufferTypes ==
  ASSUME TypeOK, NEW b \in Buffers
  PROVE  /\ \A type \in Types, h \in Maybe(Handles), s \in Maybe(Sockets), a \in Maybe(Sockets) :
              Submit(b, type, h, s, a) => BufferTypeOK'
         /\ Delete(b) => BufferTypeOK'
         /\ TakeAccepted(b) /\ io' = [io EXCEPT ![b] = "none"] /\ UNCHANGED heap => BufferTypeOK'
         /\ UNCHANGED bufVars => BufferTypeOK'
<1>1. ASSUME NEW type \in Types, NEW h \in Maybe(Handles), NEW s \in Maybe(Sockets),
             NEW a \in Maybe(Sockets), Submit(b, type, h, s, a)
      PROVE  BufferTypeOK'
  <2>1. [type |-> type, handle |-> h, accept |-> a, sock |-> s] \in Operations
    BY DEF Operations
  <2> QED
    BY <1>1, <2>1 DEF TypeOK, Submit, BufferTypeOK, IoStates
<1>2. ASSUME Delete(b) PROVE BufferTypeOK'
  BY <1>2, ConstantTypes DEF TypeOK, Delete, BufferTypeOK, IoStates
<1>3. ASSUME TakeAccepted(b), io' = [io EXCEPT ![b] = "none"], UNCHANGED heap PROVE BufferTypeOK'
  <2>1. [buf[b] EXCEPT !.accept = None] \in Operations
    BY DEF TypeOK, Operations, Maybe
  <2>2. buf' = [buf EXCEPT ![b] = [buf[b] EXCEPT !.accept = None]]
    BY <1>3 DEF TakeAccepted
  <2> QED
    BY <1>3, <2>1, <2>2 DEF TypeOK, BufferTypeOK, IoStates
<1>4. UNCHANGED bufVars => BufferTypeOK'
  BY DEF TypeOK, BufferTypeOK, bufVars
<1> QED
  BY <1>1, <1>2, <1>3, <1>4

\* A thread that moved to a point where its locals are in order leaves all threads so.
LEMMA MovedTypes ==
  ASSUME TypeOK, LocalsInv, NEW t \in Threads, NEW pc, NEW h, NEW s, NEW a, NEW ah, NEW rh,
         NEW b, NEW k, Moved(t, pc, h, s, a, ah, rh, b, k), LocalsOK(t)'
  PROVE  ThreadTypeOK'
<1>1. LocalsInv'
  BY DEF LocalsInv, LocalsOK, Moved, At
<1>2. \A u \in Threads : At(u, "idle")' => thr'[u] = Idle
  BY DEF TypeOK, Moved, At
<1> QED
  BY <1>1, <1>2 DEF ThreadTypeOK, Moved

LEMMA TableTypes ==
  ASSUME TypeOK, LocalsInv, IssuedInv, NEW t \in Threads,
         AddIndex(t) \/ AddInsert(t) \/ RemoveErase(t) \/ RemoveIndex(t)
  PROVE  TypesOK'
<1> USE DEF At
<1>0. LocalsOK(t) /\ UNCHANGED <<sock, bufVars>>
  BY DEF LocalsInv, AddIndex, AddInsert, RemoveErase, RemoveIndex
<1>1. sock' \in [Sockets -> Flags] /\ BufferTypeOK'
  BY <1>0, BufferTypes DEF TypeOK, bufVars, BufferTypeOK
<1>2. CASE AddIndex(t)
  <2>1. TableTypeOK'
    BY <1>2 DEF AddIndex, FreeIndexes, TypeOK, TableTypeOK
  <2>2. ASSUME NEW i \in Handles, thr' = [thr EXCEPT ![t].pc = "add_insert", ![t].ah = i]
        PROVE  ThreadTypeOK'
    <3>1. Moved(t, "add_insert", thr[t].h, thr[t].s, thr[t].a, i, thr[t].rh, thr[t].b, thr[t].k)
      BY <2>2, IndexMoves
    <3>2. LocalsOK(t)'
      BY <1>0, <1>2, <3>1 DEF AddIndex, Moved, LocalsOK, UserPCs, WorkerPCs, PCs
    <3> QED
      BY <3>1, <3>2, MovedTypes
  <2>3. ASSUME t \in Users, Return(t) PROVE ThreadTypeOK'
    <3>1. Moved(t, "idle", None, None, None, None, None, None, 0)
      BY <2>3, ReturnMoves
    <3>2. LocalsOK(t)'
      BY <2>3, <3>1 DEF Moved, LocalsOK, UserPCs
    <3> QED
      BY <3>1, <3>2, MovedTypes
  <2>4. ASSUME t \notin Users, Goto(t, "reset") PROVE ThreadTypeOK'
    <3>1. Moved(t, "reset", thr[t].h, thr[t].s, thr[t].a, thr[t].ah, thr[t].rh, thr[t].b, thr[t].k)
      BY <2>4, GotoMoves DEF PCs
    <3>2. LocalsOK(t)'
      BY <1>0, <1>2, <2>4, <3>1, ConstantsOK DEF AddIndex, Moved, LocalsOK, WorkerPCs, PCs, Threads
    <3> QED
      BY <3>1, <3>2, MovedTypes
  <2> QED
    BY <1>1, <1>2, <2>1, <2>2, <2>3, <2>4 DEF AddIndex, FreeIndexes, TypesOK
<1>3. CASE AddInsert(t)
  <2>1. TableTypeOK'
    <3>1. thr[t].a \in Sockets /\ thr[t].ah \in Handles /\ thr[t].ah \in issued'
      BY <1>0, <1>3, ConstantsOK DEF AddInsert, LocalsOK, TypeOK, IssuedInv, Maybe
    <3> QED
      BY <1>3, <3>1 DEF AddInsert, TypeOK, TableTypeOK, Maybe
  <2>3. ASSUME t \in Users, Return(t) PROVE ThreadTypeOK'
    <3>1. Moved(t, "idle", None, None, None, None, None, None, 0)
      BY <2>3, ReturnMoves
    <3>2. LocalsOK(t)'
      BY <2>3, <3>1 DEF Moved, LocalsOK, UserPCs
    <3> QED
      BY <3>1, <3>2, MovedTypes
  <2>4. ASSUME t \notin Users, Goto(t, "set_accepted") PROVE ThreadTypeOK'
    <3>1. Moved(t, "set_accepted", thr[t].h, thr[t].s, thr[t].a, thr[t].ah, thr[t].rh, thr[t].b,
                thr[t].k)
      BY <2>4, GotoMoves DEF PCs
    <3>2. LocalsOK(t)'
      BY <1>0, <1>3, <2>4, <3>1 DEF AddInsert, Moved, LocalsOK, WorkerPCs, PCs
    <3> QED
      BY <3>1, <3>2, MovedTypes
  <2> QED
    BY <1>1, <1>3, <2>1, <2>3, <2>4 DEF AddInsert, TypesOK
<1>4. ASSUME AfterRemove(t), At(t, "remove") \/ At(t, "destroy_index") PROVE ThreadTypeOK'
  <2>1. CASE /\ thr[t].b # None
             /\ Moved(t, "reset", thr[t].h, thr[t].s, thr[t].a, thr[t].ah, None, thr[t].b, thr[t].k)
    <3>1. thr[t].b \in Buffers
      BY <2>1, FieldTypes DEF Maybe
    <3>2. LocalsOK(t)'
      BY <1>0, <2>1, <3>1 DEF Moved, LocalsOK, WorkerPCs, PCs
    <3> QED
      BY <2>1, <3>2, MovedTypes
  <2>2. CASE Moved(t, "idle", None, None, None, None, None, None, 0)
    <3>1. LocalsOK(t)'
      BY <2>2 DEF Moved, LocalsOK, UserPCs, WorkerPCs, PCs
    <3> QED
      BY <2>2, <3>1, MovedTypes
  <2> QED
    BY <1>4, <2>1, <2>2, AfterRemoveMoves
<1>5. CASE RemoveErase(t)
  <2>1. TableTypeOK'
    BY <1>5 DEF RemoveErase, TypeOK, TableTypeOK, Maybe
  <2>2. ASSUME Goto(t, "destroy_index") PROVE ThreadTypeOK'
    <3>1. Moved(t, "destroy_index", thr[t].h, thr[t].s, thr[t].a, thr[t].ah, thr[t].rh, thr[t].b,
                thr[t].k)
      BY <2>2, GotoMoves DEF PCs
    <3>2. LocalsOK(t)'
      BY <1>0, <1>5, <3>1 DEF RemoveErase, Moved, LocalsOK, UserPCs, WorkerPCs, PCs
    <3> QED
      BY <3>1, <3>2, MovedTypes
  <2> QED
    BY <1>1, <1>4, <1>5, <2>1, <2>2 DEF RemoveErase, TypesOK
<1>6. CASE RemoveIndex(t)
  <2>1. TableTypeOK'
    BY <1>6 DEF RemoveIndex, TypeOK, TableTypeOK
  <2> QED
    BY <1>1, <1>4, <1>6, <2>1 DEF RemoveIndex, TypesOK
<1> QED
  BY <1>2, <1>3, <1>5, <1>6

LEMMA CallTypes ==
  ASSUME TypeOK, LocalsInv, NEW t \in Users, Call(t)
  PROVE  TypesOK'
<1> USE DEF At
<1>0. t \in Threads /\ thr[t] = Idle /\ LocalsOK(t)
  BY DEF Call, TcpCreate, TcpDestroy, TcpListen, TcpConnect, TcpSend, GetTcpSocket, TypeOK,
         LocalsInv, Threads
<1>1. CASE TcpCreate(t)
  <2>1. PICK s \in FreeSockets : /\ sock' = [sock EXCEPT ![s] = [NewSocket EXCEPT !.bind = TRUE]]
                                 /\ thr' = [thr EXCEPT ![t].pc = "add_index", ![t].a = s]
    BY <1>1 DEF TcpCreate
  <2>2. s \in Sockets /\ [NewSocket EXCEPT !.bind = TRUE] \in Flags
    BY DEF FreeSockets, NewSocket, Flags
  <2>3. Moved(t, "add_index", thr[t].h, thr[t].s, s, thr[t].ah, thr[t].rh, thr[t].b, thr[t].k)
    BY <1>0, <2>1, <2>2, CreateMoves
  <2>4. LocalsOK(t)'
    BY <1>0, <2>2, <2>3, IdleFields, ConstantsOK DEF Moved, LocalsOK, UserPCs
  <2>5. ThreadTypeOK'
    BY <1>0, <2>3, <2>4, MovedTypes
  <2>6. sock' \in [Sockets -> Flags]
    BY <2>1, <2>2 DEF TypeOK
  <2> QED
    BY <1>1, <2>5, <2>6 DEF TcpCreate, TypesOK, TypeOK, TableTypeOK, BufferTypeOK, tableVars, bufVars
<1>2. ASSUME NEW h \in told, TcpDestroy(t, h) PROVE TypesOK'
  <2>1. h \in Maybe(Handles) /\ h \in Handles /\ "remove" \in PCs \ {"idle"}
    BY DEF TypeOK, Maybe, PCs
  <2>2. Moved(t, "remove", thr[t].h, thr[t].s, thr[t].a, thr[t].ah, h, thr[t].b, thr[t].k)
    BY <1>0, <1>2, <2>1, DestroyMoves DEF TcpDestroy
  <2>3. LocalsOK(t)'
    BY <1>0, <2>1, <2>2, IdleFields, ConstantsOK DEF Moved, LocalsOK, UserPCs
  <2>4. ThreadTypeOK'
    BY <1>0, <2>2, <2>3, MovedTypes
  <2> QED
    BY <1>2, <2>4 DEF TcpDestroy, TypesOK, TypeOK, TableTypeOK, BufferTypeOK, tableVars, bufVars
<1>3. ASSUME NEW h \in told, NEW call \in {"listen", "connect", "send"}, GetTcpSocket(t, call, h)
      PROVE  TypesOK'
  <2>1. h \in Handles /\ table[h] \in Sockets /\ call \in PCs \ {"idle"}
    BY <1>3 DEF GetTcpSocket, TypeOK, Maybe, PCs
  <2>2. Moved(t, call, h, table[h], thr[t].a, thr[t].ah, thr[t].rh, thr[t].b, thr[t].k)
    BY <1>0, <1>3, <2>1, FindMoves DEF GetTcpSocket
  <2>3. LocalsOK(t)'
    BY <1>0, <2>1, <2>2, IdleFields, ConstantsOK DEF Moved, LocalsOK, UserPCs
  <2>4. ThreadTypeOK'
    BY <1>0, <2>2, <2>3, MovedTypes
  <2> QED
    BY <1>3, <2>4 DEF GetTcpSocket, TypesOK, TypeOK, TableTypeOK, BufferTypeOK, tableVars, bufVars
<1> QED
  BY <1>1, <1>2, <1>3 DEF Call, TcpListen, TcpConnect, TcpSend

\* Setting flags of a socket leaves them flags.
LEMMA FlagTypes ==
  ASSUME TypeOK, NEW s \in Sockets
  PROVE  /\ sock' = [sock EXCEPT ![s].listen = TRUE] => sock' \in [Sockets -> Flags]
         /\ sock' = [sock EXCEPT ![s].connect = TRUE] => sock' \in [Sockets -> Flags]
         /\ sock' = [sock EXCEPT ![s].bind = TRUE, ![s].connect = TRUE] => sock' \in [Sockets -> Flags]
         /\ sock' = [sock EXCEPT ![s] = NewSocket] => sock' \in [Sockets -> Flags]
<1>1. sock[s] \in Flags
  BY DEF TypeOK
<1>2. /\ [sock[s] EXCEPT !.listen = TRUE] \in Flags /\ [sock[s] EXCEPT !.connect = TRUE] \in Flags
      /\ [sock[s] EXCEPT !.bind = TRUE, !.connect = TRUE] \in Flags
  BY <1>1 DEF Flags
<1> QED
  BY <1>2, ConstantTypes DEF TypeOK

LEMMA AcceptTypes ==
  ASSUME TypeOK, NEW b \in Buffers, NEW h \in Handles, NEW s \in Sockets, AsyncTcpAccept(b, h, s)
  PROVE  BufferTypeOK' /\ sock' \in [Sockets -> Flags]
<1>1. PICK a \in FreeSockets : sock' = [sock EXCEPT ![a] = NewSocket] /\ Submit(b, "accept", h, s, a)
  BY DEF AsyncTcpAccept
<1>2. a \in Sockets
  BY DEF FreeSockets
<1> QED
  BY <1>1, <1>2, FlagTypes, BufferTypes DEF Maybe, Types

LEMMA UserTypes ==
  ASSUME TypeOK, LocalsInv, NEW t \in Threads, Listen(t) \/ ArmAccept(t) \/ Connect(t) \/ Send(t)
  PROVE  TypesOK'
<1> USE DEF At
<1>0. /\ LocalsOK(t) /\ TableTypeOK' /\ t \in Users /\ thr[t].h \in Handles /\ thr[t].s \in Sockets
  BY DEF LocalsInv, LocalsOK, Listen, ArmAccept, Connect, Send, TypeOK, TableTypeOK, tableVars,
         WorkerPCs
<1>1. ASSUME Return(t) PROVE ThreadTypeOK'
  <2>1. Moved(t, "idle", None, None, None, None, None, None, 0)
    BY <1>1, ReturnMoves
  <2>2. LocalsOK(t)'
    BY <1>0, <2>1 DEF Moved, LocalsOK, UserPCs
  <2> QED
    BY <2>1, <2>2, MovedTypes
<1>2. CASE Listen(t)
  <2>1. BufferTypeOK' /\ sock' \in [Sockets -> Flags]
    BY <1>0, <1>2, FlagTypes DEF Listen, TypeOK, bufVars, BufferTypeOK
  <2>2. ASSUME Goto(t, "arm") PROVE ThreadTypeOK'
    <3>1. Moved(t, "arm", thr[t].h, thr[t].s, thr[t].a, thr[t].ah, thr[t].rh, thr[t].b, thr[t].k)
      BY <2>2, GotoMoves DEF PCs
    <3>2. LocalsOK(t)'
      BY <1>0, <1>2, <3>1 DEF Listen, Moved, LocalsOK, UserPCs
    <3> QED
      BY <3>1, <3>2, MovedTypes
  <2> QED
    BY <1>0, <1>1, <1>2, <2>1, <2>2 DEF Listen, TypesOK
<1>3. CASE ArmAccept(t)
  <2>1. BufferTypeOK' /\ sock' \in [Sockets -> Flags]
    BY <1>0, <1>3, AcceptTypes DEF ArmAccept, TypeOK, bufVars, BufferTypeOK
  <2>2. ASSUME thr[t].k + 1 # Backlog, thr' = [thr EXCEPT ![t].k = @ + 1] PROVE ThreadTypeOK'
    <3> DEFINE r == [thr[t] EXCEPT !.k = thr[t].k + 1]
    <3>1. thr[t].k + 1 < Backlog /\ thr[t].k + 1 \in 0 .. Backlog
      BY <1>0, <1>3, <2>2, FieldTypes, ConstantsOK DEF ArmAccept, LocalsOK
    <3>2. /\ r \in Locals /\ r.pc = "arm" /\ r.h = thr[t].h /\ r.s = thr[t].s /\ r.a = thr[t].a
          /\ r.ah = thr[t].ah /\ r.rh = thr[t].rh /\ r.b = thr[t].b /\ r.k = thr[t].k + 1
      BY <1>3, <3>1, FieldTypes DEF ArmAccept, Locals
    <3>3. thr' = [thr EXCEPT ![t] = r]
      BY <2>2
    <3> HIDE DEF r
    <3>4. Moved(t, "arm", thr[t].h, thr[t].s, thr[t].a, thr[t].ah, thr[t].rh, thr[t].b, thr[t].k + 1)
      BY <3>2, <3>3, MoveTo
    <3>5. LocalsOK(t)'
      BY <1>0, <1>3, <3>1, <3>4 DEF ArmAccept, Moved, LocalsOK, UserPCs
    <3> QED
      BY <3>4, <3>5, MovedTypes
  <2> QED
    BY <1>0, <1>1, <1>3, <2>1, <2>2 DEF ArmAccept, TypesOK
<1>4. CASE Connect(t)
  <2>1. BufferTypeOK' /\ sock' \in [Sockets -> Flags]
    BY <1>0, <1>4, FlagTypes DEF Connect, TypeOK, bufVars, BufferTypeOK
  <2>2. ASSUME thr' = [thr EXCEPT ![t].pc = "recv_new", ![t].a = thr[t].s, ![t].ah = thr[t].h]
        PROVE  ThreadTypeOK'
    <3>1. Moved(t, "recv_new", thr[t].h, thr[t].s, thr[t].s, thr[t].h, thr[t].rh, thr[t].b, thr[t].k)
      BY <2>2, ConnectMoves
    <3>2. LocalsOK(t)'
      BY <1>0, <3>1, ConstantsOK DEF Moved, LocalsOK, UserPCs
    <3> QED
      BY <3>1, <3>2, MovedTypes
  <2> QED
    BY <1>0, <1>1, <1>4, <2>1, <2>2 DEF Connect, TypesOK
<1>5. CASE Send(t)
  <2>1. BufferTypeOK' /\ sock' \in [Sockets -> Flags]
    BY <1>0, <1>5, BufferTypes DEF Send, TypeOK, bufVars, BufferTypeOK, Maybe, Types
  <2> QED
    BY <1>0, <1>1, <1>5, <2>1 DEF Send, TypesOK
<1> QED
  BY <1>2, <1>3, <1>4, <1>5

LEMMA RecvNewTypes == ASSUME TypeOK, LocalsInv, NEW t \in Threads, RecvNew(t) PROVE TypesOK'
<1> USE DEF At
<1>0. /\ LocalsOK(t) /\ TableTypeOK' /\ sock' \in [Sockets -> Flags]
      /\ thr[t].pc = "recv_new" /\ thr[t].a \in Sockets /\ thr[t].ah \in Handles
  BY DEF LocalsInv, LocalsOK, RecvNew, TypeOK, TableTypeOK, tableVars
<1>1. BufferTypeOK'
  BY <1>0, BufferTypes DEF RecvNew, AsyncTcpRecv, TypeOK, bufVars, BufferTypeOK, Maybe, Types
<1>2. ASSUME t \in Users, Return(t) PROVE ThreadTypeOK'
  <2>1. Moved(t, "idle", None, None, None, None, None, None, 0)
    BY <1>2, ReturnMoves
  <2>2. LocalsOK(t)'
    BY <1>2, <2>1 DEF Moved, LocalsOK, UserPCs
  <2> QED
    BY <2>1, <2>2, MovedTypes
<1>3. ASSUME t \notin Users, Goto(t, "reset") PROVE ThreadTypeOK'
  <2>1. Moved(t, "reset", thr[t].h, thr[t].s, thr[t].a, thr[t].ah, thr[t].rh, thr[t].b, thr[t].k)
    BY <1>3, GotoMoves DEF PCs
  <2>2. LocalsOK(t)'
    BY <1>0, <1>3, <2>1, ConstantsOK DEF Moved, LocalsOK, WorkerPCs, PCs, Threads
  <2> QED
    BY <2>1, <2>2, MovedTypes
<1>4. ASSUME t \notin Users, thr' = [thr EXCEPT ![t].pc = "on_error", ![t].rh = thr[t].ah]
      PROVE  ThreadTypeOK'
  <2>1. "on_error" \in PCs \ {"idle"} /\ thr[t].ah \in Maybe(Handles)
    BY <1>0 DEF PCs, Maybe
  <2>2. Moved(t, "on_error", thr[t].h, thr[t].s, thr[t].a, thr[t].ah, thr[t].ah, thr[t].b, thr[t].k)
    BY <1>4, <2>1, DestroyMoves
  <2>3. LocalsOK(t)'
    BY <1>0, <1>4, <2>2, ConstantsOK DEF Moved, LocalsOK, WorkerPCs, PCs, Threads
  <2> QED
    BY <2>2, <2>3, MovedTypes
<1> QED
  BY <1>0, <1>1, <1>2, <1>3, <1>4 DEF RecvNew, TypesOK

\* The handlers between their first step and their last.
LEMMA HandlerTypes ==
  ASSUME TypeOK, LocalsInv, IssuedInv, NEW t \in Threads,
         \/ SetAccepted(t) \/ OnTcpAccepted(t) \/ OnTcpError(t) \/ OnTcpDisconnected(t)
         \/ OnTcpReceived(t)
  PROVE  TypesOK'
<1> USE DEF At
<1>0. /\ LocalsOK(t) /\ t \in Threads /\ thr[t].pc \in WorkerPCs
      /\ BufferTypeOK'
  BY DEF LocalsInv, LocalsOK, SetAccepted, OnTcpAccepted, OnTcpError, OnTcpDisconnected,
         OnTcpReceived, UserPCs, TypeOK, BufferTypeOK, bufVars
<1>1. ASSUME NEW pc \in {"on_accepted", "recv_new", "remove", "rearm"}, Goto(t, pc),
             \/ thr[t].pc = "set_accepted" /\ pc = "on_accepted"
             \/ thr[t].pc = "on_accepted" /\ pc = "recv_new"
             \/ thr[t].pc \in {"on_error", "on_disconnected"} /\ pc = "remove"
             \/ thr[t].pc = "on_received" /\ pc = "rearm"
      PROVE  ThreadTypeOK'
  <2>1. Moved(t, pc, thr[t].h, thr[t].s, thr[t].a, thr[t].ah, thr[t].rh, thr[t].b, thr[t].k)
    BY <1>1, GotoMoves DEF PCs
  <2>2. LocalsOK(t)'
    BY <1>0, <1>1, <2>1 DEF Moved, LocalsOK, UserPCs, WorkerPCs, PCs
  <2> QED
    BY <2>1, <2>2, MovedTypes
<1>2. CASE SetAccepted(t)
  <2>1. /\ thr[t].a \in Sockets /\ thr[t].ah \in Handles /\ thr[t].pc = "set_accepted"
        /\ t \notin Users /\ t \in Workers
    BY <1>0, <1>2 DEF SetAccepted, LocalsOK, UserPCs, Threads
  <2>2. ASSUME thr' = [thr EXCEPT ![t].pc = "remove", ![t].rh = thr[t].ah] PROVE ThreadTypeOK'
    <3>1. Moved(t, "remove", thr[t].h, thr[t].s, thr[t].a, thr[t].ah, thr[t].ah, thr[t].b, thr[t].k)
      BY <2>1, <2>2, DestroyMoves DEF PCs, Maybe
    <3>2. LocalsOK(t)'
      BY <1>0, <2>1, <3>1 DEF Moved, LocalsOK, WorkerPCs, PCs
    <3> QED
      BY <3>1, <3>2, MovedTypes
  <2>3. sock' \in [Sockets -> Flags]
    BY <1>2, <2>1, FlagTypes DEF SetAccepted, TypeOK
  <2> QED
    BY <1>0, <1>1, <1>2, <2>1, <2>2, <2>3
    DEF SetAccepted, TypesOK, TypeOK, TableTypeOK, tableVars
<1>3. CASE OnTcpAccepted(t)
  <2>1. thr[t].ah \in issued
    BY <1>0, <1>3, ConstantsOK DEF OnTcpAccepted, LocalsOK, IssuedInv, Maybe
  <2> QED
    BY <1>0, <1>1, <1>3, <2>1 DEF OnTcpAccepted, TypesOK, TypeOK, TableTypeOK
<1>4. CASE OnTcpError(t) \/ OnTcpDisconnected(t) \/ OnTcpReceived(t)
  BY <1>0, <1>1, <1>4 DEF OnTcpError, OnTcpDisconnected, OnTcpReceived, TypesOK, TypeOK, TableTypeOK,
                         tableVars
<1> QED
  BY <1>2, <1>3, <1>4

\* A handler's last step: the buffer goes to the kernel, or it is returned and an error
\* follows.
LEMMA FinishTypes ==
  ASSUME TypeOK, LocalsInv, NEW t \in Threads, Reset(t) \/ OnRecv(t) \/ Rearm(t)
  PROVE  TypesOK'
<1> USE DEF At
<1>0. /\ LocalsOK(t) /\ TableTypeOK' /\ t \in Workers /\ t \notin Users
      /\ thr[t].h \in Handles /\ thr[t].s \in Sockets /\ thr[t].b \in Buffers
      /\ thr[t].pc \in {"reset", "parse", "rearm"}
  BY DEF LocalsInv, LocalsOK, Reset, OnRecv, Rearm, UserPCs, Threads, TypeOK, TableTypeOK, tableVars
<1>1. ASSUME Return(t) PROVE ThreadTypeOK'
  <2>1. Moved(t, "idle", None, None, None, None, None, None, 0)
    BY <1>1, ReturnMoves
  <2>2. LocalsOK(t)'
    BY <1>0, <2>1 DEF Moved, LocalsOK, WorkerPCs, PCs
  <2> QED
    BY <2>1, <2>2, MovedTypes
<1>2. ASSUME thr' = [thr EXCEPT ![t].pc = "on_error", ![t].rh = thr[t].h, ![t].b = None]
      PROVE  ThreadTypeOK'
  <2>1. Moved(t, "on_error", thr[t].h, thr[t].s, thr[t].a, thr[t].ah, thr[t].h, None, thr[t].k)
    BY <1>0, <1>2, ErrorMoves DEF Maybe
  <2>2. LocalsOK(t)'
    BY <1>0, <2>1 DEF Moved, LocalsOK, WorkerPCs, PCs
  <2> QED
    BY <2>1, <2>2, MovedTypes
<1>3. CASE Reset(t)
  <2>1. BufferTypeOK' /\ sock' \in [Sockets -> Flags]
    BY <1>0, <1>3, AcceptTypes, BufferTypes DEF Reset, TypeOK
  <2> QED
    BY <1>0, <1>1, <1>2, <1>3, <2>1 DEF Reset, TypesOK
<1>4. CASE OnRecv(t)
  <2>1. BufferTypeOK'
    BY <1>0, <1>4, BufferTypes DEF OnRecv
  <2>2. ASSUME Goto(t, "on_received") PROVE ThreadTypeOK'
    <3>1. Moved(t, "on_received", thr[t].h, thr[t].s, thr[t].a, thr[t].ah, thr[t].rh, thr[t].b,
                thr[t].k)
      BY <2>2, GotoMoves DEF PCs
    <3>2. LocalsOK(t)'
      BY <1>0, <3>1 DEF Moved, LocalsOK, WorkerPCs, PCs
    <3> QED
      BY <3>1, <3>2, MovedTypes
  <2> QED
    BY <1>0, <1>2, <1>4, <2>1, <2>2 DEF OnRecv, TypesOK, TypeOK
<1>5. CASE Rearm(t)
  <2>1. BufferTypeOK'
    BY <1>0, <1>5, BufferTypes DEF Rearm, AsyncTcpRecv, Maybe, Types
  <2> QED
    BY <1>0, <1>1, <1>2, <1>5, <2>1 DEF Rearm, TypesOK, TypeOK
<1> QED
  BY <1>3, <1>4, <1>5

\* A handler's first step.
LEMMA HandleTypes ==
  ASSUME TypeOK, LocalsInv, FreshInv, NEW t \in Workers, Handle(t)
  PROVE  TypesOK'
<1> USE DEF At
<1>0. /\ t \in Threads /\ t \notin Users /\ LocalsOK(t) /\ thr[t].pc = "idle"
      /\ TableTypeOK' /\ sock' \in [Sockets -> Flags]
  BY ConstantsOK DEF Handle, OnTcpAccept, OnTcpSend, OnTcpRecv, Completed, LocalsInv, Threads,
         TypeOK, TableTypeOK, tableVars
<1>1. ThreadTypeOK
  BY DEF TypeOK, ThreadTypeOK
<1>2. ASSUME NEW b \in Buffers, UNCHANGED thr, Delete(b) PROVE TypesOK'
  <2>1. ThreadTypeOK'
    BY <1>1, <1>2 DEF ThreadTypeOK, LocalsInv, LocalsOK
  <2> QED
    BY <1>0, <1>2, <2>1, BufferTypes DEF TypesOK
<1>3. ASSUME NEW b \in Buffers, OnTcpAccept(t, b) PROVE TypesOK'
  <2>1. CASE Drop(b)
    BY <1>2, <2>1 DEF Drop
  <2>2. CASE table[buf[b].handle] # None
    <3>1. /\ buf[b].handle \in Handles /\ buf[b].accept \in Sockets
          /\ table[buf[b].handle] \in Sockets
      BY <1>3, <2>2 DEF OnTcpAccept, Completed, FreshInv, TypeOK, Maybe
    <3>2. /\ thr' = [thr EXCEPT ![t] = [Idle EXCEPT !.pc = "add_index", !.h = buf[b].handle,
                                          !.s = table[buf[b].handle], !.a = buf[b].accept,
                                          !.b = b, !.ok = (io[b] = "ok")]]
          /\ BufferTypeOK'
      BY <1>3, <2>2, BufferTypes DEF OnTcpAccept
    <3>3. (io[b] = "ok") \in BOOLEAN /\ buf[b].accept \in Maybe(Sockets)
      BY <3>1 DEF Maybe
    <3>4. Moved(t, "add_index", buf[b].handle, table[buf[b].handle], buf[b].accept, None, None, b, 0)
      BY <1>0, <3>1, <3>2, <3>3, AcceptMoves
    <3>5. LocalsOK(t)'
      BY <1>0, <3>1, <3>4 DEF Moved, LocalsOK, WorkerPCs, PCs
    <3>6. ThreadTypeOK'
      BY <1>0, <3>4, <3>5, MovedTypes
    <3> QED
      BY <1>0, <3>2, <3>6 DEF TypesOK
  <2> QED
    BY <1>3, <2>1, <2>2 DEF OnTcpAccept
<1>4. ASSUME NEW b \in Buffers, OnTcpSend(t, b) PROVE TypesOK'
  BY <1>2, <1>4 DEF OnTcpSend
<1>5. ASSUME NEW b \in Buffers, OnTcpRecv(t, b) PROVE TypesOK'
  <2>1. CASE Drop(b)
    BY <1>2, <2>1 DEF Drop
  <2> DEFINE h == buf[b].handle
             me == [Idle EXCEPT !.h = h, !.s = table[h]]
  <2>2. ASSUME table[h] # None, Delete(b),
               thr' = [thr EXCEPT ![t] = [me EXCEPT !.pc = "on_disconnected", !.rh = h]]
        PROVE  TypesOK'
    <3>1. h \in Handles /\ table[h] \in Sockets
      BY <1>5, <2>2 DEF OnTcpRecv, Completed, FreshInv, TypeOK, Maybe
    <3>2. Moved(t, "on_disconnected", h, table[h], None, None, h, None, 0)
      BY <1>0, <2>2, <3>1, CloseMoves
    <3>3. LocalsOK(t)'
      BY <1>0, <3>1, <3>2 DEF Moved, LocalsOK, WorkerPCs, PCs
    <3>4. ThreadTypeOK'
      BY <1>0, <3>2, <3>3, MovedTypes
    <3> QED
      BY <1>0, <2>2, <3>4, BufferTypes DEF TypesOK
  <2>3. ASSUME table[h] # None, io' = [io EXCEPT ![b] = "none"], UNCHANGED <<heap, buf>>,
               thr' = [thr EXCEPT ![t] = [me EXCEPT !.pc = "parse", !.b = b]]
        PROVE  TypesOK'
    <3>1. h \in Handles /\ table[h] \in Sockets
      BY <1>5, <2>3 DEF OnTcpRecv, Completed, FreshInv, TypeOK, Maybe
    <3>2. Moved(t, "parse", h, table[h], None, None, None, b, 0)
      BY <1>0, <2>3, <3>1, ParseMoves
    <3>3. LocalsOK(t)'
      BY <1>0, <3>1, <3>2 DEF Moved, LocalsOK, WorkerPCs, PCs
    <3>4. ThreadTypeOK'
      BY <1>0, <3>2, <3>3, MovedTypes
    <3>5. BufferTypeOK'
      BY <2>3 DEF TypeOK, BufferTypeOK, IoStates
    <3> QED
      BY <1>0, <3>4, <3>5 DEF TypesOK
  <2> QED
    BY <1>5, <2>1, <2>2, <2>3 DEF OnTcpRecv
<1> QED
  BY <1>3, <1>4, <1>5 DEF Handle

LEMMA NextTypes ==
  ASSUME TypeOK, LocalsInv, IssuedInv, FreshInv, [Next]_vars PROVE TypeOK' /\ LocalsInv'
<1>1. ASSUME NEW t \in Threads, Step(t) PROVE TypesOK'
  BY <1>1, TableTypes, UserTypes, RecvNewTypes, HandlerTypes, FinishTypes DEF Step
<1>2. CASE Kernel
  <2>1. UNCHANGED <<tableVars, sock, heap, buf, thr>> /\ io' \in [Buffers -> IoStates]
    BY <1>2 DEF Kernel, Complete, Abort, TypeOK, IoStates
  <2> QED
    BY <2>1 DEF TypeOK, LocalsInv, LocalsOK, tableVars, At
<1>3. CASE UNCHANGED vars
  BY <1>3 DEF vars, TypeOK, LocalsInv, LocalsOK, At
<1>4. TypesOK' => TypeOK' /\ LocalsInv'
  BY DEF TypesOK, TypeOK, TableTypeOK, BufferTypeOK, ThreadTypeOK, At
<1> QED
  BY <1>1, <1>2, <1>3, <1>4, CallTypes, HandleTypes DEF Next

-----------------------------------------------------------------------------
(* What each invariant needs of a step of thread t.                        *)

OthersSame(t) == \A u \in Threads : u # t => thr'[u] = thr[u]

LEMMA IssuedFrame ==
  ASSUME TypeOK, IssuedInv, NEW t \in Threads, OthersSame(t), issued \subseteq issued',
         thr'[t].h \in Maybe(issued'), thr'[t].ah \in Maybe(issued'), thr'[t].rh \in Maybe(issued'),
         \A b \in heap' : \/ b \in heap /\ buf'[b].handle = buf[b].handle
                          \/ buf'[b].handle \in Maybe(issued'),
         \A h \in Handles : table'[h] # None => table[h] # None \/ h \in issued'
  PROVE  IssuedInv'
BY DEF IssuedInv, OthersSame, Maybe

LEMMA IndexFrame ==
  ASSUME IndexOwnership, NEW t \in Threads, OthersSame(t), UNCHANGED <<table, indexes>>,
         thr[t].pc \notin {"add_insert", "destroy_index"},
         thr'[t].pc \notin {"add_insert", "destroy_index"}
  PROVE  IndexOwnership'
BY DEF IndexOwnership, Owns, OthersSame, At

\* Buffers: nobody's change; a new one is started; a worker gives its own to the kernel, or
\* returns it; a completed one is taken, or returned.
LEMMA BuffersKept ==
  ASSUME BufferOwnership, UNCHANGED <<heap, io>>, \A w \in Workers : thr'[w].b = thr[w].b
  PROVE  BufferOwnership'
BY DEF BufferOwnership

LEMMA BufferStarted ==
  ASSUME TypeOK, BufferOwnership, NEW b \in Buffers \ heap, NEW type, NEW h, NEW s, NEW a,
         Submit(b, type, h, s, a), \A w \in Workers : thr'[w].b = thr[w].b
  PROVE  BufferOwnership'
BY DEF TypeOK, BufferOwnership, Submit

LEMMA BufferRestarted ==
  ASSUME TypeOK, BufferOwnership, NEW t \in Workers, thr[t].b \in Buffers, NEW type, NEW h, NEW s,
         NEW a, Submit(thr[t].b, type, h, s, a), thr'[t].b = None,
         \A w \in Workers : w # t => thr'[w].b = thr[w].b
  PROVE  BufferOwnership'
<1>1. thr[t].b \in heap /\ io[thr[t].b] = "none" /\ thr[t].b # None
  BY ConstantsOK DEF BufferOwnership
<1>2. /\ heap' = heap /\ io'[thr[t].b] = "pending"
      /\ \A c \in Buffers : c # thr[t].b => io'[c] = io[c]
  BY <1>1 DEF Submit, TypeOK
<1>3. \A w \in Workers : w # t => thr[w].b # thr[t].b
  BY <1>1 DEF BufferOwnership
<1> QED
  BY <1>1, <1>2, <1>3, ConstantsOK DEF BufferOwnership, TypeOK

LEMMA BufferGivenBack ==
  ASSUME TypeOK, BufferOwnership, NEW t \in Workers, thr[t].b \in Buffers, Delete(thr[t].b),
         thr'[t].b = None, \A w \in Workers : w # t => thr'[w].b = thr[w].b
  PROVE  BufferOwnership'
<1>1. thr[t].b \in heap /\ io[thr[t].b] = "none" /\ thr[t].b # None
  BY ConstantsOK DEF BufferOwnership
<1>2. /\ heap' = heap \ {thr[t].b} /\ io'[thr[t].b] = "none"
      /\ \A c \in Buffers : c # thr[t].b => io'[c] = io[c]
  BY <1>1 DEF Delete, TypeOK
<1>3. \A w \in Workers : w # t => thr[w].b # thr[t].b
  BY <1>1 DEF BufferOwnership
<1> QED
  BY <1>1, <1>2, <1>3, ConstantsOK DEF BufferOwnership, TypeOK

LEMMA BufferTaken ==
  ASSUME TypeOK, BufferOwnership, NEW t \in Workers, thr[t].b = None, NEW b \in heap, io[b] # "none",
         UNCHANGED heap, io' = [io EXCEPT ![b] = "none"], thr'[t].b = b,
         \A w \in Workers : w # t => thr'[w].b = thr[w].b
  PROVE  BufferOwnership'
<1>1. b \in Buffers /\ b # None /\ io'[b] = "none" /\ \A c \in Buffers : c # b => io'[c] = io[c]
  BY ConstantsOK DEF TypeOK
<1>2. \A w \in Workers : thr[w].b # b
  BY DEF BufferOwnership
<1>3. ASSUME NEW c \in heap' PROVE io'[c] = "none" <=> \E w \in Workers : thr'[w].b = c
  <2>1. CASE c = b
    BY <1>1, <2>1
  <2>2. CASE c # b
    <3>1. c \in heap /\ c # None /\ io'[c] = io[c]
      BY <1>1, <2>2, ConstantsOK DEF TypeOK
    <3>2. \A w \in Workers : thr'[w].b = c <=> thr[w].b = c
      BY <2>2, <3>1
    <3> QED
      BY <3>1, <3>2 DEF BufferOwnership
  <2> QED
    BY <2>1, <2>2
<1>4. \A c \in Buffers \ heap' : io'[c] = "none" /\ \A w \in Workers : thr'[w].b # c
  BY <1>1, <1>2 DEF BufferOwnership
<1>5. \A v, w \in Workers : thr'[v].b = thr'[w].b => v = w \/ thr'[v].b = None
  BY <1>1, <1>2 DEF BufferOwnership
<1> QED
  BY <1>3, <1>4, <1>5 DEF BufferOwnership

LEMMA BufferFinished ==
  ASSUME TypeOK, BufferOwnership, NEW b \in heap, io[b] # "none", Delete(b),
         \A w \in Workers : thr'[w].b = thr[w].b
  PROVE  BufferOwnership'
BY DEF TypeOK, BufferOwnership, Delete

SocketInv == FreshInv /\ SocketOwnership

\* Entries are only erased, accepts only end, and the thread only learns of sockets it
\* knew or finds in the table.
LEMMA SocketFrame ==
  ASSUME TypeOK, SocketInv, NEW t \in Threads, OthersSame(t),
         \A h \in Handles : table'[h] \in {table[h], None},
         \A b \in heap' : buf'[b].accept = None \/ (b \in heap /\ buf'[b].accept = buf[b].accept),
         \A b \in heap' : io'[b] # "none" =>
            \/ b \in heap /\ io[b] # "none" /\ buf'[b] = buf[b]
            \/ buf'[b].handle \in Handles /\ buf'[b].sock \in Sockets /\ buf'[b].type # "accept",
         thr'[t].s \in {None, thr[t].s} \/ \E h \in Handles : thr'[t].s = table[h],
         thr'[t].a \in {None, thr[t].a, thr[t].s},
         thr'[t].pc \in {"add_index", "add_insert"} =>
            /\ thr[t].pc \in {"add_index", "add_insert"}
            /\ thr'[t].a = thr[t].a /\ thr'[t].s = thr[t].s,
         \A u \in Threads : thr[u].pc \in {"add_index", "add_insert"} => thr[u].a \in Sockets
  PROVE  SocketInv'
<1> USE DEF At
<1>1. ASSUME NEW u \in Threads, thr'[u].pc \in {"add_index", "add_insert"}
      PROVE  /\ \A h \in Handles : table'[h] # thr'[u].a
             /\ \A v \in Threads : thr'[v].s # thr'[u].a /\ (v # u => thr'[v].a # thr'[u].a)
             /\ \A b \in heap' : buf'[b].accept # thr'[u].a
  <2>1. thr[u].pc \in {"add_index", "add_insert"} /\ thr'[u].a = thr[u].a /\ thr[u].a \in Sockets
    BY <1>1 DEF OthersSame
  <2>2. thr[u].a # None
    BY <2>1, ConstantsOK
  <2>3. /\ \A h \in Handles : table[h] # thr[u].a
        /\ \A v \in Threads : thr[v].s # thr[u].a /\ (v # u => thr[v].a # thr[u].a)
        /\ \A b \in heap : buf[b].accept # thr[u].a
    BY <2>1 DEF SocketInv, FreshInv
  <2>4. \A h \in Handles : table'[h] # thr[u].a
    BY <2>2, <2>3
  <2>5. \A b \in heap' : buf'[b].accept # thr[u].a
    BY <2>2, <2>3
  <2>6. \A v \in Threads : thr'[v].s # thr[u].a /\ (v # u => thr'[v].a # thr[u].a)
    BY <1>1, <2>2, <2>3 DEF OthersSame
  <2> QED
    BY <2>1, <2>4, <2>5, <2>6
<1>2. \A b \in heap' : io'[b] # "none" => /\ buf'[b].handle \in Handles /\ buf'[b].sock \in Sockets
                                          /\ buf'[b].type = "accept" => buf'[b].accept \in Sockets
  BY DEF SocketInv, FreshInv
<1>3. \A h1, h2 \in Handles : table'[h1] = table'[h2] => h1 = h2 \/ table'[h1] = None
  BY DEF SocketInv, SocketOwnership
<1>4. ASSUME NEW b \in heap', buf'[b].accept # None
      PROVE  /\ \A h \in Handles : table'[h] # buf'[b].accept
             /\ \A v \in Threads : buf'[b].accept \notin {thr'[v].s, thr'[v].a}
             /\ \A c \in heap' \ {b} : buf'[b].accept # buf'[c].accept
  <2>1. b \in heap /\ buf'[b].accept = buf[b].accept
    BY <1>4
  <2>2. /\ \A h \in Handles : table[h] # buf[b].accept
        /\ \A v \in Threads : buf[b].accept \notin {thr[v].s, thr[v].a}
        /\ \A c \in heap \ {b} : buf[b].accept # buf[c].accept
    BY <1>4, <2>1 DEF SocketInv, SocketOwnership
  <2>3. \A v \in Threads : buf[b].accept \notin {thr'[v].s, thr'[v].a}
    BY <1>4, <2>1, <2>2 DEF OthersSame
  <2> QED
    BY <1>4, <2>1, <2>2, <2>3
<1>5. FreshInv'
  BY <1>1, <1>2 DEF FreshInv
<1>6. SocketOwnership'
  BY <1>3, <1>4 DEF SocketOwnership
<1> QED
  BY <1>5, <1>6 DEF SocketInv

\* A new socket to accept on is known to its buffer alone.
LEMMA SocketAccept ==
  ASSUME TypeOK, SocketInv, NEW t \in Threads, OthersSame(t), UNCHANGED table,
         NEW b \in Buffers, NEW h \in Handles, NEW s \in Sockets, AsyncTcpAccept(b, h, s),
         thr'[t].s \in {None, thr[t].s}, thr'[t].a \in {None, thr[t].a},
         thr'[t].pc \notin {"add_index", "add_insert"},
         \A u \in Threads : thr[u].pc \in {"add_index", "add_insert"} => thr[u].a \in Sockets
  PROVE  SocketInv'
<1> USE DEF At
<1>1. PICK n \in FreeSockets : Submit(b, "accept", h, s, n)
  BY DEF AsyncTcpAccept
<1>2. /\ n \in Sockets /\ n # None /\ \A g \in Handles : table[g] # n
      /\ \A u \in Threads : thr[u].s # n /\ thr[u].a # n
      /\ \A c \in heap : buf[c].accept # n
  BY ConstantsOK DEF FreeSockets, Referenced
<1>3. /\ heap' = heap \cup {b}
      /\ buf'[b].handle = h /\ buf'[b].sock = s /\ buf'[b].accept = n
      /\ \A c \in Buffers : c # b => buf'[c] = buf[c] /\ io'[c] = io[c]
  BY <1>1 DEF Submit, TypeOK
<1>4. \A u \in Threads : /\ thr'[u].s \in {None, thr[u].s} /\ thr'[u].a \in {None, thr[u].a}
                         /\ thr'[u].pc \in {"add_index", "add_insert"} => u # t /\ thr'[u] = thr[u]
  BY DEF OthersSame
<1>5. \A c \in heap' : c \in Buffers /\ (c # b => c \in heap)
  BY <1>3 DEF TypeOK
<1>6. ASSUME NEW u \in Threads, thr'[u].pc \in {"add_index", "add_insert"}
      PROVE  /\ \A g \in Handles : table'[g] # thr'[u].a
             /\ \A v \in Threads : thr'[v].s # thr'[u].a /\ (v # u => thr'[v].a # thr'[u].a)
             /\ \A c \in heap' : buf'[c].accept # thr'[u].a
  <2>1. /\ thr[u].pc \in {"add_index", "add_insert"} /\ thr'[u] = thr[u]
        /\ thr[u].a \in Sockets /\ thr[u].a # None
    BY <1>4, <1>6, ConstantsOK
  <2>2. /\ \A g \in Handles : table[g] # thr[u].a
        /\ \A v \in Threads : thr[v].s # thr[u].a /\ (v # u => thr[v].a # thr[u].a)
        /\ \A c \in heap : buf[c].accept # thr[u].a
    BY <2>1 DEF SocketInv, FreshInv
  <2> QED
    BY <1>2, <1>3, <1>4, <1>5, <2>1, <2>2
<1>7. \A c \in heap' : io'[c] # "none" => /\ buf'[c].handle \in Handles /\ buf'[c].sock \in Sockets
                                          /\ buf'[c].type = "accept" => buf'[c].accept \in Sockets
  BY <1>2, <1>3, <1>5 DEF SocketInv, FreshInv
<1>8. ASSUME NEW c \in heap', buf'[c].accept # None
      PROVE  /\ \A g \in Handles : table'[g] # buf'[c].accept
             /\ \A v \in Threads : buf'[c].accept \notin {thr'[v].s, thr'[v].a}
             /\ \A d \in heap' \ {c} : buf'[c].accept # buf'[d].accept
  <2>1. CASE c = b
    BY <1>2, <1>3, <1>4, <1>5, <2>1
  <2>2. CASE c # b
    <3>1. c \in heap /\ buf'[c] = buf[c]
      BY <1>3, <1>5, <2>2
    <3>2. /\ \A g \in Handles : table[g] # buf[c].accept
          /\ \A v \in Threads : buf[c].accept \notin {thr[v].s, thr[v].a}
          /\ \A d \in heap \ {c} : buf[c].accept # buf[d].accept
      BY <1>8, <3>1 DEF SocketInv, SocketOwnership
    <3>3. \A v \in Threads : buf[c].accept \notin {thr'[v].s, thr'[v].a}
      BY <1>4, <1>8, <3>1, <3>2
    <3>4. \A d \in heap' \ {c} : buf'[c].accept # buf'[d].accept
      BY <1>2, <1>3, <1>5, <3>1, <3>2
    <3> QED
      BY <3>1, <3>2, <3>3, <3>4
  <2> QED
    BY <2>1, <2>2
<1>9. \A h1, h2 \in Handles : table'[h1] = table'[h2] => h1 = h2 \/ table'[h1] = None
  BY DEF SocketInv, SocketOwnership
<1>10. FreshInv'
  BY <1>6, <1>7 DEF FreshInv
<1>11. SocketOwnership'
  BY <1>8, <1>9 DEF SocketOwnership
<1> QED
  BY <1>10, <1>11 DEF SocketInv

\* The socket about to be inserted is known to its thread alone.
LEMMA FreshSocket ==
  ASSUME SocketInv, LocalsInv, NEW t \in Threads, At(t, "add_index") \/ At(t, "add_insert")
  PROVE  /\ thr[t].a \in Sockets /\ thr[t].a # None
         /\ \A h \in Handles : table[h] # thr[t].a
         /\ \A u \in Threads : thr[u].s # thr[t].a /\ (u # t => thr[u].a # thr[t].a)
         /\ \A b \in heap : buf[b].accept # thr[t].a
BY ConstantsOK DEF SocketInv, FreshInv, LocalsInv, LocalsOK, At

\* AddInsert makes the new socket an entry.
LEMMA SocketInsert ==
  ASSUME TypeOK, SocketInv, LocalsInv, NEW t \in Threads, OthersSame(t), At(t, "add_insert"),
         table' = [table EXCEPT ![thr[t].ah] = thr[t].a], UNCHANGED bufVars,
         thr'[t].s \in {None, thr[t].s}, thr'[t].a \in {None, thr[t].a},
         thr'[t].pc \notin {"add_index", "add_insert"}
  PROVE  SocketInv'
<1> USE DEF At
<1>1. /\ thr[t].a \in Sockets /\ thr[t].a # None
      /\ \A h \in Handles : table[h] # thr[t].a
      /\ \A u \in Threads : thr[u].s # thr[t].a /\ (u # t => thr[u].a # thr[t].a)
      /\ \A b \in heap : buf[b].accept # thr[t].a
  BY FreshSocket
<1>2. /\ \A h \in Handles : table'[h] = table[h] \/ (h = thr[t].ah /\ table'[h] = thr[t].a)
      /\ UNCHANGED <<heap, buf, io>>
  BY DEF TypeOK, bufVars
<1>3. \A u \in Threads : /\ thr'[u].s \in {None, thr[u].s} /\ thr'[u].a \in {None, thr[u].a}
                         /\ thr'[u].pc \in {"add_index", "add_insert"} => u # t /\ thr'[u] = thr[u]
  BY DEF OthersSame
<1>4. \A u \in Threads : thr[u].pc \in {"add_index", "add_insert"} => thr[u].a # None
  BY FreshSocket
<1>5. ASSUME NEW u \in Threads, thr'[u].pc \in {"add_index", "add_insert"}
      PROVE  /\ \A g \in Handles : table'[g] # thr'[u].a
             /\ \A v \in Threads : thr'[v].s # thr'[u].a /\ (v # u => thr'[v].a # thr'[u].a)
             /\ \A c \in heap' : buf'[c].accept # thr'[u].a
  <2>1. thr[u].pc \in {"add_index", "add_insert"} /\ thr'[u] = thr[u] /\ u # t /\ thr[u].a # None
    BY <1>3, <1>4, <1>5
  <2>2. /\ \A g \in Handles : table[g] # thr[u].a
        /\ \A v \in Threads : thr[v].s # thr[u].a /\ (v # u => thr[v].a # thr[u].a)
        /\ \A c \in heap : buf[c].accept # thr[u].a
    BY <2>1, FreshSocket
  <2> QED
    BY <1>2, <1>3, <2>1, <2>2
<1>6. FreshInv'
  BY <1>2, <1>5 DEF FreshInv, SocketInv
<1>7. \A h1, h2 \in Handles : table'[h1] = table'[h2] => h1 = h2 \/ table'[h1] = None
  BY <1>1, <1>2 DEF SocketInv, SocketOwnership
<1>8. SocketOwnership'
  BY <1>1, <1>2, <1>3, <1>7 DEF SocketInv, SocketOwnership
<1> QED
  BY <1>6, <1>8 DEF SocketInv

\* TcpCreate made the socket, or OnTcpAccept moved it out of its buffer: no one else knows it.
LEMMA SocketFresh ==
  ASSUME TypeOK, SocketInv, LocalsInv, NEW t \in Threads, OthersSame(t), UNCHANGED table,
         NEW n \in Sockets, thr'[t].a = n, thr[t] = Idle,
         thr'[t].s = None \/ \E h \in Handles : thr'[t].s = table[h],
         \A h \in Handles : table[h] # n,
         \A u \in Threads : thr[u].s # n /\ thr[u].a # n,
         heap' = heap, \A b \in heap : /\ buf'[b].accept # n
                                       /\ buf'[b].accept \in {None, buf[b].accept}
                                       /\ io'[b] # "none" => io'[b] = io[b] /\ buf'[b] = buf[b]
  PROVE  SocketInv'
<1> USE DEF At
<1>1. n # None
  BY ConstantsOK
<1>2. ASSUME NEW u \in Threads, thr'[u].pc \in {"add_index", "add_insert"}
      PROVE  /\ \A g \in Handles : table'[g] # thr'[u].a
             /\ \A v \in Threads : thr'[v].s # thr'[u].a /\ (v # u => thr'[v].a # thr'[u].a)
             /\ \A c \in heap' : buf'[c].accept # thr'[u].a
  <2>1. CASE u = t
    BY <1>1, <2>1 DEF OthersSame
  <2>2. CASE u # t
    <3>1. thr'[u] = thr[u] /\ thr[u].pc \in {"add_index", "add_insert"}
      BY <1>2, <2>2 DEF OthersSame
    <3>2. /\ thr[u].a # None /\ thr[u].a # n
          /\ \A g \in Handles : table[g] # thr[u].a
          /\ \A v \in Threads : thr[v].s # thr[u].a /\ (v # u => thr[v].a # thr[u].a)
          /\ \A c \in heap : buf[c].accept # thr[u].a
      BY <3>1, FreshSocket
    <3> QED
      BY <3>1, <3>2 DEF OthersSame
  <2> QED
    BY <2>1, <2>2
<1>3. FreshInv'
  BY <1>2 DEF FreshInv, SocketInv
<1>4. ASSUME NEW b \in heap', buf'[b].accept # None
      PROVE  /\ \A h \in Handles : table'[h] # buf'[b].accept
             /\ \A v \in Threads : buf'[b].accept \notin {thr'[v].s, thr'[v].a}
             /\ \A c \in heap' \ {b} : buf'[b].accept # buf'[c].accept
  <2>1. b \in heap /\ buf'[b].accept = buf[b].accept /\ buf'[b].accept # n
    BY <1>4
  <2>2. /\ \A h \in Handles : table[h] # buf[b].accept
        /\ \A v \in Threads : buf[b].accept \notin {thr[v].s, thr[v].a}
        /\ \A c \in heap \ {b} : buf[b].accept # buf[c].accept
    BY <1>4, <2>1 DEF SocketInv, SocketOwnership
  <2>3. \A v \in Threads : buf'[b].accept \notin {thr'[v].s, thr'[v].a}
    BY <1>4, <2>1, <2>2 DEF OthersSame
  <2> QED
    BY <1>4, <2>1, <2>2, <2>3
<1>5. SocketOwnership'
  BY <1>4 DEF SocketInv, SocketOwnership
<1> QED
  BY <1>3, <1>5 DEF SocketInv

-----------------------------------------------------------------------------
(* Ownership, action by action.                                            *)

\* IndexOwnership is kept by a proof of its own: CleanupNet breaks it for a while, and the
\* others hold on.
Ownership == IssuedInv /\ BufferOwnership /\ SocketInv

OwnershipKept == Ownership' /\ (IndexOwnership => IndexOwnership')

LEMMA MovedSame ==
  ASSUME NEW t \in Threads, NEW pc, NEW h, NEW s, NEW a, NEW ah, NEW rh, NEW b, NEW k,
         Moved(t, pc, h, s, a, ah, rh, b, k)
  PROVE  /\ OthersSame(t)
         /\ thr'[t].pc = pc /\ thr'[t].h = h /\ thr'[t].s = s /\ thr'[t].a = a
         /\ thr'[t].ah = ah /\ thr'[t].rh = rh /\ thr'[t].b = b
BY DEF Moved, OthersSame

\* A step that changes only its thread's locals, to values it had or None.
LEMMA LocalStep ==
  ASSUME TypeOK, LocalsInv, Ownership, NEW t \in Threads, OthersSame(t),
         UNCHANGED <<table, indexes, issued, bufVars>>,
         thr'[t].h \in {None, thr[t].h}, thr'[t].ah \in {None, thr[t].h, thr[t].ah},
         thr'[t].rh \in Maybe({thr[t].h, thr[t].ah, thr[t].rh}),
         thr'[t].s \in {None, thr[t].s}, thr'[t].a \in {None, thr[t].s, thr[t].a},
         thr'[t].b = thr[t].b,
         thr[t].pc \notin {"add_insert", "destroy_index"},
         thr'[t].pc \notin {"add_index", "add_insert", "destroy_index"}
  PROVE  OwnershipKept
<1>1. IssuedInv'
  BY IssuedFrame DEF Ownership, IssuedInv, Maybe, bufVars
<1>2. IndexOwnership => IndexOwnership'
  BY IndexFrame DEF Ownership
<1>3. BufferOwnership'
  BY BuffersKept DEF Ownership, bufVars, OthersSame, Threads
<1>4. SocketInv'
  <2>1. \A u \in Threads : thr[u].pc \in {"add_index", "add_insert"} => thr[u].a \in Sockets
    BY DEF LocalsInv, LocalsOK
  <2> QED
    BY <2>1, SocketFrame DEF Ownership, bufVars
<1> QED
  BY <1>1, <1>2, <1>3, <1>4 DEF Ownership, OwnershipKept

LEMMA AddIndexOwnership ==
  ASSUME TypeOK, LocalsInv, Ownership, NEW t \in Threads, AddIndex(t)
  PROVE  OwnershipKept
<1> USE DEF At
<1>0. /\ LocalsOK(t) /\ thr[t].pc = "add_index" /\ UNCHANGED <<table, bufVars>>
      /\ UNCHANGED <<heap, buf, io>>
  BY DEF AddIndex, LocalsInv, bufVars
<1>1. ASSUME NEW i \in FreeIndexes, indexes' = indexes \cup {i}, issued' = issued \cup {i},
             thr' = [thr EXCEPT ![t].pc = "add_insert", ![t].ah = i]
      PROVE  OwnershipKept
  <2>1. i \in Handles /\ i \notin indexes
    BY DEF FreeIndexes, TypeOK
  <2>2. /\ OthersSame(t) /\ thr'[t].pc = "add_insert" /\ thr'[t].h = thr[t].h
        /\ thr'[t].s = thr[t].s /\ thr'[t].a = thr[t].a /\ thr'[t].ah = i
        /\ thr'[t].rh = thr[t].rh /\ thr'[t].b = thr[t].b
    <3>1. Moved(t, "add_insert", thr[t].h, thr[t].s, thr[t].a, i, thr[t].rh, thr[t].b, thr[t].k)
      BY <1>1, <2>1, IndexMoves
    <3> QED
      BY <3>1, MovedSame
  <2>3. IssuedInv'
    <3>1. thr'[t].h \in Maybe(issued') /\ thr'[t].ah \in Maybe(issued') /\ thr'[t].rh \in Maybe(issued')
      BY <1>1, <2>2 DEF Ownership, IssuedInv, Maybe
    <3> QED
      BY <1>0, <1>1, <2>2, <3>1, IssuedFrame DEF Ownership
  <2>4. IndexOwnership => IndexOwnership'
    <3> SUFFICES ASSUME IndexOwnership PROVE IndexOwnership'
      OBVIOUS
    <3>1. table[i] = None /\ \A u \in Threads : ~Owns(u, i)
      BY <2>1 DEF IndexOwnership
    <3>2. \A h \in Handles : ~Owns(t, h) /\ (Owns(t, h)' <=> h = i)
      BY <1>0, <2>2 DEF Owns
    <3>3. \A u \in Threads, h \in Handles : u # t => (Owns(u, h)' <=> Owns(u, h))
      BY <2>2 DEF Owns, OthersSame
    <3>4. \A h \in Handles : table'[h] = table[h] /\ (h \in indexes' <=> h \in indexes \/ h = i)
      BY <1>0, <1>1
    <3> QED
      BY <3>1, <3>2, <3>3, <3>4 DEF IndexOwnership
  <2>5. BufferOwnership'
    BY <1>0, <2>2, BuffersKept DEF Ownership, OthersSame, Threads
  <2>6. SocketInv'
    <3>1. \A u \in Threads : thr[u].pc \in {"add_index", "add_insert"} => thr[u].a \in Sockets
      BY DEF LocalsInv, LocalsOK
    <3> QED
      BY <1>0, <2>2, <3>1, SocketFrame DEF Ownership
  <2> QED
    BY <2>3, <2>4, <2>5, <2>6 DEF Ownership, OwnershipKept
<1>2. ASSUME UNCHANGED <<indexes, issued>>, IF t \in Users THEN Return(t) ELSE Goto(t, "reset")
      PROVE  OwnershipKept
  <2>1. CASE t \in Users
    <3>1. thr[t].b = None
      BY <1>0, <2>1 DEF LocalsOK
    <3>2. Moved(t, "idle", None, None, None, None, None, None, 0)
      BY <1>2, <2>1, ReturnMoves
    <3> QED
      BY <1>0, <1>2, <3>1, <3>2, MovedSame, LocalStep DEF Maybe
  <2>2. CASE t \notin Users
    <3>1. Moved(t, "reset", thr[t].h, thr[t].s, thr[t].a, thr[t].ah, thr[t].rh, thr[t].b, thr[t].k)
      BY <1>2, <2>2, GotoMoves DEF PCs
    <3> QED
      BY <1>0, <1>2, <3>1, MovedSame, LocalStep DEF Maybe
  <2> QED
    BY <2>1, <2>2
<1> QED
  BY <1>1, <1>2 DEF AddIndex

LEMMA AddInsertOwnership ==
  ASSUME TypeOK, LocalsInv, Ownership, NEW t \in Threads, AddInsert(t)
  PROVE  OwnershipKept
<1> USE DEF At
<1>0. /\ LocalsOK(t) /\ thr[t].pc = "add_insert" /\ thr[t].a \in Sockets /\ thr[t].ah \in Handles
      /\ thr[t].ah # None /\ UNCHANGED <<indexes, issued, bufVars>> /\ UNCHANGED <<heap, buf, io>>
  BY ConstantsOK DEF AddInsert, LocalsInv, LocalsOK, bufVars
<1>1. IndexOwnership => Owns(t, thr[t].ah) /\ table[thr[t].ah] = None
  BY <1>0 DEF Owns, IndexOwnership
<1>2. /\ table' = [table EXCEPT ![thr[t].ah] = thr[t].a] \/ UNCHANGED table
      /\ table'[thr[t].ah] # None /\ \A h \in Handles : h # thr[t].ah => table'[h] = table[h]
  BY <1>0, ConstantsOK DEF AddInsert, TypeOK
<1>3. /\ OthersSame(t) /\ thr'[t].pc \in {"idle", "set_accepted"}
      /\ thr'[t].h \in {None, thr[t].h} /\ thr'[t].s \in {None, thr[t].s}
      /\ thr'[t].a \in {None, thr[t].a} /\ thr'[t].ah \in {None, thr[t].ah}
      /\ thr'[t].rh \in {None, thr[t].rh} /\ thr'[t].b = thr[t].b
  <2>1. CASE t \in Users
    <3>1. thr[t].b = None
      BY <1>0, <2>1 DEF LocalsOK
    <3>2. Moved(t, "idle", None, None, None, None, None, None, 0)
      BY <2>1, ReturnMoves DEF AddInsert
    <3> QED
      BY <3>1, <3>2, MovedSame
  <2>2. CASE t \notin Users
    <3>1. Moved(t, "set_accepted", thr[t].h, thr[t].s, thr[t].a, thr[t].ah, thr[t].rh, thr[t].b,
                thr[t].k)
      BY <2>2, GotoMoves DEF AddInsert, PCs
    <3> QED
      BY <3>1, MovedSame
  <2> QED
    BY <2>1, <2>2
<1>4. IssuedInv'
  <2>1. thr'[t].h \in Maybe(issued') /\ thr'[t].ah \in Maybe(issued') /\ thr'[t].rh \in Maybe(issued')
    BY <1>0, <1>3 DEF Ownership, IssuedInv, Maybe
  <2>2. thr[t].ah \in issued
    BY <1>0 DEF Ownership, IssuedInv, Maybe
  <2> QED
    BY <1>0, <1>2, <1>3, <2>1, <2>2, IssuedFrame DEF Ownership
<1>5. IndexOwnership => IndexOwnership'
  <2>1. \A h \in Handles : /\ ~Owns(t, h)' /\ (Owns(t, h) <=> h = thr[t].ah)
                           /\ \A u \in Threads : u # t => (Owns(u, h)' <=> Owns(u, h))
    BY <1>0, <1>3 DEF Owns, OthersSame
  <2> QED
    BY <1>0, <1>1, <1>2, <2>1 DEF IndexOwnership
<1>6. BufferOwnership'
  BY <1>0, <1>3, BuffersKept DEF Ownership, OthersSame, Threads
<1>7. SocketInv'
  <2>1. CASE UNCHANGED table
    <3>1. \A u \in Threads : thr[u].pc \in {"add_index", "add_insert"} => thr[u].a \in Sockets
      BY DEF LocalsInv, LocalsOK
    <3> QED
      BY <1>0, <1>3, <2>1, <3>1, SocketFrame DEF Ownership
  <2>2. CASE table' = [table EXCEPT ![thr[t].ah] = thr[t].a]
    BY <1>0, <1>3, <2>2, SocketInsert DEF Ownership
  <2> QED
    BY <1>2, <2>1, <2>2
<1> QED
  BY <1>4, <1>5, <1>6, <1>7 DEF Ownership, OwnershipKept

LEMMA RemoveOwnership ==
  ASSUME TypeOK, LocalsInv, Ownership, NEW t \in Threads, RemoveErase(t) \/ RemoveIndex(t)
  PROVE  OwnershipKept
<1> USE DEF At
<1>0. /\ LocalsOK(t) /\ thr[t].pc \in {"remove", "destroy_index"} /\ thr[t].rh \in Handles
      /\ UNCHANGED <<issued, bufVars>> /\ UNCHANGED <<heap, buf, io>>
      /\ \A u \in Threads : thr[u].pc \in {"add_index", "add_insert"} => thr[u].a \in Sockets
  BY DEF RemoveErase, RemoveIndex, LocalsInv, LocalsOK, bufVars
<1>1. ASSUME AfterRemove(t)
      PROVE  /\ OthersSame(t) /\ thr'[t].pc \in {"idle", "reset"}
             /\ thr'[t].h \in {None, thr[t].h} /\ thr'[t].s \in {None, thr[t].s}
             /\ thr'[t].a \in {None, thr[t].a} /\ thr'[t].ah \in {None, thr[t].ah}
             /\ thr'[t].rh = None /\ thr'[t].b = thr[t].b
  BY <1>1, AfterRemoveMoves, MovedSame
<1>2. CASE RemoveErase(t) /\ table[thr[t].rh] = None
  <2>1. AfterRemove(t) /\ UNCHANGED <<table, indexes>>
    BY <1>2 DEF RemoveErase
  <2> QED
    BY <1>0, <1>1, <1>2, <2>1, LocalStep DEF RemoveErase, Maybe
<1>3. CASE RemoveErase(t) /\ table[thr[t].rh] # None
  <2>1. /\ Goto(t, "destroy_index") /\ UNCHANGED indexes
        /\ table'[thr[t].rh] = None /\ \A h \in Handles : h # thr[t].rh => table'[h] = table[h]
    BY <1>0, <1>3 DEF RemoveErase, TypeOK
  <2>2. /\ OthersSame(t) /\ thr'[t].pc = "destroy_index" /\ thr'[t].h = thr[t].h
        /\ thr'[t].s = thr[t].s /\ thr'[t].a = thr[t].a /\ thr'[t].ah = thr[t].ah
        /\ thr'[t].rh = thr[t].rh /\ thr'[t].b = thr[t].b
    <3>1. Moved(t, "destroy_index", thr[t].h, thr[t].s, thr[t].a, thr[t].ah, thr[t].rh, thr[t].b,
                thr[t].k)
      BY <2>1, GotoMoves DEF PCs
    <3> QED
      BY <3>1, MovedSame
  <2>3. IssuedInv'
    <3>1. thr'[t].h \in Maybe(issued') /\ thr'[t].ah \in Maybe(issued') /\ thr'[t].rh \in Maybe(issued')
      BY <1>0, <2>2 DEF Ownership, IssuedInv, Maybe
    <3> QED
      BY <1>0, <2>1, <2>2, <3>1, IssuedFrame DEF Ownership
  <2>4. IndexOwnership => IndexOwnership'
    <3> SUFFICES ASSUME IndexOwnership PROVE IndexOwnership'
      OBVIOUS
    <3>1. \A u \in Threads : ~Owns(u, thr[t].rh)
      BY <1>0, <1>3 DEF IndexOwnership
    <3>2. \A h \in Handles : /\ Owns(t, h)' <=> h = thr[t].rh
                             /\ ~Owns(t, h)
                             /\ \A u \in Threads : u # t => (Owns(u, h)' <=> Owns(u, h))
      BY <1>3, <2>2 DEF RemoveErase, Owns, OthersSame
    <3> QED
      BY <1>0, <1>3, <2>1, <3>1, <3>2 DEF IndexOwnership
  <2>5. BufferOwnership'
    BY <1>0, <2>2, BuffersKept DEF Ownership, OthersSame, Threads
  <2>6. SocketInv'
    BY <1>0, <2>1, <2>2, SocketFrame DEF Ownership
  <2> QED
    BY <2>3, <2>4, <2>5, <2>6 DEF Ownership, OwnershipKept
<1>4. CASE RemoveIndex(t)
  <2>1. AfterRemove(t) /\ UNCHANGED table /\ indexes' = indexes \ {thr[t].rh} /\ thr[t].pc = "destroy_index"
    BY <1>4 DEF RemoveIndex
  <2>3. IssuedInv'
    <3>1. thr'[t].h \in Maybe(issued') /\ thr'[t].ah \in Maybe(issued') /\ thr'[t].rh \in Maybe(issued')
      BY <1>0, <1>1, <2>1 DEF Ownership, IssuedInv, Maybe
    <3> QED
      BY <1>0, <1>1, <2>1, <3>1, IssuedFrame DEF Ownership
  <2>4. IndexOwnership => IndexOwnership'
    <3>1. Owns(t, thr[t].rh)
      BY <2>1 DEF Owns
    <3>2. \A h \in Handles : /\ ~Owns(t, h)' /\ (Owns(t, h) <=> h = thr[t].rh)
                             /\ \A u \in Threads : u # t => (Owns(u, h)' <=> Owns(u, h))
      BY <1>1, <2>1 DEF Owns, OthersSame
    <3> QED
      BY <1>0, <2>1, <3>1, <3>2 DEF IndexOwnership
  <2>5. BufferOwnership'
    BY <1>0, <1>1, <2>1, BuffersKept DEF Ownership, OthersSame, Threads
  <2>6. SocketInv'
    BY <1>0, <1>1, <2>1, SocketFrame DEF Ownership
  <2> QED
    BY <2>3, <2>4, <2>5, <2>6 DEF Ownership, OwnershipKept
<1> QED
  BY <1>2, <1>3, <1>4

\* A step of one thread that starts, returns or gives back buffers other than accepts.
LEMMA BufferStep ==
  ASSUME TypeOK, LocalsInv, Ownership, NEW t \in Threads, OthersSame(t),
         UNCHANGED <<table, indexes, issued>>, BufferOwnership',
         \A b \in heap' :
            \/ b \in heap /\ buf'[b] = buf[b] /\ (io'[b] # "none" => io[b] # "none")
            \/ /\ buf'[b].handle \in issued /\ buf'[b].sock \in Sockets
               /\ buf'[b].type # "accept" /\ buf'[b].accept = None,
         thr'[t].h \in {None, thr[t].h}, thr'[t].ah \in {None, thr[t].h, thr[t].ah},
         thr'[t].rh \in Maybe({thr[t].h, thr[t].ah, thr[t].rh}),
         thr'[t].s \in {None, thr[t].s}, thr'[t].a \in {None, thr[t].s, thr[t].a},
         thr[t].pc \notin {"add_insert", "destroy_index"},
         thr'[t].pc \notin {"add_index", "add_insert", "destroy_index"}
  PROVE  OwnershipKept
<1>1. IssuedInv'
  <2>1. thr'[t].h \in Maybe(issued') /\ thr'[t].ah \in Maybe(issued') /\ thr'[t].rh \in Maybe(issued')
    BY DEF Ownership, IssuedInv, Maybe
  <2>2. \A b \in heap' : \/ b \in heap /\ buf'[b].handle = buf[b].handle
                         \/ buf'[b].handle \in Maybe(issued')
    BY DEF Maybe
  <2> QED
    BY <2>1, <2>2, IssuedFrame DEF Ownership
<1>2. IndexOwnership => IndexOwnership'
  BY IndexFrame DEF Ownership
<1>3. SocketInv'
  <2>1. \A u \in Threads : thr[u].pc \in {"add_index", "add_insert"} => thr[u].a \in Sockets
    BY DEF LocalsInv, LocalsOK
  <2>2. issued \subseteq Handles
    BY DEF TypeOK
  <2>3. \A b \in heap' : buf'[b].accept = None \/ (b \in heap /\ buf'[b].accept = buf[b].accept)
    OBVIOUS
  <2>4. \A b \in heap' : io'[b] # "none" =>
          \/ b \in heap /\ io[b] # "none" /\ buf'[b] = buf[b]
          \/ buf'[b].handle \in Handles /\ buf'[b].sock \in Sockets /\ buf'[b].type # "accept"
    BY <2>2
  <2> QED
    BY <2>1, <2>3, <2>4, SocketFrame DEF Ownership
<1> QED
  BY <1>1, <1>2, <1>3 DEF Ownership, OwnershipKept

LEMMA CallOwnership ==
  ASSUME TypeOK, LocalsInv, Ownership, NEW t \in Users, Call(t)
  PROVE  OwnershipKept
<1> USE DEF At
<1>0. /\ t \in Threads /\ thr[t] = Idle /\ thr[t].b = None
      /\ \A u \in Threads : thr[u].pc \in {"add_index", "add_insert"} => thr[u].a \in Sockets
      /\ UNCHANGED <<table, indexes, issued>> /\ UNCHANGED <<heap, buf, io>>
  BY IdleFields DEF Call, TcpCreate, TcpDestroy, TcpListen, TcpConnect, TcpSend, GetTcpSocket, TypeOK,
         Threads, LocalsInv, LocalsOK, tableVars, bufVars
<1>1. CASE TcpCreate(t)
  <2>1. PICK s \in FreeSockets : thr' = [thr EXCEPT ![t].pc = "add_index", ![t].a = s]
    BY <1>1 DEF TcpCreate
  <2>2. /\ s \in Sockets /\ s # None /\ \A h \in Handles : table[h] # s
        /\ \A u \in Threads : thr[u].s # s /\ thr[u].a # s
        /\ \A b \in heap : buf[b].accept # s
    BY ConstantsOK DEF FreeSockets, Referenced
  <2>3. /\ OthersSame(t) /\ thr'[t].pc = "add_index" /\ thr'[t].h = None
        /\ thr'[t].s = None /\ thr'[t].a = s /\ thr'[t].ah = None
        /\ thr'[t].rh = None /\ thr'[t].b = None
    <3>1. Moved(t, "add_index", thr[t].h, thr[t].s, s, thr[t].ah, thr[t].rh, thr[t].b, thr[t].k)
      BY <1>0, <2>1, <2>2, CreateMoves
    <3> QED
      BY <1>0, <3>1, MovedSame, IdleFields
  <2>4. IssuedInv'
    BY <1>0, <2>3, IssuedFrame DEF Ownership, Maybe
  <2>5. IndexOwnership => IndexOwnership'
    BY <1>0, <2>3, IndexFrame, IdleFields DEF Ownership
  <2>6. BufferOwnership'
    BY <1>0, <2>3, BuffersKept DEF Ownership, OthersSame, Threads
  <2>7. SocketInv'
    BY <1>0, <2>2, <2>3, SocketFresh DEF Ownership
  <2> QED
    BY <2>4, <2>5, <2>6, <2>7 DEF Ownership, OwnershipKept
<1>2. ASSUME NEW h \in told, NEW call \in {"listen", "connect", "send"},
             TcpDestroy(t, h) \/ GetTcpSocket(t, call, h)
      PROVE  OwnershipKept
  <2>1. h \in Handles /\ h \in issued
    BY DEF TypeOK
  <2>2. /\ OthersSame(t) /\ thr'[t].pc \in {"remove", "listen", "connect", "send"}
        /\ thr'[t].h \in {None, h} /\ thr'[t].s \in {None, table[h]} /\ thr'[t].a = None
        /\ thr'[t].ah = None /\ thr'[t].rh \in {None, h} /\ thr'[t].b = None
    <3>1. CASE TcpDestroy(t, h)
      <4>1. Moved(t, "remove", thr[t].h, thr[t].s, thr[t].a, thr[t].ah, h, thr[t].b, thr[t].k)
        BY <1>0, <2>1, <3>1, DestroyMoves DEF TcpDestroy, PCs, Maybe
      <4> QED
        BY <1>0, <4>1, MovedSame, IdleFields
    <3>2. CASE GetTcpSocket(t, call, h)
      <4>1. table[h] \in Sockets /\ call \in PCs \ {"idle"}
        BY <2>1, <3>2 DEF GetTcpSocket, TypeOK, Maybe, PCs
      <4>2. Moved(t, call, h, table[h], thr[t].a, thr[t].ah, thr[t].rh, thr[t].b, thr[t].k)
        BY <1>0, <2>1, <3>2, <4>1, FindMoves DEF GetTcpSocket
      <4> QED
        BY <1>0, <4>2, MovedSame, IdleFields
    <3> QED
      BY <1>2, <3>1, <3>2
  <2>3. IssuedInv'
    BY <1>0, <2>1, <2>2, IssuedFrame DEF Ownership, Maybe
  <2>4. IndexOwnership => IndexOwnership'
    BY <1>0, <2>2, IndexFrame, IdleFields DEF Ownership
  <2>5. BufferOwnership'
    BY <1>0, <2>2, BuffersKept DEF Ownership, OthersSame, Threads
  <2>6. SocketInv'
    BY <1>0, <2>1, <2>2, SocketFrame DEF Ownership
  <2> QED
    BY <2>3, <2>4, <2>5, <2>6 DEF Ownership, OwnershipKept
<1> QED
  BY <1>1, <1>2 DEF Call, TcpListen, TcpConnect, TcpSend

\* AsyncTcpAccept by a thread that returns, or goes on arming.
LEMMA AcceptStep ==
  ASSUME TypeOK, LocalsInv, Ownership, NEW t \in Threads, OthersSame(t),
         UNCHANGED <<table, indexes, issued>>, BufferOwnership',
         NEW b \in Buffers, thr[t].h \in Handles, thr[t].s \in Sockets,
         AsyncTcpAccept(b, thr[t].h, thr[t].s),
         thr'[t].h \in {None, thr[t].h}, thr'[t].ah \in {None, thr[t].ah},
         thr'[t].rh \in {None, thr[t].rh},
         thr'[t].s \in {None, thr[t].s}, thr'[t].a \in {None, thr[t].a},
         thr[t].pc \notin {"add_insert", "destroy_index"},
         thr'[t].pc \notin {"add_index", "add_insert", "destroy_index"}
  PROVE  OwnershipKept
<1>1. IssuedInv'
  <2>1. thr'[t].h \in Maybe(issued') /\ thr'[t].ah \in Maybe(issued') /\ thr'[t].rh \in Maybe(issued')
    BY DEF Ownership, IssuedInv, Maybe
  <2>2. \A c \in heap' : \/ c \in heap /\ buf'[c].handle = buf[c].handle
                         \/ buf'[c].handle \in Maybe(issued')
    BY DEF AsyncTcpAccept, Submit, TypeOK, Ownership, IssuedInv
  <2> QED
    BY <2>1, <2>2, IssuedFrame DEF Ownership
<1>2. IndexOwnership => IndexOwnership'
  BY IndexFrame DEF Ownership
<1>3. SocketInv'
  <2>1. \A u \in Threads : thr[u].pc \in {"add_index", "add_insert"} => thr[u].a \in Sockets
    BY DEF LocalsInv, LocalsOK
  <2> QED
    BY <2>1, SocketAccept DEF Ownership
<1> QED
  BY <1>1, <1>2, <1>3 DEF Ownership, OwnershipKept

LEMMA UserOwnership ==
  ASSUME TypeOK, LocalsInv, Ownership, NEW t \in Threads,
         Listen(t) \/ ArmAccept(t) \/ Connect(t) \/ Send(t)
  PROVE  OwnershipKept
<1> USE DEF At
<1>0. /\ t \in Users /\ thr[t].b = None /\ UNCHANGED <<table, indexes, issued>>
      /\ thr[t].h \in Handles /\ thr[t].s \in Sockets
      /\ thr[t].pc \in {"listen", "arm", "connect", "send"} /\ t \notin Workers
  BY ConstantsOK DEF Listen, ArmAccept, Connect, Send, LocalsInv, LocalsOK, WorkerPCs, tableVars
<1>1. ASSUME Return(t)
      PROVE  /\ OthersSame(t) /\ thr'[t].pc = "idle" /\ thr'[t].h = None /\ thr'[t].s = None
             /\ thr'[t].a = None /\ thr'[t].ah = None /\ thr'[t].rh = None /\ thr'[t].b = None
  BY <1>1, ReturnMoves, MovedSame
<1>2. ASSUME Return(t), UNCHANGED bufVars PROVE OwnershipKept
  BY <1>0, <1>1, <1>2, LocalStep DEF Maybe
<1>3. CASE Listen(t)
  <2>1. ASSUME Goto(t, "arm"), UNCHANGED bufVars PROVE OwnershipKept
    <3>1. Moved(t, "arm", thr[t].h, thr[t].s, thr[t].a, thr[t].ah, thr[t].rh, thr[t].b, thr[t].k)
      BY <2>1, GotoMoves DEF PCs
    <3> QED
      BY <1>0, <2>1, <3>1, MovedSame, LocalStep DEF Maybe
  <2> QED
    BY <1>2, <1>3, <2>1 DEF Listen
<1>4. CASE Connect(t)
  <2>1. ASSUME thr' = [thr EXCEPT ![t].pc = "recv_new", ![t].a = thr[t].s, ![t].ah = thr[t].h],
               UNCHANGED bufVars
        PROVE  OwnershipKept
    <3>1. Moved(t, "recv_new", thr[t].h, thr[t].s, thr[t].s, thr[t].h, thr[t].rh, thr[t].b, thr[t].k)
      BY <2>1, ConnectMoves
    <3>2. /\ OthersSame(t) /\ thr'[t].pc = "recv_new" /\ thr'[t].h = thr[t].h
          /\ thr'[t].s = thr[t].s /\ thr'[t].a = thr[t].s /\ thr'[t].ah = thr[t].h
          /\ thr'[t].rh = thr[t].rh /\ thr'[t].b = thr[t].b
      BY <3>1, MovedSame
    <3> QED
      BY <1>0, <2>1, <3>2, LocalStep DEF Maybe
  <2> QED
    BY <1>2, <1>4, <2>1 DEF Connect
<1>5. CASE Send(t)
  <2>1. ASSUME NEW b \in Buffers \ heap, Submit(b, "send", thr[t].h, thr[t].s, None), Return(t)
        PROVE  OwnershipKept
    <3>1. BufferOwnership'
      BY <1>0, <1>1, <2>1, BufferStarted DEF Ownership, OthersSame, Threads
    <3>2. thr[t].h \in issued
      BY <1>0, ConstantsOK DEF Ownership, IssuedInv, Maybe
    <3>3. \A c \in heap' :
            \/ c \in heap /\ buf'[c] = buf[c] /\ (io'[c] # "none" => io[c] # "none")
            \/ /\ buf'[c].handle \in issued /\ buf'[c].sock \in Sockets
               /\ buf'[c].type # "accept" /\ buf'[c].accept = None
      BY <1>0, <2>1, <3>2 DEF Submit, TypeOK
    <3> QED
      BY <1>0, <1>1, <2>1, <3>1, <3>3, BufferStep DEF Maybe
  <2> QED
    BY <1>2, <1>5, <2>1 DEF Send
<1>6. CASE ArmAccept(t)
  <2>1. ASSUME NEW b \in Buffers \ heap, AsyncTcpAccept(b, thr[t].h, thr[t].s),
               IF thr[t].k + 1 = Backlog THEN Return(t) ELSE thr' = [thr EXCEPT ![t].k = @ + 1]
        PROVE  OwnershipKept
    <3>1. /\ OthersSame(t) /\ thr'[t].pc \in {"idle", "arm"} /\ thr'[t].h \in {None, thr[t].h}
          /\ thr'[t].s \in {None, thr[t].s} /\ thr'[t].a \in {None, thr[t].a}
          /\ thr'[t].ah \in {None, thr[t].ah} /\ thr'[t].rh \in {None, thr[t].rh}
      <4>1. CASE thr[t].k + 1 = Backlog
        BY <1>1, <2>1, <4>1
      <4>2. CASE thr[t].k + 1 # Backlog
        <5>1. thr'[t] = [thr[t] EXCEPT !.k = @ + 1] /\ OthersSame(t)
          BY <2>1, <4>2 DEF TypeOK, OthersSame
        <5> QED
          BY <1>6, <5>1, FieldTypes DEF ArmAccept, Locals
      <4> QED
        BY <4>1, <4>2
    <3>2. BufferOwnership'
      <4>1. PICK a \in FreeSockets : Submit(b, "accept", thr[t].h, thr[t].s, a)
        BY <2>1 DEF AsyncTcpAccept
      <4>2. \A w \in Workers : thr'[w].b = thr[w].b
        BY <1>0, <3>1 DEF OthersSame, Threads
      <4> QED
        BY <4>1, <4>2, BufferStarted DEF Ownership
    <3> QED
      BY <1>0, <2>1, <3>1, <3>2, AcceptStep
  <2> QED
    BY <1>2, <1>6, <2>1 DEF ArmAccept
<1> QED
  BY <1>3, <1>4, <1>5, <1>6

LEMMA RecvNewOwnership ==
  ASSUME TypeOK, LocalsInv, Ownership, NEW t \in Threads, RecvNew(t)
  PROVE  OwnershipKept
<1> USE DEF At
<1>0. /\ thr[t].pc = "recv_new" /\ UNCHANGED <<table, indexes, issued>> /\ LocalsOK(t)
      /\ thr[t].a \in Sockets /\ thr[t].ah \in Handles /\ thr[t].ah \in issued
  BY ConstantsOK DEF RecvNew, LocalsInv, LocalsOK, tableVars, Ownership, IssuedInv, Maybe
<1>1. ASSUME IF t \in Users THEN Return(t) ELSE Goto(t, "reset")
      PROVE  /\ OthersSame(t) /\ thr'[t].pc \in {"idle", "reset"} /\ thr'[t].h \in {None, thr[t].h}
             /\ thr'[t].s \in {None, thr[t].s} /\ thr'[t].a \in {None, thr[t].a}
             /\ thr'[t].ah \in {None, thr[t].ah} /\ thr'[t].rh \in {None, thr[t].rh}
             /\ thr'[t].b = thr[t].b
  <2>1. CASE t \in Users
    <3>1. thr[t].b = None
      BY <1>0, <2>1 DEF LocalsOK
    <3>2. Moved(t, "idle", None, None, None, None, None, None, 0)
      BY <1>1, <2>1, ReturnMoves
    <3> QED
      BY <3>1, <3>2, MovedSame
  <2>2. CASE t \notin Users
    <3>1. Moved(t, "reset", thr[t].h, thr[t].s, thr[t].a, thr[t].ah, thr[t].rh, thr[t].b, thr[t].k)
      BY <1>1, <2>2, GotoMoves DEF PCs
    <3> QED
      BY <3>1, MovedSame
  <2> QED
    BY <2>1, <2>2
<1>2. ASSUME NEW b \in Buffers \ heap, AsyncTcpRecv(b, thr[t].ah, thr[t].a),
             IF t \in Users THEN Return(t) ELSE Goto(t, "reset")
      PROVE  OwnershipKept
  <2>1. Submit(b, "recv", thr[t].ah, thr[t].a, None)
    BY <1>2 DEF AsyncTcpRecv
  <2>2. BufferOwnership'
    BY <1>1, <1>2, <2>1, BufferStarted DEF Ownership, OthersSame, Threads
  <2>3. \A c \in heap' :
          \/ c \in heap /\ buf'[c] = buf[c] /\ (io'[c] # "none" => io[c] # "none")
          \/ /\ buf'[c].handle \in issued /\ buf'[c].sock \in Sockets
             /\ buf'[c].type # "accept" /\ buf'[c].accept = None
    BY <1>0, <2>1 DEF Submit, TypeOK
  <2> QED
    BY <1>0, <1>1, <1>2, <2>2, <2>3, BufferStep DEF Maybe
<1>3. ASSUME UNCHANGED bufVars, t \in Users, Return(t) PROVE OwnershipKept
  BY <1>0, <1>1, <1>3, LocalStep DEF Maybe
<1>4. ASSUME UNCHANGED bufVars, thr' = [thr EXCEPT ![t].pc = "on_error", ![t].rh = thr[t].ah]
      PROVE  OwnershipKept
  <2>1. Moved(t, "on_error", thr[t].h, thr[t].s, thr[t].a, thr[t].ah, thr[t].ah, thr[t].b, thr[t].k)
    BY <1>0, <1>4, DestroyMoves DEF PCs, Maybe
  <2>2. /\ OthersSame(t) /\ thr'[t].pc = "on_error" /\ thr'[t].h = thr[t].h
        /\ thr'[t].s = thr[t].s /\ thr'[t].a = thr[t].a /\ thr'[t].ah = thr[t].ah
        /\ thr'[t].rh = thr[t].ah /\ thr'[t].b = thr[t].b
    BY <2>1, MovedSame
  <2> QED
    BY <1>0, <1>4, <2>2, LocalStep DEF Maybe
<1> QED
  BY <1>2, <1>3, <1>4 DEF RecvNew

LEMMA HandlerOwnership ==
  ASSUME TypeOK, LocalsInv, Ownership, NEW t \in Threads,
         \/ SetAccepted(t) \/ OnTcpAccepted(t) \/ OnTcpError(t) \/ OnTcpDisconnected(t)
         \/ OnTcpReceived(t)
  PROVE  OwnershipKept
<1> USE DEF At
<1>0. /\ UNCHANGED <<table, indexes, issued, bufVars>> /\ LocalsOK(t)
      /\ thr[t].pc \in {"set_accepted", "on_accepted", "on_error", "on_disconnected", "on_received"}
  BY DEF SetAccepted, OnTcpAccepted, OnTcpError, OnTcpDisconnected, OnTcpReceived, LocalsInv, tableVars
<1>1. ASSUME NEW pc \in {"on_accepted", "recv_new", "remove", "rearm"}, Goto(t, pc) PROVE OwnershipKept
  <2>1. Moved(t, pc, thr[t].h, thr[t].s, thr[t].a, thr[t].ah, thr[t].rh, thr[t].b, thr[t].k)
    BY <1>1, GotoMoves DEF PCs
  <2>2. /\ OthersSame(t) /\ thr'[t].pc = pc /\ thr'[t].h = thr[t].h
        /\ thr'[t].s = thr[t].s /\ thr'[t].a = thr[t].a /\ thr'[t].ah = thr[t].ah
        /\ thr'[t].rh = thr[t].rh /\ thr'[t].b = thr[t].b
    BY <2>1, MovedSame
  <2> QED
    BY <1>0, <2>2, LocalStep DEF Maybe
<1>2. ASSUME thr[t].pc = "set_accepted", thr' = [thr EXCEPT ![t].pc = "remove", ![t].rh = thr[t].ah]
      PROVE  OwnershipKept
  <2>1. thr[t].ah \in Maybe(Handles)
    BY <1>0, <1>2 DEF LocalsOK, Maybe
  <2>2. Moved(t, "remove", thr[t].h, thr[t].s, thr[t].a, thr[t].ah, thr[t].ah, thr[t].b, thr[t].k)
    BY <1>2, <2>1, DestroyMoves DEF PCs
  <2>3. /\ OthersSame(t) /\ thr'[t].pc = "remove" /\ thr'[t].h = thr[t].h
        /\ thr'[t].s = thr[t].s /\ thr'[t].a = thr[t].a /\ thr'[t].ah = thr[t].ah
        /\ thr'[t].rh = thr[t].ah /\ thr'[t].b = thr[t].b
    BY <2>2, MovedSame
  <2> QED
    BY <1>0, <2>3, LocalStep DEF Maybe
<1> QED
  BY <1>1, <1>2 DEF SetAccepted, OnTcpAccepted, OnTcpError, OnTcpDisconnected, OnTcpReceived

LEMMA FinishOwnership ==
  ASSUME TypeOK, LocalsInv, Ownership, NEW t \in Threads, Reset(t) \/ OnRecv(t) \/ Rearm(t)
  PROVE  OwnershipKept
<1> USE DEF At
<1>0. /\ UNCHANGED <<table, indexes, issued>> /\ t \in Workers
      /\ thr[t].h \in Handles /\ thr[t].s \in Sockets /\ thr[t].b \in Buffers /\ thr[t].h \in issued
      /\ thr[t].pc \in {"reset", "parse", "rearm"}
  <2>1. /\ UNCHANGED <<table, indexes, issued>> /\ t \in Workers
        /\ thr[t].h \in Handles /\ thr[t].s \in Sockets /\ thr[t].b \in Buffers
        /\ thr[t].pc \in {"reset", "parse", "rearm"}
    BY DEF LocalsInv, LocalsOK, Reset, OnRecv, Rearm, UserPCs, Threads, tableVars
  <2> QED
    BY <2>1, ConstantsOK DEF Ownership, IssuedInv, Maybe
<1>1. ASSUME Return(t)
      PROVE  /\ OthersSame(t) /\ thr'[t].pc = "idle" /\ thr'[t].h = None /\ thr'[t].s = None
             /\ thr'[t].a = None /\ thr'[t].ah = None /\ thr'[t].rh = None /\ thr'[t].b = None
  BY <1>1, ReturnMoves, MovedSame
<1>2. ASSUME Delete(thr[t].b),
             thr' = [thr EXCEPT ![t].pc = "on_error", ![t].rh = thr[t].h, ![t].b = None]
      PROVE  OwnershipKept
  <2>1. Moved(t, "on_error", thr[t].h, thr[t].s, thr[t].a, thr[t].ah, thr[t].h, None, thr[t].k)
    BY <1>0, <1>2, ErrorMoves DEF Maybe
  <2>2. /\ OthersSame(t) /\ thr'[t].pc = "on_error" /\ thr'[t].h = thr[t].h
        /\ thr'[t].s = thr[t].s /\ thr'[t].a = thr[t].a /\ thr'[t].ah = thr[t].ah
        /\ thr'[t].rh = thr[t].h /\ thr'[t].b = None
    BY <2>1, MovedSame
  <2>3. BufferOwnership'
    BY <1>0, <1>2, <2>2, BufferGivenBack DEF Ownership, OthersSame, Threads
  <2>4. \A c \in heap' : c \in heap /\ buf'[c] = buf[c] /\ (io'[c] # "none" => io[c] # "none")
    BY <1>2 DEF Delete, TypeOK
  <2> QED
    BY <1>0, <2>2, <2>3, <2>4, BufferStep DEF Maybe
<1>3. CASE Reset(t)
  <2>1. ASSUME AsyncTcpAccept(thr[t].b, thr[t].h, thr[t].s), Return(t) PROVE OwnershipKept
    <3>1. BufferOwnership'
      <4>1. PICK a \in FreeSockets : Submit(thr[t].b, "accept", thr[t].h, thr[t].s, a)
        BY <2>1 DEF AsyncTcpAccept
      <4>2. thr'[t].b = None /\ \A w \in Workers : w # t => thr'[w].b = thr[w].b
        BY <1>1, <2>1 DEF OthersSame, Threads
      <4> QED
        BY <1>0, <4>1, <4>2, BufferRestarted DEF Ownership
    <3> QED
      BY <1>0, <1>1, <2>1, <3>1, AcceptStep
  <2> QED
    BY <1>2, <1>3, <2>1 DEF Reset
<1>4. CASE OnRecv(t)
  <2>1. ASSUME Goto(t, "on_received"), UNCHANGED bufVars PROVE OwnershipKept
    <3>1. Moved(t, "on_received", thr[t].h, thr[t].s, thr[t].a, thr[t].ah, thr[t].rh, thr[t].b,
                thr[t].k)
      BY <2>1, GotoMoves DEF PCs
    <3>2. /\ OthersSame(t) /\ thr'[t].pc = "on_received" /\ thr'[t].h = thr[t].h
          /\ thr'[t].s = thr[t].s /\ thr'[t].a = thr[t].a /\ thr'[t].ah = thr[t].ah
          /\ thr'[t].rh = thr[t].rh /\ thr'[t].b = thr[t].b
      BY <3>1, MovedSame
    <3> QED
      BY <1>0, <2>1, <3>2, LocalStep DEF Maybe
  <2> QED
    BY <1>2, <1>4, <2>1 DEF OnRecv
<1>5. CASE Rearm(t)
  <2>1. ASSUME Submit(thr[t].b, "recv", thr[t].h, thr[t].s, None), Return(t) PROVE OwnershipKept
    <3>1. BufferOwnership'
      BY <1>0, <1>1, <2>1, BufferRestarted DEF Ownership, OthersSame, Threads
    <3>2. \A c \in heap' :
            \/ c \in heap /\ buf'[c] = buf[c] /\ (io'[c] # "none" => io[c] # "none")
            \/ /\ buf'[c].handle \in issued /\ buf'[c].sock \in Sockets
               /\ buf'[c].type # "accept" /\ buf'[c].accept = None
      BY <1>0, <2>1 DEF Submit, TypeOK
    <3> QED
      BY <1>0, <1>1, <2>1, <3>1, <3>2, BufferStep DEF Maybe
  <2> QED
    BY <1>2, <1>5, <2>1 DEF Rearm, AsyncTcpRecv
<1> QED
  BY <1>3, <1>4, <1>5

LEMMA HandleOwnership ==
  ASSUME TypeOK, LocalsInv, Ownership, NEW t \in Workers, Handle(t)
  PROVE  OwnershipKept
<1> USE DEF At
<1>0. /\ t \in Threads /\ thr[t] = Idle /\ thr[t].b = None /\ UNCHANGED <<table, indexes, issued>>
      /\ \A u \in Threads : thr[u].pc \in {"add_index", "add_insert"} => thr[u].a \in Sockets
  BY IdleFields DEF Handle, OnTcpAccept, OnTcpSend, OnTcpRecv, Completed, LocalsInv, LocalsOK, Threads,
                    TypeOK, tableVars
<1>1. ASSUME NEW b \in heap, io[b] # "none", Delete(b), UNCHANGED thr PROVE OwnershipKept
  <2>1. BufferOwnership'
    BY <1>1, BufferFinished DEF Ownership
  <2>2. \A c \in heap' : c \in heap /\ buf'[c] = buf[c] /\ (io'[c] # "none" => io[c] # "none")
    BY <1>1 DEF Delete, TypeOK
  <2> QED
    BY <1>0, <1>1, <2>1, <2>2, BufferStep, IdleFields DEF OthersSame, Maybe
<1>2. ASSUME NEW b \in heap, io[b] # "none",
             buf[b].type # "none", buf[b].handle \in Handles
      PROVE  buf[b].handle \in issued
  BY <1>2, ConstantsOK DEF Ownership, IssuedInv, Maybe
<1>3. ASSUME NEW b \in Buffers, OnTcpAccept(t, b) PROVE OwnershipKept
  <2>0. b \in heap /\ io[b] # "none"
    BY <1>3 DEF OnTcpAccept, Completed
  <2>1. CASE Drop(b)
    BY <1>1, <2>0, <2>1 DEF Drop
  <2>2. CASE table[buf[b].handle] # None
    <3>1. /\ buf[b].handle \in Handles /\ buf[b].accept \in Sockets /\ buf[b].accept # None
          /\ table[buf[b].handle] \in Sockets /\ buf[b].handle \in issued
      <4>1. buf[b].handle \in Handles /\ buf[b].accept \in Sockets
        BY <1>3, <2>0 DEF OnTcpAccept, Completed, Ownership, SocketInv, FreshInv
      <4> QED
        BY <2>0, <2>2, <4>1, ConstantsOK DEF TypeOK, Maybe, Ownership, IssuedInv
    <3>2. /\ thr' = [thr EXCEPT ![t] = [Idle EXCEPT !.pc = "add_index", !.h = buf[b].handle,
                                          !.s = table[buf[b].handle], !.a = buf[b].accept,
                                          !.b = b, !.ok = (io[b] = "ok")]]
          /\ TakeAccepted(b) /\ io' = [io EXCEPT ![b] = "none"] /\ UNCHANGED heap
      BY <1>3, <2>2 DEF OnTcpAccept
    <3>3. (io[b] = "ok") \in BOOLEAN /\ buf[b].accept \in Maybe(Sockets)
      BY <3>1 DEF Maybe
    <3>4. Moved(t, "add_index", buf[b].handle, table[buf[b].handle], buf[b].accept, None, None, b, 0)
      BY <1>0, <3>1, <3>2, <3>3, AcceptMoves
    <3>5. /\ OthersSame(t) /\ thr'[t].pc = "add_index" /\ thr'[t].h = buf[b].handle
          /\ thr'[t].s = table[buf[b].handle] /\ thr'[t].a = buf[b].accept /\ thr'[t].ah = None
          /\ thr'[t].rh = None /\ thr'[t].b = b
      BY <1>0, <3>4, MovedSame
    <3>6. /\ buf'[b].accept = None /\ buf'[b].handle = buf[b].handle
          /\ \A c \in Buffers : c # b => buf'[c] = buf[c] /\ io'[c] = io[c]
          /\ io'[b] = "none"
      BY <3>2 DEF TakeAccepted, TypeOK, Operations
    <3>7. IssuedInv'
      <4>1. \A c \in heap' : c \in heap /\ buf'[c].handle = buf[c].handle
        BY <3>2, <3>6 DEF TypeOK
      <4> QED
        BY <1>0, <3>1, <3>5, <4>1, IssuedFrame DEF Ownership, Maybe
    <3>8. IndexOwnership => IndexOwnership'
      BY <1>0, <3>5, IndexFrame, IdleFields DEF Ownership
    <3>9. BufferOwnership'
      BY <1>0, <2>0, <3>2, <3>5, BufferTaken DEF Ownership, OthersSame, Threads
    <3>10. SocketInv'
      <4>1. /\ \A h \in Handles : table[h] # buf[b].accept
            /\ \A u \in Threads : thr[u].s # buf[b].accept /\ thr[u].a # buf[b].accept
            /\ \A c \in heap \ {b} : buf[c].accept # buf[b].accept
        BY <2>0, <3>1 DEF Ownership, SocketInv, SocketOwnership
      <4>2. \A c \in heap : /\ buf'[c].accept # buf[b].accept
                            /\ buf'[c].accept \in {None, buf[c].accept}
                            /\ io'[c] # "none" => io'[c] = io[c] /\ buf'[c] = buf[c]
        BY <3>1, <3>6, <4>1 DEF TypeOK
      <4> QED
        BY <1>0, <3>1, <3>2, <3>5, <4>1, <4>2, SocketFresh DEF Ownership
    <3> QED
      BY <3>7, <3>8, <3>9, <3>10 DEF Ownership, OwnershipKept
  <2> QED
    BY <1>3, <2>1, <2>2 DEF OnTcpAccept
<1>4. ASSUME NEW b \in Buffers, OnTcpSend(t, b) PROVE OwnershipKept
  BY <1>1, <1>4 DEF OnTcpSend, Completed
<1>5. ASSUME NEW b \in Buffers, OnTcpRecv(t, b) PROVE OwnershipKept
  <2> DEFINE h == buf[b].handle
             me == [Idle EXCEPT !.h = h, !.s = table[h]]
  <2>0. b \in heap /\ io[b] # "none"
    BY <1>5 DEF OnTcpRecv, Completed
  <2>1. CASE Drop(b)
    BY <1>1, <2>0, <2>1 DEF Drop
  <2>2. ASSUME table[h] # None PROVE h \in Handles /\ table[h] \in Sockets /\ h \in issued
    <3>1. h \in Handles
      BY <2>0 DEF Ownership, SocketInv, FreshInv
    <3> QED
      BY <2>0, <2>2, <3>1, ConstantsOK DEF TypeOK, Maybe, Ownership, IssuedInv
  <2>3. ASSUME NEW pc \in {"on_disconnected", "parse"}, table[h] # None, OthersSame(t),
               thr'[t].pc = pc, thr'[t].h = h, thr'[t].s = table[h], thr'[t].a = None,
               thr'[t].ah = None, thr'[t].rh \in {None, h}, BufferOwnership',
               \A c \in heap' : c \in heap /\ buf'[c] = buf[c] /\ (io'[c] # "none" => io[c] # "none")
        PROVE  OwnershipKept
    <3>1. IssuedInv'
      BY <1>0, <2>2, <2>3, IssuedFrame DEF Ownership, Maybe
    <3>2. IndexOwnership => IndexOwnership'
      BY <1>0, <2>3, IndexFrame, IdleFields DEF Ownership
    <3>3. SocketInv'
      <4>1. h \in Handles
        BY <2>2, <2>3
      <4>2. \A c \in heap' : buf'[c].accept = None \/ (c \in heap /\ buf'[c].accept = buf[c].accept)
        BY <2>3
      <4>3. \A c \in heap' : io'[c] # "none" => c \in heap /\ io[c] # "none" /\ buf'[c] = buf[c]
        BY <2>3
      <4> QED
        BY <1>0, <2>3, <4>1, <4>2, <4>3, SocketFrame DEF Ownership
    <3> QED
      BY <2>3, <3>1, <3>2, <3>3 DEF Ownership, OwnershipKept
  <2>4. ASSUME table[h] # None, Delete(b),
               thr' = [thr EXCEPT ![t] = [me EXCEPT !.pc = "on_disconnected", !.rh = h]]
        PROVE  OwnershipKept
    <3>1. Moved(t, "on_disconnected", h, table[h], None, None, h, None, 0)
      BY <1>0, <2>2, <2>4, CloseMoves
    <3>2. /\ OthersSame(t) /\ thr'[t].pc = "on_disconnected" /\ thr'[t].h = h
          /\ thr'[t].s = table[h] /\ thr'[t].a = None /\ thr'[t].ah = None
          /\ thr'[t].rh = h /\ thr'[t].b = None
      BY <1>0, <3>1, MovedSame
    <3>3. BufferOwnership'
      BY <1>0, <2>0, <2>4, <3>2, BufferFinished DEF Ownership, OthersSame, Threads
    <3>4. \A c \in heap' : c \in heap /\ buf'[c] = buf[c] /\ (io'[c] # "none" => io[c] # "none")
      BY <2>4 DEF Delete, TypeOK
    <3> QED
      BY <2>3, <2>4, <3>2, <3>3, <3>4
  <2>5. ASSUME table[h] # None, io' = [io EXCEPT ![b] = "none"], UNCHANGED <<heap, buf>>,
               thr' = [thr EXCEPT ![t] = [me EXCEPT !.pc = "parse", !.b = b]]
        PROVE  OwnershipKept
    <3>1. Moved(t, "parse", h, table[h], None, None, None, b, 0)
      BY <1>0, <2>2, <2>5, ParseMoves
    <3>2. /\ OthersSame(t) /\ thr'[t].pc = "parse" /\ thr'[t].h = h
          /\ thr'[t].s = table[h] /\ thr'[t].a = None /\ thr'[t].ah = None
          /\ thr'[t].rh = None /\ thr'[t].b = b
      BY <1>0, <3>1, MovedSame
    <3>3. BufferOwnership'
      BY <1>0, <2>0, <2>5, <3>2, BufferTaken DEF Ownership, OthersSame, Threads
    <3>4. \A c \in heap' : c \in heap /\ buf'[c] = buf[c] /\ (io'[c] # "none" => io[c] # "none")
      BY <2>0, <2>5 DEF TypeOK
    <3> QED
      BY <2>3, <2>5, <3>2, <3>3, <3>4
  <2> QED
    BY <1>5, <2>1, <2>4, <2>5 DEF OnTcpRecv
<1> QED
  BY <1>3, <1>4, <1>5 DEF Handle

LEMMA KernelOwnership ==
  ASSUME TypeOK, Ownership, NEW b \in Buffers, Complete(b) \/ Abort(b)
  PROVE  OwnershipKept
<1>1. /\ UNCHANGED <<table, indexes, issued, heap, buf, thr>> /\ io[b] = "pending"
      /\ io'[b] \in {"ok", "zero"} /\ \A c \in Buffers : c # b => io'[c] = io[c]
  BY DEF Complete, Abort, TypeOK, tableVars
<1>2. \A c \in Buffers : io'[c] # "none" <=> io[c] # "none"
  BY <1>1
<1>3. IssuedInv'
  BY <1>1 DEF Ownership, IssuedInv
<1>4. IndexOwnership => IndexOwnership'
  BY <1>1 DEF Ownership, IndexOwnership, Owns, At
<1>5. BufferOwnership'
  BY <1>1, <1>2 DEF Ownership, BufferOwnership, TypeOK
<1>6. SocketInv'
  BY <1>1, <1>2 DEF Ownership, SocketInv, FreshInv, SocketOwnership, TypeOK, At
<1> QED
  BY <1>3, <1>4, <1>5, <1>6 DEF Ownership, OwnershipKept

LEMMA NextOwnership == ASSUME TypeOK, LocalsInv, Ownership, [Next]_vars PROVE OwnershipKept
<1>1. ASSUME NEW t \in Threads, Step(t) PROVE OwnershipKept
  BY <1>1, AddIndexOwnership, AddInsertOwnership, RemoveOwnership, UserOwnership, RecvNewOwnership,
     HandlerOwnership, FinishOwnership DEF Step
<1>2. CASE UNCHANGED vars
  BY <1>2 DEF vars, OwnershipKept, Ownership, IssuedInv, IndexOwnership, Owns, BufferOwnership, SocketInv, FreshInv,
              SocketOwnership, At
<1> QED
  BY <1>1, <1>2, CallOwnership, HandleOwnership, KernelOwnership DEF Next, Kernel

-----------------------------------------------------------------------------
(* The theorems.                                                           *)

LEMMA InitIInv == Init => IInv
<1> SUFFICES ASSUME Init PROVE IInv
  OBVIOUS
<1>1. \A t \in Threads : thr[t] = Idle
  BY DEF Init
<1>2. TypeOK
  BY <1>1, ConstantTypes DEF Init, TypeOK, Maybe, IoStates
<1>3. LocalsInv
  BY <1>1, IdleFields, ConstantsOK DEF LocalsInv, LocalsOK, At, UserPCs, WorkerPCs, PCs
<1>4. IssuedInv /\ FreshInv
  BY <1>1, IdleFields DEF Init, IssuedInv, FreshInv, Maybe, At
<1>5. IndexOwnership /\ BufferOwnership /\ SocketOwnership
  BY <1>1, IdleFields, ConstantsOK DEF Init, IndexOwnership, Owns, BufferOwnership, SocketOwnership, At,
                                       Threads
<1> QED
  BY <1>2, <1>3, <1>4, <1>5 DEF IInv

LEMMA NextIInv == ASSUME IInv, [Next]_vars PROVE IInv'
<1>1. TypeOK' /\ LocalsInv'
  BY NextTypes DEF IInv
<1>2. OwnershipKept
  BY NextOwnership DEF IInv, Ownership, SocketInv
<1> QED
  BY <1>1, <1>2 DEF IInv, OwnershipKept, Ownership, SocketInv

LEMMA InvariantIInv == Spec => []IInv
<1>1. IInv /\ [Next]_vars => IInv'
  BY NextIInv
<1> QED
  BY InitIInv, <1>1, PTL DEF Spec

\* The interface, the handlers and the kernel keep every variable in its type, and a thread
\* between two calls or handlers holds no shared pointer (NetResMgr and TcpSocket).
THEOREM TypesCorrect == Spec => []TypeOK
<1>1. IInv => TypeOK
  BY DEF IInv
<1> QED
  BY InvariantIInv, <1>1, PTL

\* AddTcpSocket takes an index before it holds tcp_sockets_lock_, RemoveTcpSocket gives it
\* back after it released the lock. Whatever users and workers do in between, also when the
\* indexer gives the index again at once, an index in use has exactly one owner.
THEOREM IndexesOwned == Spec => []IndexOwnership
<1>1. IInv => IndexOwnership
  BY DEF IInv
<1> QED
  BY InvariantIInv, <1>1, PTL

\* A buffer of NetResMgr is with the kernel and its port, or with the one worker that runs
\* its handler: on no path of a handler is it lost or used by two.
THEOREM BuffersOwned == Spec => []BufferOwnership
<1>1. IInv => BufferOwnership
  BY DEF IInv
<1> QED
  BY InvariantIInv, <1>1, PTL

\* A socket is registered under one handle, and the socket that TcpAcceptBuffer's unique
\* pointer owns is owned by nothing else until OnTcpAccept takes it out.
THEOREM SocketsOwned == Spec => []SocketOwnership
<1>1. IInv => SocketOwnership
  BY DEF IInv
<1> QED
  BY InvariantIInv, <1>1, PTL

=============================================================================
