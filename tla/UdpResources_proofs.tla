------------------------ MODULE UdpResources_proofs ------------------------
(***************************************************************************)
(* Proofs about UdpResources, for every set of users, indexes, sockets and *)
(* buffers, and every number of receives for each socket.                  *)
(***************************************************************************)
EXTENDS UdpResources, FiniteSetTheorems, TLAPS

\* UdpCreate still has the only reference to its socket, up to AddUdpSocket's insert.
Unshared(t) == thr[t].pc \in {"add_index", "add_insert"}

\* UdpCreate runs for the socket.
Creating(t) == Unshared(t) \/ At(t, "arm")

\* What ReceivesBounded rests on: a socket is created by one thread, is in no entry and
\* has no buffer before that thread inserted it, and receives are only counted up to the
\* number UdpCreate starts.
CreatorInv ==
  /\ IsFiniteSet(heap)
  /\ \A t \in Users : Creating(t) => thr[t].s \in Sockets
  /\ \A t \in Users : At(t, "arm") => thr[t].k < RecvCount
  /\ \A t \in Users : Unshared(t) => /\ thr[t].k = 0
                                     /\ \A h \in Handles : table[h] # thr[t].s
                                     /\ \A b \in heap : buf[b].sock # thr[t].s
  /\ \A t, u \in Users : Creating(t) /\ Creating(u) /\ thr[t].s = thr[u].s => t = u
  /\ \A t, u \in Users : Unshared(t) /\ thr[t].s = thr[u].s => t = u

\* A thread that inserts, arms or destroys has an index; one that sends has a socket too.
HandleInv ==
  \A t \in Users : /\ thr[t].pc \in {"add_insert", "arm", "send", "remove", "destroy_index"}
                        => thr[t].h \in Handles
                   /\ At(t, "send") => thr[t].s \in Sockets

IInv == TypeOK /\ HandleInv /\ IndexOwnership /\ CreatorInv /\ ReceivesBounded


-----------------------------------------------------------------------------
(* Types.                                                                  *)

LEMMA ConstantTypes == Blank \in Operations /\ Idle \in Locals
BY ConstantsOK DEF Blank, Operations, Idle, Locals, PCs

LEMMA InitIInv == Init => IInv
<1> SUFFICES ASSUME Init PROVE IInv
  OBVIOUS
<1>1. TypeOK /\ HandleInv
  BY ConstantTypes, ConstantsOK DEF Init, TypeOK, HandleInv, Idle, At
<1>2. IndexOwnership
  BY DEF Init, IndexOwnership, Owns, Idle
<1>3. CreatorInv
  BY FS_EmptySet DEF Init, CreatorInv, Creating, Unshared, At, Idle
<1>4. ReceivesBounded
  <2>1. \A s \in Sockets : Receives(s) = {}
    BY DEF Init, Receives
  <2> QED
    BY <2>1, FS_EmptySet, ConstantsOK DEF Init, ReceivesBounded, At, Idle
<1> QED
  BY <1>1, <1>2, <1>3, <1>4 DEF IInv

BufferTypeOK ==
  /\ heap \subseteq Buffers
  /\ buf \in [Buffers -> Operations]
  /\ io \in [Buffers -> {"none", "pending", "done"}]

\* What Winsock is given, and what a worker returns, leaves the buffers well typed.
LEMMA BufferTypes ==
  ASSUME TypeOK, NEW b \in Buffers
  PROVE  /\ \A type \in {"send", "recv"}, h \in Handles, s \in Sockets :
              Submit(b, type, h, s) => BufferTypeOK'
         /\ Delete(b) => BufferTypeOK'
<1>1. ASSUME NEW type \in {"send", "recv"}, NEW h \in Handles, NEW s \in Sockets,
             Submit(b, type, h, s)
      PROVE  BufferTypeOK'
  <2>1. [type |-> type, handle |-> h, sock |-> s] \in Operations
    BY DEF Operations
  <2> QED
    BY <1>1, <2>1 DEF TypeOK, Submit, BufferTypeOK
<1>2. ASSUME Delete(b) PROVE BufferTypeOK'
  BY <1>2, ConstantTypes DEF TypeOK, Delete, BufferTypeOK
<1> QED
  BY <1>1, <1>2

\* The locals after any of the calls' returns.
LEMMA ReturnType ==
  ASSUME TypeOK, NEW t \in Users, Return(t)
  PROVE  /\ thr' \in [Users -> Locals]
         /\ thr'[t] = Idle
         /\ \A u \in Users : u # t => thr'[u] = thr[u]
BY ConstantTypes DEF TypeOK, Return

LEMMA UserTypes ==
  ASSUME TypeOK, HandleInv, CreatorInv, NEW t \in Users, User(t), UNCHANGED crashed
  PROVE  TypeOK' /\ HandleInv'
<1> USE DEF At
<1>1. CASE UdpCreate(t)
  <2>1. PICK s \in Sockets : thr' = [thr EXCEPT ![t].pc = "add_index", ![t].s = s]
    BY <1>1 DEF UdpCreate, FreeSockets
  <2>2. thr' \in [Users -> Locals]
    BY <2>1 DEF TypeOK, PCs, Locals
  <2>3. thr'[t].pc = "add_index" /\ \A u \in Users : u # t => thr'[u] = thr[u]
    BY <2>1 DEF TypeOK, Locals
  <2> QED
    BY <1>1, <2>2, <2>3 DEF UdpCreate, TypeOK, HandleInv, bufVars
<1>2. CASE AddIndex(t)
  <2>1. CASE Handles \ indexes = {}
    BY <1>2, <2>1, ReturnType DEF AddIndex, TypeOK, HandleInv, bufVars, Idle
  <2>2. CASE Handles \ indexes # {}
    BY <1>2, <2>2 DEF AddIndex, TypeOK, HandleInv, bufVars, PCs, Locals, Idle
  <2> QED
    BY <2>1, <2>2
<1>3. CASE AddInsert(t)
  BY <1>3 DEF AddInsert, Goto, TypeOK, HandleInv, CreatorInv, Creating, Unshared, bufVars, PCs, Locals, Idle
<1>4. CASE ArmRecv(t)
  <2>1. CASE Tell(t) /\ UNCHANGED bufVars
    BY <1>4, <2>1, ReturnType DEF ArmRecv, Tell, TypeOK, HandleInv, bufVars, Idle
  <2>2. ASSUME NEW b \in Buffers \ heap, Submit(b, "recv", thr[t].h, thr[t].s),
               IF ArmedAll(thr[t].k + 1)
               THEN Tell(t)
               ELSE thr' = [thr EXCEPT ![t].k = @ + 1] /\ UNCHANGED told
        PROVE  TypeOK' /\ HandleInv'
    <3>1. thr[t].h \in Handles /\ thr[t].s \in Sockets /\ thr[t].k < RecvCount
      BY <1>4 DEF ArmRecv, HandleInv, CreatorInv, Creating
    <3>2. BufferTypeOK'
      BY <2>2, <3>1, BufferTypes
    <3>3. CASE ArmedAll(thr[t].k + 1)
      BY <1>4, <2>2, <3>1, <3>2, <3>3, ReturnType DEF BufferTypeOK, ArmRecv, Tell, TypeOK, HandleInv, Idle
    <3>4. CASE ~ArmedAll(thr[t].k + 1)
      <4>1. thr[t].k + 1 \in 0 .. RecvCount
        BY <3>1, ConstantsOK DEF TypeOK, Locals
      <4> QED
        BY <1>4, <2>2, <3>2, <3>4, <4>1 DEF BufferTypeOK, Locals, ArmRecv, TypeOK, HandleInv, Idle
    <3> QED
      BY <3>3, <3>4
  <2> QED
    BY <1>4, <2>1, <2>2 DEF ArmRecv
<1>5. ASSUME NEW h \in told, UdpDestroy(t, h) PROVE TypeOK' /\ HandleInv'
  BY <1>5 DEF UdpDestroy, TypeOK, HandleInv, bufVars, PCs, Locals, Idle
<1>6. ASSUME NEW h \in told, UdpSendTo(t, h) PROVE TypeOK' /\ HandleInv'
  BY <1>6 DEF UdpSendTo, TypeOK, HandleInv, bufVars, PCs, Locals, Idle
<1>7. CASE RemoveErase(t)
  <2>1. CASE table[thr[t].h] # None
    BY <1>7, <2>1 DEF RemoveErase, Goto, TypeOK, HandleInv, bufVars, PCs, Locals, Idle
  <2>2. CASE table[thr[t].h] = None
    BY <1>7, <2>2, ReturnType DEF RemoveErase, TypeOK, HandleInv, bufVars, Idle
  <2> QED
    BY <2>1, <2>2
<1>8. CASE RemoveIndex(t)
  BY <1>8, ReturnType DEF RemoveIndex, TypeOK, HandleInv, bufVars, Idle
<1>9. CASE AsyncSendTo(t)
  <2>1. thr[t].h \in Handles /\ thr[t].s \in Sockets
    BY <1>9 DEF AsyncSendTo, HandleInv
  <2>2. BufferTypeOK'
    <3>1. CASE UNCHANGED bufVars
      BY <3>1 DEF bufVars, TypeOK, BufferTypeOK
    <3>2. CASE \E b \in Buffers \ heap : Submit(b, "send", thr[t].h, thr[t].s)
      BY <2>1, <3>2, BufferTypes
    <3> QED
      BY <1>9, <3>1, <3>2 DEF AsyncSendTo
  <2> QED
    BY <1>9, <2>2, ReturnType DEF BufferTypeOK, AsyncSendTo, TypeOK, HandleInv, Idle
<1> QED
  BY <1>1, <1>2, <1>3, <1>4, <1>5, <1>6, <1>7, <1>8, <1>9 DEF User

LEMMA NextTypes == ASSUME TypeOK, HandleInv, CreatorInv, [Next]_vars PROVE TypeOK' /\ HandleInv'
<1>1. ASSUME NEW t \in Users, User(t), UNCHANGED crashed PROVE TypeOK' /\ HandleInv'
  BY <1>1, UserTypes
<1>2. ASSUME NEW b \in Buffers, Complete(b), UNCHANGED crashed PROVE TypeOK' /\ HandleInv'
  BY <1>2 DEF Complete, TypeOK, HandleInv, At
<1>3. ASSUME NEW b \in Buffers, Handle(b) PROVE TypeOK' /\ HandleInv'
  <2>1. CASE Delete(b) /\ UNCHANGED crashed
    BY <1>3, <2>1, BufferTypes DEF BufferTypeOK, Handle, OnUdpSend, OnUdpRecv, TypeOK, HandleInv, At
  <2>2. CASE crashed' = TRUE /\ UNCHANGED bufVars
    BY <1>3, <2>2 DEF Handle, OnUdpSend, OnUdpRecv, TypeOK, HandleInv, At, bufVars
  <2> QED
    BY <1>3, <2>1, <2>2 DEF Handle, OnUdpSend, OnUdpRecv
<1>4. CASE UNCHANGED vars
  BY <1>4 DEF vars, TypeOK, HandleInv, At
<1> QED
  BY <1>1, <1>2, <1>3, <1>4 DEF Next

-----------------------------------------------------------------------------
(* Indexes.                                                                *)

LEMMA NextIndexOwnership ==
  ASSUME TypeOK, HandleInv, CreatorInv, IndexOwnership, [Next]_vars PROVE IndexOwnership'
<1> USE DEF At
<1>1. ASSUME NEW t \in Users, User(t) PROVE IndexOwnership'
  <2>1. CASE UdpCreate(t)
    BY <1>1, <2>1 DEF UdpCreate, TypeOK, IndexOwnership, Owns, Locals
  <2>2. CASE AddIndex(t)
    <3>1. CASE UNCHANGED indexes /\ Return(t)
      BY <2>2, <3>1, ReturnType DEF AddIndex, TypeOK, IndexOwnership, Owns, Idle
    <3>2. ASSUME NEW i \in Handles \ indexes, indexes' = indexes \cup {i},
                 thr' = [thr EXCEPT ![t].pc = "add_insert", ![t].h = i]
          PROVE  IndexOwnership'
      <4>1. thr'[t].pc = "add_insert" /\ thr'[t].h = i /\ \A u \in Users : u # t => thr'[u] = thr[u]
        BY <3>2 DEF TypeOK, Locals
      <4>2. table[i] = None /\ \A u \in Users : ~Owns(u, i)
        BY DEF IndexOwnership
      <4>3. \A h \in Handles : ~Owns(t, h) /\ (Owns(t, h)' <=> h = i)
        BY <2>2, <4>1 DEF AddIndex, Owns
      <4>4. \A u \in Users, h \in Handles : u # t => (Owns(u, h)' <=> Owns(u, h))
        BY <4>1 DEF Owns
      <4>5. \A h \in Handles : table'[h] = table[h] /\ (h \in indexes' <=> h \in indexes \/ h = i)
        BY <2>2, <3>2 DEF AddIndex
      <4> QED
        BY <4>2, <4>3, <4>4, <4>5 DEF IndexOwnership
    <3> QED
      BY <2>2, <3>1, <3>2 DEF AddIndex
  <2>3. CASE AddInsert(t)
    <3>1. thr'[t].pc = "arm" /\ \A u \in Users : u # t => thr'[u] = thr[u]
      BY <2>3 DEF AddInsert, Goto, TypeOK, Locals
    <3>2. Owns(t, thr[t].h) /\ thr[t].h \in Handles
      BY <2>3 DEF AddInsert, Owns, HandleInv
    <3>3. \A h \in Handles : h # thr[t].h => table'[h] = table[h]
      BY <2>3 DEF AddInsert, TypeOK
    <3>4. table'[thr[t].h] # None
      BY <2>3, <3>2, ConstantsOK DEF AddInsert, TypeOK, CreatorInv, Creating, Unshared
    <3> QED
      BY <2>3, <3>1, <3>2, <3>3, <3>4 DEF AddInsert, IndexOwnership, Owns
  <2>4. CASE ArmRecv(t)
    <3>1. thr'[t].pc \in {"arm", "idle"} /\ \A u \in Users : u # t => thr'[u] = thr[u]
      BY <2>4, ReturnType DEF ArmRecv, Tell, TypeOK, Locals, Idle
    <3> QED
      BY <2>4, <3>1 DEF ArmRecv, IndexOwnership, Owns
  <2>5. ASSUME NEW h \in told, UdpDestroy(t, h) \/ UdpSendTo(t, h) PROVE IndexOwnership'
    <3>1. thr'[t].pc \in {"remove", "send"} /\ \A u \in Users : u # t => thr'[u] = thr[u]
      BY <2>5 DEF UdpDestroy, UdpSendTo, TypeOK, Locals
    <3> QED
      BY <2>5, <3>1 DEF UdpDestroy, UdpSendTo, IndexOwnership, Owns
  <2>6. CASE RemoveErase(t)
    <3>1. thr[t].h \in Handles /\ UNCHANGED indexes
      BY <2>6 DEF RemoveErase, HandleInv
    <3>2. CASE table[thr[t].h] # None
      <4>1. /\ thr'[t].pc = "destroy_index" /\ thr'[t].h = thr[t].h
            /\ \A u \in Users : u # t => thr'[u] = thr[u]
        BY <2>6, <3>2 DEF RemoveErase, Goto, TypeOK, Locals
      <4>2. /\ table'[thr[t].h] = None
            /\ \A h \in Handles : h # thr[t].h => table'[h] = table[h]
        BY <2>6, <3>1, <3>2 DEF RemoveErase, TypeOK
      <4>3. \A u \in Users : ~Owns(u, thr[t].h)
        BY <3>1, <3>2 DEF IndexOwnership
      <4> QED
        BY <2>6, <3>1, <3>2, <4>1, <4>2, <4>3 DEF RemoveErase, IndexOwnership, Owns
    <3>3. CASE table[thr[t].h] = None
      BY <2>6, <3>1, <3>3, ReturnType DEF RemoveErase, IndexOwnership, Owns, Idle
    <3> QED
      BY <3>2, <3>3
  <2>7. CASE RemoveIndex(t)
    <3>1. thr'[t] = Idle /\ \A u \in Users : u # t => thr'[u] = thr[u]
      BY <2>7, ReturnType DEF RemoveIndex
    <3>2. Owns(t, thr[t].h) /\ thr[t].h \in Handles
      BY <2>7 DEF RemoveIndex, Owns, HandleInv
    <3> QED
      BY <2>7, <3>1, <3>2 DEF RemoveIndex, IndexOwnership, Owns, Idle
  <2>8. CASE AsyncSendTo(t)
    BY <2>8, ReturnType DEF AsyncSendTo, IndexOwnership, Owns, Idle
  <2> QED
    BY <1>1, <2>1, <2>2, <2>3, <2>4, <2>5, <2>6, <2>7, <2>8 DEF User
<1>2. ASSUME NEW b \in Buffers, Complete(b) \/ Handle(b) PROVE IndexOwnership'
  BY <1>2 DEF Complete, Handle, OnUdpSend, OnUdpRecv, IndexOwnership, Owns
<1>3. CASE UNCHANGED vars
  BY <1>3 DEF vars, IndexOwnership, Owns
<1> QED
  BY <1>1, <1>2, <1>3 DEF Next

-----------------------------------------------------------------------------
(* The receives of a socket.                                               *)

\* How the number of a socket's receives changes with each kind of step.
LEMMA CountReceives ==
  ASSUME TypeOK, IsFiniteSet(heap), NEW s \in Sockets
  PROVE  /\ Cardinality(Receives(s)) \in Nat
         /\ UNCHANGED <<heap, buf>> => Receives(s)' = Receives(s)
         /\ \A b \in Buffers \ heap : \A h, q :
              /\ Submit(b, "send", h, q) => Receives(s)' = Receives(s)
              /\ Submit(b, "recv", h, q) /\ q # s => Receives(s)' = Receives(s)
              /\ Submit(b, "recv", h, s) => Cardinality(Receives(s)') = Cardinality(Receives(s)) + 1
         /\ \A b \in Buffers : Delete(b) => Cardinality(Receives(s)') <= Cardinality(Receives(s))
<1>1. IsFiniteSet(Receives(s))
  BY FS_Subset DEF Receives
<1>2. ASSUME NEW b \in Buffers \ heap, NEW h, NEW q, Submit(b, "send", h, q)
      PROVE  Receives(s)' = Receives(s)
  BY <1>2 DEF Submit, Receives, TypeOK
<1>3. ASSUME NEW b \in Buffers \ heap, NEW h, NEW q, Submit(b, "recv", h, q), q # s
      PROVE  Receives(s)' = Receives(s)
  BY <1>3 DEF Submit, Receives, TypeOK
<1>4. ASSUME NEW b \in Buffers \ heap, NEW h, Submit(b, "recv", h, s)
      PROVE  Cardinality(Receives(s)') = Cardinality(Receives(s)) + 1
  <2>1. Receives(s)' = Receives(s) \cup {b} /\ b \notin Receives(s)
    BY <1>4 DEF Submit, Receives, TypeOK
  <2> QED
    BY <1>1, <2>1, FS_AddElement
<1>5. ASSUME NEW b \in Buffers, Delete(b)
      PROVE  Cardinality(Receives(s)') <= Cardinality(Receives(s))
  <2>1. Receives(s)' \subseteq Receives(s)
    BY <1>5 DEF Delete, Receives, TypeOK
  <2> QED
    BY <1>1, <2>1, FS_Subset
<1>6. UNCHANGED <<heap, buf>> => Receives(s)' = Receives(s)
  BY DEF Receives
<1>7. Cardinality(Receives(s)) \in Nat
  BY <1>1, FS_CardinalityType
<1> QED
  BY <1>2, <1>3, <1>4, <1>5, <1>6, <1>7

\* A step that takes nobody into UdpCreate, nobody's socket elsewhere and no socket into
\* the table, and adds no receive, keeps both invariants.
LEMMA KeepsCreator ==
  ASSUME TypeOK, CreatorInv, ReceivesBounded, NEW t \in Users,
         ~Creating(t)', \A u \in Users : u # t => thr'[u] = thr[u],
         thr'[t].s = None \/ thr'[t].s = thr[t].s \/ \E h \in Handles : thr'[t].s = table[h],
         \A h \in Handles : table'[h] = table[h] \/ table'[h] = None,
         UNCHANGED bufVars
  PROVE  CreatorInv' /\ ReceivesBounded'
<1>1. CreatorInv'
  BY ConstantsOK DEF CreatorInv, Creating, Unshared, At, TypeOK, bufVars
<1>2. ReceivesBounded'
  BY CountReceives DEF ReceivesBounded, CreatorInv, Creating, At, bufVars
<1> QED
  BY <1>1, <1>2

LEMMA CreateCreator ==
  ASSUME TypeOK, HandleInv, IndexOwnership, CreatorInv, ReceivesBounded,
         NEW t \in Users, UdpCreate(t) \/ AddIndex(t) \/ AddInsert(t)
  PROVE  CreatorInv' /\ ReceivesBounded'
<1> USE DEF At
<1>0. UNCHANGED bufVars /\ UNCHANGED <<heap, buf>>
  BY DEF UdpCreate, AddIndex, AddInsert, bufVars
<1>1. CASE UdpCreate(t)
  <2>1. PICK s \in FreeSockets : thr' = [thr EXCEPT ![t].pc = "add_index", ![t].s = s]
    BY <1>1 DEF UdpCreate
  <2>2. /\ s \in Sockets /\ \A h \in Handles : table[h] # s
        /\ \A u \in Users : thr[u].s # s /\ \A b \in heap : buf[b].sock # s
    BY <2>1 DEF FreeSockets, Referenced
  <2>3. /\ thr'[t].pc = "add_index" /\ thr'[t].s = s /\ thr'[t].k = 0
        /\ \A u \in Users : u # t => thr'[u] = thr[u]
    <3>1. thr[t] = Idle
      BY <1>1 DEF UdpCreate, TypeOK
    <3>2. thr'[t] = [thr[t] EXCEPT !.pc = "add_index", !.s = s]
      BY <2>1 DEF TypeOK
    <3>3. \A u \in Users : u # t => thr'[u] = thr[u]
      BY <2>1 DEF TypeOK
    <3> QED
      BY <3>1, <3>2, <3>3 DEF Idle
  <2>4. CreatorInv'
    <3>1. \A u \in Users : u # t => /\ Creating(u)' <=> Creating(u)
                                    /\ Unshared(u)' <=> Unshared(u)
                                    /\ thr'[u] = thr[u] /\ thr[u].s # s
      BY <2>2, <2>3 DEF Creating, Unshared
    <3>2. table' = table
      BY <1>1 DEF UdpCreate
    <3> QED
      BY <1>0, <2>2, <2>3, <3>1, <3>2 DEF CreatorInv
  <2>5. ReceivesBounded'
    BY <1>0, <2>3, CountReceives DEF ReceivesBounded, CreatorInv
  <2> QED
    BY <2>4, <2>5
<1>2. CASE AddIndex(t)
  <2>1. CASE Return(t)
    <3>1. ~Creating(t)' /\ thr'[t].s = None /\ \A u \in Users : u # t => thr'[u] = thr[u]
      BY <2>1, ReturnType DEF Creating, Unshared, Idle
    <3> QED
      BY <1>0, <1>2, <3>1, KeepsCreator DEF AddIndex
  <2>2. ASSUME NEW i \in Handles, thr' = [thr EXCEPT ![t].pc = "add_insert", ![t].h = i]
        PROVE  CreatorInv' /\ ReceivesBounded'
    <3>1. /\ thr'[t].pc = "add_insert" /\ thr'[t].s = thr[t].s /\ thr'[t].k = thr[t].k
          /\ thr[t].pc = "add_index" /\ \A u \in Users : u # t => thr'[u] = thr[u]
      <4>1. thr'[t] = [thr[t] EXCEPT !.pc = "add_insert", !.h = i]
        BY <2>2 DEF TypeOK
      <4>2. \A u \in Users : u # t => thr'[u] = thr[u]
        BY <2>2 DEF TypeOK
      <4>3. thr[t] \in Locals
        BY DEF TypeOK
      <4> QED
        BY <1>2, <4>1, <4>2, <4>3 DEF AddIndex, Locals
    <3>2. CreatorInv'
      BY <1>0, <1>2, <3>1 DEF AddIndex, CreatorInv, Creating, Unshared, bufVars
    <3>3. ReceivesBounded'
      BY <1>0, <3>1, CountReceives DEF ReceivesBounded, CreatorInv
    <3> QED
      BY <3>2, <3>3
  <2> QED
    BY <1>2, <2>1, <2>2 DEF AddIndex
<1>3. CASE AddInsert(t)
  <2>1. /\ thr'[t].pc = "arm" /\ thr'[t].s = thr[t].s /\ thr'[t].k = thr[t].k
        /\ \A u \in Users : u # t => thr'[u] = thr[u]
    BY <1>3 DEF AddInsert, Goto, TypeOK, Locals
  <2>2. Unshared(t) /\ Creating(t) /\ thr[t].s \in Sockets /\ thr[t].k = 0
    BY <1>3 DEF AddInsert, Unshared, Creating, CreatorInv
  <2>3. \A h \in Handles : table'[h] = table[h] \/ table'[h] = thr[t].s
    BY <1>3 DEF AddInsert, TypeOK
  <2>4. CreatorInv'
    <3>1. \A u \in Users : Creating(u)' <=> Creating(u)
      BY <2>1, <2>2 DEF Creating, Unshared
    <3>2. \A u \in Users : Unshared(u)' => Unshared(u) /\ u # t /\ thr[u].s # thr[t].s
      BY <2>1, <2>2 DEF Unshared, CreatorInv
    <3> QED
      BY <1>0, <2>1, <2>2, <2>3, <3>1, <3>2, ConstantsOK DEF CreatorInv, bufVars
  <2>5. ReceivesBounded'
    <3>1. Receives(thr[t].s) = {}
      BY <2>2 DEF Receives, CreatorInv
    <3>2. Cardinality(Receives(thr[t].s)) = 0
      BY <3>1, FS_EmptySet
    <3> QED
      BY <1>0, <2>1, <2>2, <3>2, CountReceives DEF ReceivesBounded, CreatorInv
  <2> QED
    BY <2>4, <2>5
<1> QED
  BY <1>1, <1>2, <1>3

LEMMA ArmCreator ==
  ASSUME TypeOK, HandleInv, CreatorInv, ReceivesBounded, NEW t \in Users, ArmRecv(t)
  PROVE  CreatorInv' /\ ReceivesBounded'
<1> USE DEF At
<1>1. CASE Tell(t) /\ UNCHANGED bufVars
  <2>1. ~Creating(t)' /\ thr'[t].s = None /\ \A u \in Users : u # t => thr'[u] = thr[u]
    BY <1>1, ReturnType DEF Tell, Creating, Unshared, Idle
  <2> QED
    BY <1>1, <2>1, KeepsCreator DEF ArmRecv
<1>2. ASSUME NEW b \in Buffers \ heap, Submit(b, "recv", thr[t].h, thr[t].s),
             IF ArmedAll(thr[t].k + 1)
             THEN Tell(t)
             ELSE thr' = [thr EXCEPT ![t].k = @ + 1] /\ UNCHANGED told
      PROVE  CreatorInv' /\ ReceivesBounded'
  <2>1. /\ At(t, "arm") /\ Creating(t) /\ thr[t].s \in Sockets /\ thr[t].k \in Nat
        /\ thr[t].k < RecvCount /\ table' = table /\ RecvCount \in Nat
    BY ConstantsOK DEF ArmRecv, Creating, CreatorInv, TypeOK, Locals
  <2>2. /\ \A u \in Users : u # t => thr'[u] = thr[u]
        /\ \/ ~Creating(t)' /\ thr'[t].s = None
           \/ /\ thr'[t].pc = "arm" /\ thr'[t].s = thr[t].s
              /\ thr'[t].k = thr[t].k + 1 /\ thr[t].k + 1 < RecvCount
    <3>1. CASE ArmedAll(thr[t].k + 1)
      BY <1>2, <3>1, ReturnType DEF Tell, Creating, Unshared, Idle
    <3>2. CASE ~ArmedAll(thr[t].k + 1)
      BY <1>2, <2>1, <3>2 DEF ArmedAll, TypeOK, Locals
    <3> QED
      BY <3>1, <3>2
  <2>3. heap' = heap \cup {b} /\ buf'[b].sock = thr[t].s /\ \A c \in heap : buf'[c] = buf[c]
    BY <1>2 DEF Submit, TypeOK
  <2>4. CreatorInv'
    <3>1. IsFiniteSet(heap')
      BY <2>3, FS_AddElement DEF CreatorInv
    <3>2. \A u \in Users : /\ Creating(u)' => Creating(u) /\ thr'[u].s = thr[u].s
                           /\ Unshared(u)' => /\ Unshared(u) /\ u # t /\ thr[u].s # thr[t].s
                                              /\ thr'[u] = thr[u]
      BY <2>1, <2>2 DEF Creating, Unshared, CreatorInv
    <3>3. \A u \in Users : At(u, "arm")' => thr'[u].k < RecvCount
      BY <2>2 DEF CreatorInv, Creating
    <3>4. \A u \in Users : thr'[u].s = None \/ thr'[u].s = thr[u].s
      BY <2>2
    <3> QED
      BY <2>1, <2>3, <3>1, <3>2, <3>3, <3>4, ConstantsOK DEF CreatorInv, Creating
  <2>5. ReceivesBounded'
    <3>1. ASSUME NEW s \in Sockets
          PROVE  /\ Cardinality(Receives(s)') <= RecvCount
                 /\ \A u \in Users : At(u, "arm")' /\ thr'[u].s = s
                                        => Cardinality(Receives(s)') <= thr'[u].k
      <4>1. CASE s = thr[t].s
        <5>1. Cardinality(Receives(s)') = Cardinality(Receives(s)) + 1
          BY <1>2, <4>1, CountReceives DEF CreatorInv
        <5>2. Cardinality(Receives(s)) \in Nat /\ Cardinality(Receives(s)) <= thr[t].k
          BY <2>1, <4>1, CountReceives DEF CreatorInv, ReceivesBounded
        <5>3. \A u \in Users : At(u, "arm")' /\ thr'[u].s = s => u = t /\ thr'[t].k = thr[t].k + 1
          BY <2>1, <2>2, <4>1 DEF CreatorInv, Creating
        <5> QED
          BY <2>1, <5>1, <5>2, <5>3
      <4>2. CASE s # thr[t].s
        <5>1. Receives(s)' = Receives(s)
          BY <1>2, <4>2, CountReceives DEF CreatorInv
        <5>2. \A u \in Users : At(u, "arm")' /\ thr'[u].s = s => u # t /\ thr'[u] = thr[u]
          BY <2>1, <2>2, <4>2, ConstantsOK DEF Creating
        <5> QED
          BY <5>1, <5>2 DEF ReceivesBounded
      <4> QED
        BY <4>1, <4>2
    <3> QED
      BY <3>1 DEF ReceivesBounded
  <2> QED
    BY <2>4, <2>5
<1> QED
  BY <1>1, <1>2 DEF ArmRecv

LEMMA UserCreator ==
  ASSUME TypeOK, HandleInv, IndexOwnership, CreatorInv, ReceivesBounded, NEW t \in Users, User(t)
  PROVE  CreatorInv' /\ ReceivesBounded'
<1> USE DEF At
<1>1. CASE UdpCreate(t) \/ AddIndex(t) \/ AddInsert(t)
  BY <1>1, CreateCreator
<1>2. CASE ArmRecv(t)
  BY <1>2, ArmCreator
<1>3. ASSUME NEW h \in told, UdpDestroy(t, h) PROVE CreatorInv' /\ ReceivesBounded'
  <2>1. ~Creating(t)' /\ thr'[t].s = thr[t].s /\ \A u \in Users : u # t => thr'[u] = thr[u]
    BY <1>3 DEF UdpDestroy, TypeOK, Locals, Creating, Unshared
  <2> QED
    BY <1>3, <2>1, KeepsCreator DEF UdpDestroy
<1>4. ASSUME NEW h \in told, UdpSendTo(t, h) PROVE CreatorInv' /\ ReceivesBounded'
  <2>1. ~Creating(t)' /\ thr'[t].s = table[h] /\ \A u \in Users : u # t => thr'[u] = thr[u]
    BY <1>4 DEF UdpSendTo, TypeOK, Locals, Creating, Unshared
  <2>2. h \in Handles
    BY DEF TypeOK
  <2> QED
    BY <1>4, <2>1, <2>2, KeepsCreator DEF UdpSendTo
<1>5. CASE RemoveErase(t)
  <2>1. ~Creating(t)' /\ \A u \in Users : u # t => thr'[u] = thr[u]
    BY <1>5, ReturnType DEF RemoveErase, Goto, TypeOK, Locals, Creating, Unshared, Idle
  <2>2. thr'[t].s = thr[t].s \/ thr'[t].s = None
    BY <1>5, ReturnType DEF RemoveErase, Goto, TypeOK, Locals, Idle
  <2>3. \A h \in Handles : table'[h] = table[h] \/ table'[h] = None
    BY <1>5 DEF RemoveErase, TypeOK
  <2> QED
    BY <1>5, <2>1, <2>2, <2>3, KeepsCreator DEF RemoveErase
<1>6. CASE RemoveIndex(t)
  <2>1. ~Creating(t)' /\ thr'[t].s = None /\ \A u \in Users : u # t => thr'[u] = thr[u]
    BY <1>6, ReturnType DEF RemoveIndex, Creating, Unshared, Idle
  <2> QED
    BY <1>6, <2>1, KeepsCreator DEF RemoveIndex
<1>7. CASE AsyncSendTo(t)
  <2>1. /\ ~Creating(t)' /\ thr'[t].s = None /\ table' = table
        /\ \A u \in Users : u # t => thr'[u] = thr[u]
    BY <1>7, ReturnType DEF AsyncSendTo, Creating, Unshared, Idle
  <2>2. CASE UNCHANGED bufVars
    BY <2>1, <2>2, KeepsCreator
  <2>3. ASSUME NEW b \in Buffers \ heap, Submit(b, "send", thr[t].h, thr[t].s)
        PROVE  CreatorInv' /\ ReceivesBounded'
    <3>1. /\ heap' = heap \cup {b} /\ buf'[b].sock = thr[t].s /\ \A c \in heap : buf'[c] = buf[c]
          /\ At(t, "send")
      BY <1>7, <2>3 DEF Submit, TypeOK, AsyncSendTo
    <3>2. IsFiniteSet(heap')
      BY <3>1, FS_AddElement DEF CreatorInv
    <3>3. \A u \in Users : /\ Creating(u)' => Creating(u) /\ u # t
                           /\ Unshared(u)' => Unshared(u) /\ u # t /\ thr[u].s # thr[t].s
      BY <2>1, <3>1 DEF Creating, Unshared, CreatorInv
    <3>4. CreatorInv'
      BY <2>1, <3>1, <3>2, <3>3, ConstantsOK DEF CreatorInv, Creating
    <3>5. ReceivesBounded'
      BY <2>1, <2>3, <3>3, CountReceives DEF ReceivesBounded, CreatorInv, Creating
    <3> QED
      BY <3>4, <3>5
  <2> QED
    BY <1>7, <2>2, <2>3 DEF AsyncSendTo
<1> QED
  BY <1>1, <1>2, <1>3, <1>4, <1>5, <1>6, <1>7 DEF User

LEMMA NextCreator ==
  ASSUME TypeOK, HandleInv, IndexOwnership, CreatorInv, ReceivesBounded, [Next]_vars
  PROVE  CreatorInv' /\ ReceivesBounded'
<1>1. ASSUME NEW t \in Users, User(t) PROVE CreatorInv' /\ ReceivesBounded'
  BY <1>1, UserCreator
<1>2. ASSUME UNCHANGED <<table, heap, buf, thr>> PROVE CreatorInv' /\ ReceivesBounded'
  <2>1. CreatorInv'
    BY <1>2 DEF CreatorInv, Creating, Unshared, At
  <2>2. ReceivesBounded'
    BY <1>2 DEF ReceivesBounded, Receives, At
  <2> QED
    BY <2>1, <2>2
<1>3. ASSUME NEW b \in Buffers, Complete(b) PROVE CreatorInv' /\ ReceivesBounded'
  BY <1>2, <1>3 DEF Complete
<1>4. ASSUME NEW b \in Buffers, Handle(b) PROVE CreatorInv' /\ ReceivesBounded'
  <2>1. CASE Delete(b)
    <3>1. UNCHANGED <<table, thr>>
      BY <1>4 DEF Handle, OnUdpSend, OnUdpRecv
    <3>2. heap' = heap \ {b} /\ \A c \in heap' : buf'[c] = buf[c]
      BY <2>1 DEF Delete, TypeOK
    <3>3. IsFiniteSet(heap')
      BY <3>2, FS_Subset DEF CreatorInv
    <3>4. CreatorInv'
      BY <3>1, <3>2, <3>3 DEF CreatorInv, Creating, Unshared, At
    <3>5. ASSUME NEW s \in Sockets
          PROVE  /\ Cardinality(Receives(s)') <= RecvCount
                 /\ \A u \in Users : At(u, "arm") /\ thr[u].s = s
                                        => Cardinality(Receives(s)') <= thr[u].k
      <4>1. Cardinality(Receives(s)') <= Cardinality(Receives(s)) /\ Cardinality(Receives(s)) \in Nat
        BY <2>1, CountReceives DEF CreatorInv
      <4>2. Cardinality(Receives(s)') \in Nat
        BY <3>2, <3>3, FS_Subset, FS_CardinalityType DEF Receives
      <4>3. \A u \in Users : thr[u].k \in Nat
        BY DEF TypeOK, Locals
      <4> QED
        BY <4>1, <4>2, <4>3, ConstantsOK DEF ReceivesBounded
    <3>6. ReceivesBounded'
      BY <3>1, <3>5 DEF ReceivesBounded, At
    <3> QED
      BY <3>4, <3>6
  <2>2. CASE UNCHANGED bufVars
    BY <1>2, <1>4, <2>2 DEF Handle, OnUdpSend, OnUdpRecv, bufVars
  <2> QED
    BY <1>4, <2>1, <2>2 DEF Handle, OnUdpSend, OnUdpRecv
<1>5. CASE UNCHANGED vars
  BY <1>2, <1>5 DEF vars
<1> QED
  BY <1>1, <1>3, <1>4, <1>5 DEF Next

-----------------------------------------------------------------------------
(* The theorems.                                                           *)

LEMMA NextIInv == ASSUME IInv, [Next]_vars PROVE IInv'
BY NextTypes, NextIndexOwnership, NextCreator DEF IInv

LEMMA InvariantIInv == Spec => []IInv
<1>1. IInv /\ [Next]_vars => IInv'
  BY NextIInv
<1> QED
  BY InitIInv, <1>1, PTL DEF Spec

\* The interface and the handlers keep the table, the buffers and every thread's locals in
\* their types, and a user between calls holds nothing (UdpCreate, AddUdpSocket,
\* RemoveUdpSocket, UdpSendTo, OnUdpRecv and OnUdpSend of net_res_mgr.cpp).
THEOREM TypesCorrect == Spec => []TypeOK
<1>1. IInv => TypeOK
  BY DEF IInv
<1> QED
  BY InvariantIInv, <1>1, PTL

\* AddUdpSocket takes the index before the lock and inserts under it; RemoveUdpSocket erases
\* under it and gives the index back after it. However the calls of any number of threads
\* interleave there, an index in use has one owner.
THEOREM IndexesOwned == Spec => []IndexOwnership
<1>1. IInv => IndexOwnership
  BY DEF IInv
<1> QED
  BY InvariantIInv, <1>1, PTL

\* UdpCreate's loop starts one receive for each processor and OnUdpRecv starts none, so
\* a socket never has more than that on their way, also when its handle is destroyed, given
\* again, and sent to while UdpCreate still runs.
THEOREM ReceivesStayBounded == Spec => []ReceivesBounded
<1>1. IInv => ReceivesBounded
  BY DEF IInv
<1> QED
  BY InvariantIInv, <1>1, PTL

=============================================================================
