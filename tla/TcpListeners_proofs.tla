------------------------ MODULE TcpListeners_proofs ------------------------
(***************************************************************************)
(* Proofs about the accepts of a listener, when the indexer gives no index *)
(* twice.                                                                  *)
(***************************************************************************)
EXTENDS TcpCallbacks_proofs, FiniteSetTheorems

-----------------------------------------------------------------------------
(* The accepts of a listener, buffer by buffer and worker by worker.       *)

\* The listener that buffer b is an accept of, on its way.
AcceptOf(b) == IF b \in heap /\ io[b] # "none" /\ buf[b].type = "accept" THEN buf[b].sock ELSE None

\* Worker w is in OnTcpAccept for listener s and has its accept buffer.
Accepts(w, s) == thr[w].s = s /\ sock[s].listen /\ thr[w].b # None

LEMMA SlotsAlways ==
  TypeOK => \A s \in Sockets : AcceptSlots(s) = {b \in Buffers : AcceptOf(b) = s}
                                                  \cup {w \in Workers : Accepts(w, s)}
<1> SUFFICES ASSUME TypeOK, NEW s \in Sockets
             PROVE  AcceptSlots(s) = {b \in Buffers : AcceptOf(b) = s}
                                       \cup {w \in Workers : Accepts(w, s)}
  OBVIOUS
<1>1. s # None /\ heap \subseteq Buffers
  BY ConstantsOK DEF TypeOK
<1> QED
  BY <1>1 DEF AcceptSlots, AcceptOf, Accepts

LEMMA SlotsNext ==
  TypeOK' => (\A s \in Sockets : AcceptSlots(s) = {b \in Buffers : AcceptOf(b) = s}
                                                    \cup {w \in Workers : Accepts(w, s)})'
BY SlotsAlways, PTL

\* There are finitely many processors, and memory for finitely many buffers.
Finite == IsFiniteSet(Buffers) /\ IsFiniteSet(Workers)

LEMMA SlotsFinite ==
  ASSUME Finite, TypeOK, TypeOK', NEW s \in Sockets
  PROVE  IsFiniteSet(AcceptSlots(s)) /\ IsFiniteSet(AcceptSlots(s)')
<1>1. IsFiniteSet(Buffers \cup Workers)
  BY FS_Union DEF Finite
<1>2. AcceptSlots(s) \subseteq Buffers \cup Workers
  BY SlotsAlways
<1>3. AcceptSlots(s)' \subseteq Buffers \cup Workers
  BY SlotsNext
<1> QED
  BY <1>1, <1>2, <1>3, FS_Subset

\* A set that loses one element and gains another is not smaller.
LEMMA Exchange ==
  ASSUME NEW S, NEW T, IsFiniteSet(S), IsFiniteSet(T), NEW x \in S, NEW y \in T, y \notin S,
         S \ {x} \subseteq T
  PROVE  Cardinality(T) >= Cardinality(S)
<1>1. IsFiniteSet(S \ {x}) /\ Cardinality(S \ {x}) = Cardinality(S) - 1
  BY FS_RemoveElement
<1>2. IsFiniteSet((S \ {x}) \cup {y})
      /\ Cardinality((S \ {x}) \cup {y}) = Cardinality(S \ {x}) + 1
  BY <1>1, FS_AddElement
<1>3. Cardinality((S \ {x}) \cup {y}) <= Cardinality(T)
  BY FS_Subset
<1>4. Cardinality(S) \in Nat /\ Cardinality(T) \in Nat
  BY FS_CardinalityType
<1> QED
  BY <1>1, <1>2, <1>3, <1>4

-----------------------------------------------------------------------------
(* What a step does to the accepts of a listener that stays in the table.  *)

\* The entry of handle h is a listener, and it stays in the table.
Stays(h) == table[h] # None /\ table'[h] = table[h] /\ sock[table[h]].listen

Kept(h) == \/ Cardinality(AcceptSlots(table[h])') >= Cardinality(AcceptSlots(table[h]))
           \/ \E w \in Workers : At(w, "on_error")' /\ thr'[w].rh = h

AllKept == \A h \in Handles : Stays(h) => Kept(h)

\* The accepts of listener s that are on their way stay there, but for buffer b, and the
\* workers that have one keep it, but for worker t.
BuffersStay(s, b) == \A c \in Buffers : c # b /\ AcceptOf(c) = s => AcceptOf(c)' = s
WorkersStay(s, t) == \A w \in Workers : w # t /\ Accepts(w, s) => Accepts(w, s)'

LEMMA SlotsGrow ==
  ASSUME Finite, TypeOK, TypeOK', NEW s \in Sockets,
         \A c \in Buffers : AcceptOf(c) = s => AcceptOf(c)' = s,
         \A w \in Workers : Accepts(w, s) => Accepts(w, s)'
  PROVE  Cardinality(AcceptSlots(s)') >= Cardinality(AcceptSlots(s))
<1>1. AcceptSlots(s) \subseteq AcceptSlots(s)'
  BY SlotsAlways, SlotsNext
<1>2. Cardinality(AcceptSlots(s)) <= Cardinality(AcceptSlots(s)')
  BY <1>1, SlotsFinite, FS_Subset
<1>3. Cardinality(AcceptSlots(s)) \in Nat /\ Cardinality(AcceptSlots(s)') \in Nat
  BY SlotsFinite, FS_CardinalityType
<1> QED
  BY <1>2, <1>3

\* Worker t and buffer b hand an accept of s to each other.
LEMMA SlotsPass ==
  ASSUME Finite, TypeOK, TypeOK', NEW s \in Sockets, NEW b \in Buffers, NEW t \in Workers,
         BuffersStay(s, b), WorkersStay(s, t),
         \/ AcceptOf(b) = s /\ ~Accepts(t, s) /\ Accepts(t, s)'
         \/ Accepts(t, s) /\ AcceptOf(b) # s /\ AcceptOf(b)' = s
  PROVE  Cardinality(AcceptSlots(s)') >= Cardinality(AcceptSlots(s))
<1> DEFINE S == AcceptSlots(s)
           T == AcceptSlots(s)'
<1>1. Threads \cap Buffers = {} /\ Workers \subseteq Threads
  BY ConstantsOK DEF Threads
<1>2. IsFiniteSet(S) /\ IsFiniteSet(T)
  BY SlotsFinite
<1>3. S = {c \in Buffers : AcceptOf(c) = s} \cup {w \in Workers : Accepts(w, s)}
  BY SlotsAlways
<1>4. /\ \A c \in Buffers : AcceptOf(c)' = s => c \in T
      /\ \A w \in Workers : Accepts(w, s)' => w \in T
  BY SlotsNext
<1> HIDE DEF S, T
<1>5. CASE AcceptOf(b) = s /\ ~Accepts(t, s) /\ Accepts(t, s)'
  <2>1. b \in S /\ t \notin S /\ t \in T
    BY <1>1, <1>3, <1>4, <1>5
  <2>2. S \ {b} \subseteq T
    BY <1>3, <1>4, <1>5 DEF BuffersStay, WorkersStay
  <2> QED
    BY <1>2, <2>1, <2>2, Exchange DEF S, T
<1>6. CASE Accepts(t, s) /\ AcceptOf(b) # s /\ AcceptOf(b)' = s
  <2>1. t \in S /\ b \notin S /\ b \in T
    BY <1>1, <1>3, <1>4, <1>6
  <2>2. S \ {t} \subseteq T
    BY <1>3, <1>4, <1>6 DEF BuffersStay, WorkersStay
  <2> QED
    BY <1>2, <2>1, <2>2, Exchange DEF S, T
<1> QED
  BY <1>5, <1>6

\* A listener that something refers to goes on to listen.
LEMMA ListensOn ==
  ASSUME TypeOK, [Next]_vars, NEW x \in Sockets \ FreeSockets, sock[x].listen
  PROVE  sock'[x].listen
<1>1. CASE sock'[x] = sock[x]
  BY <1>1
<1>2. ASSUME NEW b, NEW h, NEW s, AsyncTcpAccept(b, h, s) PROVE sock'[x] = sock[x]
  BY <1>2 DEF AsyncTcpAccept, TypeOK
<1>3. ASSUME NEW t \in Threads, Listen(t) PROVE sock'[x].listen
  <2>1. CASE sock' = sock
    BY <1>1, <2>1
  <2>2. CASE sock' = [sock EXCEPT ![thr[t].s].listen = TRUE]
    BY <2>2 DEF TypeOK, Flags
  <2> QED
    BY <1>3, <2>1, <2>2 DEF Listen
<1>4. ASSUME NEW t \in Threads, Connect(t) PROVE sock'[x].listen
  <2>1. CASE sock' = sock
    BY <1>1, <2>1
  <2>2. CASE sock' = [sock EXCEPT ![thr[t].s].connect = TRUE]
    BY <2>2 DEF TypeOK, Flags
  <2> QED
    BY <1>4, <2>1, <2>2 DEF Connect
<1>5. ASSUME NEW t \in Threads, SetAccepted(t) PROVE sock'[x].listen
  <2>1. CASE sock' = sock
    BY <1>1, <2>1
  <2>2. CASE sock' = [sock EXCEPT ![thr[t].a].bind = TRUE, ![thr[t].a].connect = TRUE]
    BY <2>2 DEF TypeOK, Flags
  <2> QED
    BY <1>5, <2>1, <2>2 DEF SetAccepted
<1>6. ASSUME NEW t \in Threads, Step(t) PROVE sock'[x].listen
  <2>1. CASE ArmAccept(t) \/ Reset(t)
    BY <1>1, <1>2, <2>1 DEF ArmAccept, Reset
  <2> QED
    BY <1>1, <1>3, <1>4, <1>5, <1>6, <2>1 DEF Step, AddIndex, AddInsert, RemoveErase, RemoveIndex, Send,
       RecvNew, OnTcpAccepted, OnTcpError, OnTcpDisconnected, OnRecv, OnTcpReceived, Rearm
<1>7. ASSUME NEW t \in Users, Call(t) PROVE sock'[x].listen
  <2>1. CASE TcpCreate(t)
    BY <1>1, <2>1 DEF TcpCreate, TypeOK
  <2> QED
    BY <1>1, <1>7, <2>1 DEF Call, TcpDestroy, TcpListen, TcpConnect, TcpSend, GetTcpSocket
<1>8. ASSUME NEW t \in Workers, Handle(t) PROVE sock'[x].listen
  BY <1>1, <1>8 DEF Handle, OnTcpAccept, OnTcpSend, OnTcpRecv
<1>9. CASE Kernel \/ UNCHANGED vars
  BY <1>1, <1>9 DEF Kernel, Complete, Abort, vars
<1> QED
  BY <1>6, <1>7, <1>8, <1>9 DEF Next

\* What is known of a listener that stays in the table.
LEMMA StaysFacts ==
  ASSUME TypeOK, [Next]_vars, NEW h \in Handles, Stays(h)
  PROVE  /\ table[h] \in Sockets /\ table[h] # None /\ ~Gone(table[h])
         /\ sock[table[h]].listen /\ sock'[table[h]].listen
<1>1. table[h] \in Sockets /\ table[h] # None /\ sock[table[h]].listen
  BY DEF Stays, TypeOK, Maybe
<1>2. table[h] \notin FreeSockets
  BY DEF FreeSockets, Referenced
<1> QED
  BY <1>1, <1>2, ListensOn DEF Gone

\* Thread t keeps the accept it has.
KeepsAccept(t) == \/ t \in Users \/ thr[t].b = None \/ ~sock[thr[t].s].listen
                  \/ thr'[t].b # None /\ thr'[t].s = thr[t].s

\* The accept of buffer c goes on, or its listener is out of the table.
AcceptStays(c) == AcceptOf(c) = None \/ Gone(AcceptOf(c)) \/ AcceptOf(c)' = AcceptOf(c)

LEMMA AcceptsStay ==
  ASSUME ConnFacts, ConnFacts', [Next]_vars, Finite, NEW t \in Threads, OthersSame(t), KeepsAccept(t),
         \A c \in Buffers : AcceptStays(c)
  PROVE  AllKept
<1> SUFFICES ASSUME NEW h \in Handles, Stays(h) PROVE Kept(h)
  BY DEF AllKept
<1>1. TypeOK /\ TypeOK'
  BY DEF ConnFacts, IInv
<1>2. /\ table[h] \in Sockets /\ table[h] # None /\ ~Gone(table[h])
      /\ sock[table[h]].listen /\ sock'[table[h]].listen /\ table'[h] = table[h]
  BY <1>1, StaysFacts DEF Stays
<1>3. PICK s \in Sockets : s = table[h]
  BY <1>2
<1>4. \A c \in Buffers : AcceptOf(c) = s => AcceptOf(c)' = s
  BY <1>2, <1>3 DEF AcceptStays
<1>5. \A w \in Workers : Accepts(w, s) => Accepts(w, s)'
  BY <1>2, <1>3, ConstantsOK DEF Accepts, OthersSame, KeepsAccept, Threads
<1>6. Cardinality(AcceptSlots(s)') >= Cardinality(AcceptSlots(s))
  BY <1>1, <1>4, <1>5, SlotsGrow
<1> QED
  BY <1>2, <1>3, <1>6 DEF Kept

\* What the calls that change buffers do to accepts.
LEMMA AcceptBuffers ==
  ASSUME TypeOK, NEW b \in Buffers
  PROVE  /\ \A type, h, s, a : Submit(b, type, h, s, a) =>
              OtherBuffers(b) /\ AcceptOf(b)' = IF type = "accept" THEN s ELSE None
         /\ Delete(b) => OtherBuffers(b) /\ AcceptOf(b)' = None
         /\ \A c \in Buffers \ {b} : OtherBuffers(b) => AcceptOf(c)' = AcceptOf(c)
         /\ UNCHANGED <<heap, buf, io>> => AcceptOf(b)' = AcceptOf(b)
<1>1. ASSUME NEW type, NEW h, NEW s, NEW a, Submit(b, type, h, s, a)
      PROVE  OtherBuffers(b) /\ AcceptOf(b)' = IF type = "accept" THEN s ELSE None
  <2>1. heap' = heap \cup {b} /\ io'[b] = "pending" /\ buf'[b].type = type /\ buf'[b].sock = s
    BY <1>1 DEF Submit, TypeOK
  <2>2. OtherBuffers(b)
    BY <1>1, BuffersStep
  <2> QED
    BY <2>1, <2>2 DEF AcceptOf
<1>2. ASSUME Delete(b) PROVE OtherBuffers(b) /\ AcceptOf(b)' = None
  BY <1>2 DEF Delete, TypeOK, OtherBuffers, AcceptOf
<1>3. \A c \in Buffers \ {b} : OtherBuffers(b) => AcceptOf(c)' = AcceptOf(c)
  BY DEF OtherBuffers, AcceptOf
<1>4. UNCHANGED <<heap, buf, io>> => AcceptOf(b)' = AcceptOf(b)
  BY DEF AcceptOf
<1> QED
  BY <1>1, <1>2, <1>3, <1>4

LEMMA NoAccept ==
  ASSUME ConnFacts, NEW b \in Buffers, b \notin heap \/ \E w \in Workers : thr[w].b = b
  PROVE  AcceptOf(b) = None
BY DEF ConnFacts, IInv, BufferOwnership, AcceptOf

\* Only buffer b changes, and it was no accept on its way.
LEMMA AcceptsUntouched ==
  ASSUME TypeOK, \/ UNCHANGED <<heap, buf, io>>
                 \/ \E b \in Buffers : OtherBuffers(b) /\ AcceptStays(b)
  PROVE  \A c \in Buffers : AcceptStays(c)
BY AcceptBuffers DEF AcceptStays

-----------------------------------------------------------------------------
(* Action by action.                                                       *)

\* Users have no accepts of a handler, and take no buffer that is in use.
LEMMA UserKeeps ==
  ASSUME ConnFacts, ConnFacts', [Next]_vars, Finite, NEW t \in Users, Call(t) \/ Step(t)
  PROVE  AllKept
<1>1. TypeOK /\ t \in Threads /\ thr[t].pc \in UserPCs
  BY ThreadFacts DEF Threads, LocalsOK
<1>2. OthersSame(t) /\ KeepsAccept(t)
  BY <1>1, OthersKeep DEF KeepsAccept
<1>3. ASSUME NEW b \in Buffers \ heap, NEW type, NEW h, NEW s, NEW a, Submit(b, type, h, s, a)
      PROVE  OtherBuffers(b) /\ AcceptStays(b)
  BY <1>1, <1>3, AcceptBuffers, NoAccept DEF AcceptStays
<1>4. \/ UNCHANGED <<heap, buf, io>>
      \/ \E b \in Buffers : OtherBuffers(b) /\ AcceptStays(b)
  <2>1. CASE Call(t)
    BY <2>1 DEF Call, TcpCreate, TcpDestroy, TcpListen, TcpConnect, TcpSend, GetTcpSocket, bufVars
  <2>2. CASE AddIndex(t) \/ AddInsert(t) \/ RemoveErase(t) \/ RemoveIndex(t) \/ Listen(t) \/ Connect(t)
    BY <2>2 DEF AddIndex, AddInsert, RemoveErase, RemoveIndex, Listen, Connect, bufVars
  <2>3. CASE ArmAccept(t) \/ Send(t) \/ RecvNew(t)
    BY <1>3, <2>3 DEF ArmAccept, Send, RecvNew, AsyncTcpAccept, AsyncTcpRecv, bufVars
  <2> QED
    BY <1>1, <2>1, <2>2, <2>3 DEF Step, At, UserPCs, SetAccepted, OnTcpAccepted, Reset, OnTcpError,
       OnTcpDisconnected, OnRecv, OnTcpReceived, Rearm
<1> QED
  BY <1>1, <1>2, <1>4, AcceptsUntouched, AcceptsStay

\* A worker that has an accept keeps it until it is armed again, whatever became of the
\* accepted socket.
LEMMA WorkerHolds ==
  ASSUME TypeOK, NEW t \in Threads, t \in Workers, t \notin Users, LocalsOK(t),
         \/ AddIndex(t) \/ AddInsert(t) \/ RemoveErase(t) \/ RemoveIndex(t) \/ RecvNew(t)
         \/ SetAccepted(t) \/ OnTcpAccepted(t) \/ OnTcpError(t) \/ OnTcpDisconnected(t) \/ OnTcpReceived(t)
  PROVE  (thr'[t].s = thr[t].s /\ thr'[t].b = thr[t].b) \/ thr[t].b = None
<1> USE DEF At
<1>1. ASSUME NEW pc \in PCs \ {"idle"}, Goto(t, pc) PROVE thr'[t].s = thr[t].s /\ thr'[t].b = thr[t].b
  BY <1>1, GotoMoves, MovedSame
<1>2. ASSUME NEW pc \in PCs \ {"idle"}, NEW x \in Maybe(Handles),
             thr' = [thr EXCEPT ![t].pc = pc, ![t].rh = x]
      PROVE  thr'[t].s = thr[t].s /\ thr'[t].b = thr[t].b
  <2>1. Moved(t, pc, thr[t].h, thr[t].s, thr[t].a, thr[t].ah, x, thr[t].b, thr[t].k)
    BY <1>2, DestroyMoves
  <2> QED
    BY <2>1, MovedSame
<1>3. CASE AddIndex(t)
  <2>1. ASSUME NEW i \in FreeIndexes, thr' = [thr EXCEPT ![t].pc = "add_insert", ![t].ah = i]
        PROVE  thr'[t].s = thr[t].s /\ thr'[t].b = thr[t].b
    <3>1. i \in Handles
      BY DEF FreeIndexes
    <3>2. Moved(t, "add_insert", thr[t].h, thr[t].s, thr[t].a, i, thr[t].rh, thr[t].b, thr[t].k)
      BY <2>1, <3>1, IndexMoves
    <3> QED
      BY <3>2, MovedSame
  <2> QED
    BY <1>1, <1>3, <2>1 DEF AddIndex, PCs
<1>4. CASE AddInsert(t)
  BY <1>1, <1>4 DEF AddInsert, PCs
<1>5. ASSUME AfterRemove(t) PROVE (thr'[t].s = thr[t].s /\ thr'[t].b = thr[t].b) \/ thr[t].b = None
  BY <1>2, <1>5 DEF AfterRemove, PCs, Maybe
<1>6. CASE RemoveErase(t) \/ RemoveIndex(t)
  BY <1>1, <1>5, <1>6 DEF RemoveErase, RemoveIndex, PCs
<1>7. ASSUME RecvNew(t) \/ SetAccepted(t) PROVE thr[t].ah \in Maybe(Handles)
  BY <1>7, FieldTypes
<1>8. CASE RecvNew(t)
  BY <1>1, <1>2, <1>7, <1>8 DEF RecvNew, PCs
<1>9. CASE SetAccepted(t)
  BY <1>1, <1>2, <1>7, <1>9 DEF SetAccepted, PCs
<1>10. CASE OnTcpAccepted(t) \/ OnTcpError(t) \/ OnTcpDisconnected(t) \/ OnTcpReceived(t)
  BY <1>1, <1>10 DEF OnTcpAccepted, OnTcpError, OnTcpDisconnected, OnTcpReceived, PCs
<1> QED
  BY <1>3, <1>4, <1>6, <1>8, <1>9, <1>10

LEMMA WorkerKeeps ==
  ASSUME ConnFacts, ConnFacts', [Next]_vars, Finite, NEW t \in Workers,
         \/ AddIndex(t) \/ AddInsert(t) \/ RemoveErase(t) \/ RemoveIndex(t) \/ RecvNew(t)
         \/ SetAccepted(t) \/ OnTcpAccepted(t) \/ OnTcpError(t) \/ OnTcpDisconnected(t) \/ OnTcpReceived(t)
  PROVE  AllKept
<1>1. TypeOK /\ t \in Threads /\ t \notin Users /\ LocalsOK(t)
  BY ThreadFacts, ConstantsOK DEF Threads
<1>2. OthersSame(t)
  BY <1>1, OthersKeep DEF Step
<1>3. KeepsAccept(t)
  BY <1>1, WorkerHolds DEF KeepsAccept
<1>4. \/ UNCHANGED <<heap, buf, io>>
      \/ \E b \in Buffers : OtherBuffers(b) /\ AcceptStays(b)
  <2>1. ASSUME NEW b \in Buffers \ heap, NEW h, NEW s, AsyncTcpRecv(b, h, s)
        PROVE  OtherBuffers(b) /\ AcceptStays(b)
    BY <1>1, <2>1, AcceptBuffers, NoAccept DEF AcceptStays, AsyncTcpRecv
  <2> QED
    BY <2>1 DEF AddIndex, AddInsert, RemoveErase, RemoveIndex, RecvNew, SetAccepted, OnTcpAccepted,
       OnTcpError, OnTcpDisconnected, OnTcpReceived, bufVars
<1> QED
  BY <1>1, <1>2, <1>3, <1>4, AcceptsUntouched, AcceptsStay

\* A worker that reads a connection has no accept.
LEMMA ReaderKeeps ==
  ASSUME ConnFacts, ConnFacts', [Next]_vars, Finite, NEW t \in Workers, OnRecv(t) \/ Rearm(t)
  PROVE  AllKept
<1>1. TypeOK /\ t \in Threads /\ t \notin Users /\ LocalsOK(t) /\ WorkerPart(t)
  BY ThreadFacts, ConstantsOK DEF Threads
<1>2. OthersSame(t)
  BY <1>1, OthersKeep DEF Step
<1>3. thr[t].pc \in {"parse", "rearm"}
  BY DEF OnRecv, Rearm, At
<1>4. KeepsAccept(t)
  <2>1. sock[thr[t].s].connect /\ thr[t].s \in Sockets
    BY <1>1, <1>3 DEF WorkerPart, ConnectionPart, ReadPCs, LocalsOK
  <2> QED
    BY <2>1 DEF KeepsAccept, ConnFacts, ConnInv, FlagsInv
<1>5. PICK b \in Buffers : b = thr[t].b
  BY <1>1, <1>3 DEF LocalsOK
<1>6. AcceptOf(b) = None
  BY <1>5, NoAccept
<1>7. UNCHANGED <<heap, buf, io>> \/ (OtherBuffers(b) /\ AcceptStays(b))
  BY <1>1, <1>5, <1>6, AcceptBuffers DEF OnRecv, Rearm, AsyncTcpRecv, AcceptStays, bufVars
<1> QED
  BY <1>1, <1>2, <1>4, <1>7, AcceptsUntouched, AcceptsStay

\* The handler arms the accept again, or it is about to take the listener out.
LEMMA ResetKeeps ==
  ASSUME ConnFacts, ConnFacts', [Next]_vars, Finite, NEW t \in Workers, Reset(t)
  PROVE  AllKept
<1>1. TypeOK /\ TypeOK' /\ t \in Threads /\ t \notin Users /\ LocalsOK(t) /\ WorkerPart(t) /\ thr[t].pc = "reset"
  BY ThreadFacts, ConstantsOK DEF Threads, ConnFacts, IInv, Reset, At
<1>2. OthersSame(t)
  BY <1>1, OthersKeep DEF Step
<1>3. /\ thr[t].b \in Buffers /\ thr[t].b # None /\ thr[t].h \in Handles /\ thr[t].s \in Sockets
      /\ sock[thr[t].s].listen
  BY <1>1, ConstantsOK DEF LocalsOK, WorkerPart, AcceptPart, ReadPCs
<1>4. PICK b \in Buffers : b = thr[t].b
  BY <1>3
<1>5. PICK x \in Sockets : x = thr[t].s
  BY <1>3
<1>6. AcceptOf(b) = None
  BY <1>4, NoAccept
<1> SUFFICES ASSUME NEW h \in Handles, Stays(h) PROVE Kept(h)
  BY DEF AllKept
<1>7. /\ table[h] \in Sockets /\ table[h] # None /\ ~Gone(table[h])
      /\ sock[table[h]].listen /\ sock'[table[h]].listen /\ table'[h] = table[h]
  BY <1>1, StaysFacts DEF Stays
<1>8. PICK s \in Sockets : s = table[h]
  BY <1>7
<1>9. ASSUME OtherBuffers(b)
      PROVE  /\ \A c \in Buffers \ {b} : AcceptOf(c) = s => AcceptOf(c)' = s
             /\ \A w \in Workers \ {t} : Accepts(w, s) => Accepts(w, s)'
  <2>1. \A c \in Buffers \ {b} : AcceptOf(c)' = AcceptOf(c)
    BY <1>1, <1>9, AcceptBuffers
  <2> QED
    BY <1>2, <1>7, <1>8, <2>1 DEF Accepts, OthersSame, Threads
<1>10. CASE AsyncTcpAccept(b, thr[t].h, thr[t].s) /\ Return(t)
  <2>1. OtherBuffers(b) /\ AcceptOf(b)' = x
    BY <1>1, <1>5, <1>10, AcceptBuffers DEF AsyncTcpAccept
  <2>2. CASE x = s
    <3>1. Accepts(t, s) /\ AcceptOf(b) # s
      BY <1>3, <1>5, <1>6, <1>7, <1>8, <2>2 DEF Accepts
    <3> QED
      BY <1>1, <1>6, <1>7, <1>8, <1>9, <2>1, <2>2, <3>1, SlotsPass DEF BuffersStay, WorkersStay, Kept
  <2>3. CASE x # s
    <3>1. \A c \in Buffers : AcceptOf(c) = s => AcceptOf(c)' = s
      BY <1>6, <1>7, <1>8, <1>9, <2>1
    <3>2. \A w \in Workers : Accepts(w, s) => Accepts(w, s)'
      BY <1>5, <1>9, <2>1, <2>3 DEF Accepts
    <3> QED
      BY <1>1, <1>7, <1>8, <3>1, <3>2, SlotsGrow DEF Kept
  <2> QED
    BY <2>2, <2>3
<1>11. CASE /\ Delete(b)
            /\ thr' = [thr EXCEPT ![t].pc = "on_error", ![t].rh = thr[t].h, ![t].b = None]
  <2>1. OtherBuffers(b) /\ AcceptOf(b)' = None
    BY <1>1, <1>11, AcceptBuffers
  <2>2. CASE x = s
    <3>1. thr[t].h = h
      <4>1. Claimed(thr[t].h, s) /\ Claimed(h, s)
        BY <1>1, <1>5, <1>8, <2>2 DEF Claimed, Mine
      <4> QED
        BY <1>3, <4>1 DEF ConnFacts, ConnInv, OneToOne
    <3>2. Moved(t, "on_error", thr[t].h, thr[t].s, thr[t].a, thr[t].ah, thr[t].h, None, thr[t].k)
      BY <1>1, <1>3, <1>11, ErrorMoves DEF Maybe
    <3>3. thr'[t].pc = "on_error" /\ thr'[t].rh = h
      BY <1>1, <3>1, <3>2, MovedSame
    <3> QED
      BY <3>3 DEF Kept, At
  <2>3. CASE x # s
    <3>1. \A c \in Buffers : AcceptOf(c) = s => AcceptOf(c)' = s
      BY <1>6, <1>7, <1>8, <1>9, <2>1
    <3>2. \A w \in Workers : Accepts(w, s) => Accepts(w, s)'
      BY <1>5, <1>9, <2>1, <2>3 DEF Accepts
    <3> QED
      BY <1>1, <1>7, <1>8, <3>1, <3>2, SlotsGrow DEF Kept
  <2> QED
    BY <2>2, <2>3
<1> QED
  BY <1>4, <1>10, <1>11 DEF Reset

\* OnTcpAccept takes an accept from the port, or drops one whose listener is gone; the
\* other handlers take no accepts.
LEMMA HandleKeeps ==
  ASSUME ConnFacts, ConnFacts', [Next]_vars, Finite, NEW t \in Workers, Handle(t)
  PROVE  AllKept
<1>1. /\ TypeOK /\ TypeOK' /\ t \in Threads /\ t \notin Users /\ thr[t] = Idle /\ thr[t].b = None
      /\ thr[t].s = None
  BY ThreadFacts, IdleFields, ConstantsOK
     DEF Handle, OnTcpAccept, OnTcpSend, OnTcpRecv, Completed, TypeOK, Threads, ConnFacts, IInv, At
<1>2. OthersSame(t) /\ KeepsAccept(t)
  BY <1>1, OthersKeep DEF KeepsAccept
<1>3. ASSUME NEW b \in Buffers, OtherBuffers(b), AcceptStays(b) PROVE AllKept
  BY <1>1, <1>2, <1>3, AcceptsUntouched, AcceptsStay
<1>4. ASSUME NEW b \in Buffers, b \in heap, io[b] # "none",
             buf[b].type # "accept" \/ table[buf[b].handle] = None
      PROVE  AcceptStays(b)
  <2>1. CASE buf[b].type # "accept"
    BY <2>1 DEF AcceptStays, AcceptOf
  <2>2. CASE table[buf[b].handle] = None
    <3>1. buf[b].handle \in Handles /\ buf[b].sock \in Sockets /\ Claimed(buf[b].handle, buf[b].sock)
      BY <1>4 DEF ConnFacts, IInv, FreshInv, Claimed
    <3> QED
      BY <2>2, <3>1, GoneSocket DEF AcceptStays, AcceptOf
  <2> QED
    BY <1>4, <2>1, <2>2
<1>5. ASSUME NEW b \in Buffers, OnTcpAccept(t, b), table[buf[b].handle] # None PROVE AllKept
  <2>1. /\ thr' = [thr EXCEPT ![t] = [Idle EXCEPT !.pc = "add_index", !.h = buf[b].handle,
                                        !.s = table[buf[b].handle], !.a = buf[b].accept,
                                        !.b = b, !.ok = (io[b] = "ok")]]
        /\ TakeAccepted(b) /\ io' = [io EXCEPT ![b] = "none"] /\ UNCHANGED heap
        /\ b \in heap /\ io[b] # "none" /\ buf[b].type = "accept"
    BY <1>5 DEF OnTcpAccept, Completed
  <2>2. /\ buf[b].handle \in Handles /\ table[buf[b].handle] = buf[b].sock /\ buf[b].sock \in Sockets
    BY <1>5, <2>1, FoundSocket
  <2>3. buf[b].accept \in Maybe(Sockets) /\ (io[b] = "ok") \in BOOLEAN
    BY <1>1 DEF TypeOK, Operations
  <2>4. Moved(t, "add_index", buf[b].handle, table[buf[b].handle], buf[b].accept, None, None, b, 0)
    BY <1>1, <2>1, <2>2, <2>3, AcceptMoves
  <2>5. thr'[t].s = buf[b].sock /\ thr'[t].b = b /\ b # None
    BY <1>1, <2>2, <2>4, MovedSame, ConstantsOK
  <2>6. OtherBuffers(b) /\ AcceptOf(b) = buf[b].sock /\ AcceptOf(b)' = None
    BY <1>1, <2>1 DEF OtherBuffers, AcceptOf, TakeAccepted, TypeOK
  <2>7. \A c \in Buffers \ {b} : AcceptOf(c)' = AcceptOf(c)
    BY <1>1, <2>6, AcceptBuffers
  <2> SUFFICES ASSUME NEW h \in Handles, Stays(h) PROVE Kept(h)
    BY DEF AllKept
  <2>8. /\ table[h] \in Sockets /\ table[h] # None /\ sock[table[h]].listen
        /\ sock'[table[h]].listen /\ table'[h] = table[h]
    BY <1>1, StaysFacts DEF Stays
  <2>9. PICK s \in Sockets : s = table[h]
    BY <2>8
  <2>10. \A w \in Workers : /\ w # t => (Accepts(w, s) => Accepts(w, s)')
                            /\ w = t => ~Accepts(w, s)
    BY <1>1, <1>2, <2>8, <2>9 DEF Accepts, OthersSame, Threads
  <2>11. CASE buf[b].sock = s
    <3>1. AcceptOf(b) = s /\ ~Accepts(t, s) /\ Accepts(t, s)'
      BY <2>5, <2>6, <2>8, <2>9, <2>10, <2>11 DEF Accepts
    <3>2. BuffersStay(s, b) /\ WorkersStay(s, t)
      BY <2>7, <2>10 DEF BuffersStay, WorkersStay
    <3> QED
      BY <1>1, <2>8, <2>9, <3>1, <3>2, SlotsPass DEF Kept
  <2>12. CASE buf[b].sock # s
    <3>1. \A c \in Buffers : AcceptOf(c) = s => AcceptOf(c)' = s
      BY <2>6, <2>7, <2>12
    <3> QED
      BY <1>1, <2>8, <2>9, <2>10, <3>1, SlotsGrow DEF Kept
  <2> QED
    BY <2>11, <2>12
<1>6. ASSUME NEW b \in Buffers, OnTcpAccept(t, b) PROVE AllKept
  BY <1>1, <1>3, <1>4, <1>5, <1>6, AcceptBuffers DEF OnTcpAccept, Completed, Drop
<1>7. ASSUME NEW b \in Buffers, OnTcpSend(t, b) PROVE AllKept
  BY <1>1, <1>3, <1>4, <1>7, AcceptBuffers DEF OnTcpSend, Completed
<1>8. ASSUME NEW b \in Buffers, OnTcpRecv(t, b) PROVE AllKept
  <2>1. OtherBuffers(b)
    BY <1>1, <1>8, AcceptBuffers DEF OnTcpRecv, Drop, OtherBuffers, TypeOK
  <2> QED
    BY <1>3, <1>4, <1>8, <2>1 DEF OnTcpRecv, Completed
<1> QED
  BY <1>6, <1>7, <1>8 DEF Handle

\* Nothing changes hands when an operation completes, or when nothing happens.
LEMMA StillKeeps ==
  ASSUME ConnFacts, ConnFacts', [Next]_vars, Finite, Kernel \/ UNCHANGED vars
  PROVE  AllKept
<1>1. TypeOK /\ TypeOK'
  BY DEF ConnFacts, IInv
<1>2. UNCHANGED <<heap, buf, thr>> /\ \A c \in Buffers : io'[c] # "none" <=> io[c] # "none"
  <2>1. CASE Kernel
    <3>1. PICK b \in Buffers : Complete(b) \/ Abort(b)
      BY <2>1 DEF Kernel
    <3> QED
      BY <1>1, <3>1 DEF Complete, Abort, TypeOK
  <2> QED
    BY <2>1 DEF vars
<1> SUFFICES ASSUME NEW h \in Handles, Stays(h) PROVE Kept(h)
  BY DEF AllKept
<1>3. /\ table[h] \in Sockets /\ table[h] # None /\ sock'[table[h]].listen /\ table'[h] = table[h]
  BY <1>1, StaysFacts DEF Stays
<1>4. PICK s \in Sockets : s = table[h]
  BY <1>3
<1>5. \A c \in Buffers : AcceptOf(c) = s => AcceptOf(c)' = s
  BY <1>2 DEF AcceptOf
<1>6. \A w \in Workers : Accepts(w, s) => Accepts(w, s)'
  BY <1>2, <1>3, <1>4 DEF Accepts
<1> QED
  BY <1>1, <1>3, <1>4, <1>5, <1>6, SlotsGrow DEF Kept

LEMMA NextKeeps ==
  ASSUME ConnFacts, ConnFacts', [Next]_vars, Finite
  PROVE  AllKept
<1>1. ASSUME NEW t \in Threads, Step(t) PROVE AllKept
  <2>1. CASE t \in Users
    BY <1>1, <2>1, UserKeeps
  <2>2. CASE t \in Workers
    <3>1. t \notin Users /\ LocalsOK(t)
      BY <2>2, ThreadFacts, ConstantsOK
    <3>2. ~Listen(t) /\ ~ArmAccept(t) /\ ~Connect(t) /\ ~Send(t)
      BY <3>1 DEF LocalsOK, WorkerPCs, Listen, ArmAccept, Connect, Send, At
    <3> QED
      BY <1>1, <2>2, <3>2, WorkerKeeps, ReaderKeeps, ResetKeeps DEF Step
  <2> QED
    BY <2>1, <2>2 DEF Threads
<1> QED
  BY <1>1, UserKeeps, HandleKeeps, StillKeeps DEF Next

-----------------------------------------------------------------------------
(* The theorems.                                                           *)

\* Where the indexer gives no index twice, a listener that stays in the table loses no
\* accept: OnTcpAccept arms its buffer again whatever becomes of the accepted socket, or it
\* takes the listener out and says so.
THEOREM AcceptsKept ==
  ASSUME Recycle = FALSE, Finite
  PROVE  Spec => AcceptSlotsKept
<1>1. ConnFacts /\ ConnFacts' /\ [Next]_vars => AllKept
  BY NextKeeps
<1>2. AllKept =>
        \A h \in Handles :
          LET s == table[h] IN
          s # None /\ table'[h] = s /\ sock[s].listen =>
            \/ Cardinality(AcceptSlots(s)') >= Cardinality(AcceptSlots(s))
            \/ \E w \in Workers : At(w, "on_error")' /\ thr'[w].rh = h
  BY DEF AllKept, Stays, Kept
<1> QED
  BY <1>1, <1>2, InvariantConn, PTL DEF Spec, AcceptSlotsKept

=============================================================================
