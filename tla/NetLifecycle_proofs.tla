------------------------ MODULE NetLifecycle_proofs ------------------------
(***************************************************************************)
(* Proofs about NetLifecycle, for every set of threads, indexes, sockets   *)
(* and buffers, every number of workers and of starts, whatever the        *)
(* indexer gives again.                                                    *)
(***************************************************************************)
EXTENDS NetLifecycle, TcpResources_proofs, FiniteSetTheorems

Packets == Buffers \cup {Quit}

\* The places of packet p in the port q.
Places(q, p) == {i \in DOMAIN q : q[i] = p}

\* What the calls and handlers keep, with the tables cleared under them or not.
ResourcesInv == TypeOK /\ LocalsInv /\ Ownership

TypesInv == queue \in Seq(Packets) /\ LifeTypeOK

\* Where StartupNet and CleanupNet are says whether there is a port, and without a port
\* there is nothing that could need one.
StageInv ==
  /\ init = port
  /\ port => ctl \notin {"init", "stop"}
  /\ port \/ ctl = "init" => started
  /\ ctl = "idle" /\ started => port
  /\ ~port => /\ ctl \notin {"spawn", "post", "join"}
              /\ queue = <<>> /\ live = {} /\ heap = {}
              /\ \A t \in Threads : At(t, "idle")
  /\ posted = 0 \/ ctl \in {"post", "join"}
  /\ ctl = "post" => posted < ThreadNum
  /\ ctl = "join" => posted = ThreadNum

\* Before Uninit posts the first quit packet there is none, and every worker runs.
QuitInv ==
  /\ ctl \notin {"post", "join"} => \A i \in DOMAIN queue : queue[i] # Quit
  /\ port /\ ctl \notin {"spawn", "post", "join"} => live = Workers
  /\ OneQuitEach

\* What was in the port before Uninit is still ahead of every quit packet, so no worker has
\* ended.
DueInv ==
  /\ due # {} => ctl \in {"post", "join"} /\ live = Workers
  /\ \A b \in due : \E i \in DOMAIN queue :
       queue[i] = b /\ \A j \in DOMAIN queue : queue[j] = Quit => i < j

IndexInv == ctl \in {"idle", "init", "spawn"} => IndexOwnership

LifeInv == /\ ResourcesInv /\ TypesInv /\ StageInv /\ QuitInv /\ PortHoldsCompletions
           /\ DueInv /\ IndexInv

-----------------------------------------------------------------------------
(* The packets in the port.                                                *)

LEMMA PlacesFinite ==
  ASSUME NEW q \in Seq(Packets), NEW p
  PROVE  IsFiniteSet(Places(q, p)) /\ Cardinality(Places(q, p)) \in Nat
<1>1. DOMAIN q = 1 .. Len(q) /\ Len(q) \in Nat
  OBVIOUS
<1>2. Places(q, p) \in SUBSET (1 .. Len(q)) /\ IsFiniteSet(1 .. Len(q))
  BY <1>1, FS_Interval DEF Places
<1>3. IsFiniteSet(Places(q, p))
  BY <1>2, FS_Subset
<1> QED
  BY <1>3, FS_CardinalityType

LEMMA PlacesEmpty == \A p : Cardinality(Places(<<>>, p)) = 0
<1>1. \A p : Places(<<>>, p) = {}
  BY DEF Places
<1> QED
  BY <1>1, FS_EmptySet

\* The packet at the end has one place more.
LEMMA PlacesAppend ==
  ASSUME NEW q \in Seq(Packets), NEW x \in Packets
  PROVE  /\ Append(q, x) \in Seq(Packets)
         /\ Cardinality(Places(Append(q, x), x)) = Cardinality(Places(q, x)) + 1
         /\ \A p : p # x => Places(Append(q, x), p) = Places(q, p)
<1>1. /\ Len(q) \in Nat /\ DOMAIN q = 1 .. Len(q) /\ DOMAIN Append(q, x) = 1 .. Len(q) + 1
      /\ \A i \in 1 .. Len(q) : Append(q, x)[i] = q[i]
      /\ Append(q, x)[Len(q) + 1] = x
  OBVIOUS
<1>2. Places(Append(q, x), x) = Places(q, x) \cup {Len(q) + 1} /\ Len(q) + 1 \notin Places(q, x)
  BY <1>1 DEF Places
<1>3. \A p : p # x => Places(Append(q, x), p) = Places(q, p)
  BY <1>1 DEF Places
<1>4. IsFiniteSet(Places(q, x))
  BY PlacesFinite
<1>5. Cardinality(Places(q, x) \cup {Len(q) + 1}) = Cardinality(Places(q, x)) + 1
  BY <1>2, <1>4, FS_AddElement
<1> QED
  BY <1>2, <1>3, <1>5

\* The packet taken has one place less, and every other moves up by one.
LEMMA PlacesTail ==
  ASSUME NEW q \in Seq(Packets), q # <<>>
  PROVE  /\ Tail(q) \in Seq(Packets) /\ Head(q) \in Packets
         /\ Cardinality(Places(Tail(q), Head(q))) = Cardinality(Places(q, Head(q))) - 1
         /\ \A p : p # Head(q) => Cardinality(Places(Tail(q), p)) = Cardinality(Places(q, p))
<1>1. /\ Len(q) \in Nat \ {0} /\ DOMAIN q = 1 .. Len(q) /\ Head(q) = q[1]
      /\ Tail(q) \in Seq(Packets) /\ DOMAIN Tail(q) = 1 .. Len(q) - 1
      /\ \A i \in 1 .. Len(q) - 1 : Tail(q)[i] = q[i + 1]
  OBVIOUS
<1>2. ASSUME NEW p
      PROVE  Cardinality(Places(Tail(q), p)) = Cardinality(Places(q, p) \ {1})
  <2> DEFINE P == Places(q, p) \ {1}
             T == Places(Tail(q), p)
             f == [i \in P |-> i - 1]
  <2>1. \A i \in P : i \in Int /\ i - 1 \in T
    BY <1>1 DEF Places
  <2>2. \A j \in T : j \in Int /\ j + 1 \in P
    BY <1>1 DEF Places
  <2>3. f \in [P -> T]
    BY <2>1
  <2>4. \A i, j \in P : f[i] = f[j] => i = j
    BY <2>1
  <2>5. \A j \in T : \E i \in P : f[i] = j
    <3> SUFFICES ASSUME NEW j \in T PROVE \E i \in P : f[i] = j
      OBVIOUS
    <3>1. j + 1 \in P /\ f[j + 1] = j
      BY <2>2
    <3> QED
      BY <3>1
  <2>6. IsFiniteSet(P)
    BY PlacesFinite, FS_RemoveElement
  <2>7. f \in Bijection(P, T)
    BY <2>3, <2>4, <2>5 DEF Bijection, Injection, Surjection, IsInjective
  <2> HIDE DEF P, T, f
  <2>8. ExistsBijection(P, T)
    BY <2>7 DEF ExistsBijection
  <2>9. Cardinality(T) = Cardinality(P)
    BY <2>6, <2>8, FS_Bijection
  <2> QED
    BY <2>9 DEF P, T
<1>3. \A p : 1 \in Places(q, p) <=> p = Head(q)
  BY <1>1 DEF Places
<1>4. Head(q) \in Packets
  BY <1>1
<1>5. \A p : p # Head(q) => Places(q, p) \ {1} = Places(q, p)
  BY <1>3
<1>6. Cardinality(Places(q, Head(q)) \ {1}) = Cardinality(Places(q, Head(q))) - 1
  BY <1>3, PlacesFinite, FS_RemoveElement
<1> QED
  BY <1>1, <1>2, <1>4, <1>5, <1>6

-----------------------------------------------------------------------------
(* What calls, handlers and the kernel do to the buffers and the threads.  *)

\* Operations are only started, by the thread that owns the buffer.
Started == \A b \in Buffers : io'[b] = io[b] \/ (io[b] = "none" /\ io'[b] = "pending")

LEMMA BufferActs ==
  ASSUME TypeOK, LocalsInv, BufferOwnership, NEW b \in Buffers, io[b] = "none"
  PROVE  /\ \A type, h, s, a : Submit(b, type, h, s, a) => Started
         /\ Delete(b) => Started
         /\ UNCHANGED bufVars => Started
BY DEF Started, Submit, Delete, bufVars, TypeOK

LEMMA StepActs ==
  ASSUME TypeOK, LocalsInv, BufferOwnership, NEW t \in Threads, Step(t)
  PROVE  ~At(t, "idle") /\ OthersSame(t) /\ Started
<1> USE DEF At
<1>1. ~At(t, "idle") /\ OthersSame(t)
  <2>1. Return(t) \/ AfterRemove(t) \/ (\E pc \in PCs : Goto(t, pc)) => OthersSame(t)
    BY DEF Return, AfterRemove, Goto, OthersSame, TypeOK
  <2>2. CASE AddIndex(t) \/ AddInsert(t) \/ RemoveErase(t) \/ RemoveIndex(t)
    BY <2>1, <2>2 DEF AddIndex, AddInsert, RemoveErase, RemoveIndex, PCs, OthersSame, TypeOK
  <2>3. CASE Listen(t) \/ ArmAccept(t) \/ Connect(t) \/ Send(t) \/ RecvNew(t)
    BY <2>1, <2>3 DEF Listen, ArmAccept, Connect, Send, RecvNew, PCs, OthersSame, TypeOK
  <2>4. CASE SetAccepted(t) \/ OnTcpAccepted(t) \/ Reset(t) \/ OnTcpError(t) \/ OnTcpDisconnected(t)
    BY <2>1, <2>4 DEF SetAccepted, OnTcpAccepted, Reset, OnTcpError, OnTcpDisconnected, PCs,
                      OthersSame, TypeOK
  <2>5. CASE OnRecv(t) \/ OnTcpReceived(t) \/ Rearm(t)
    BY <2>1, <2>5 DEF OnRecv, OnTcpReceived, Rearm, PCs, OthersSame, TypeOK
  <2> QED
    BY <2>2, <2>3, <2>4, <2>5 DEF Step
<1>2. Started
  <2>1. UNCHANGED bufVars => Started
    BY DEF Started, bufVars
  <2>2. \A b \in Buffers \ heap : io[b] = "none"
    BY DEF BufferOwnership
  <2>3. CASE AddIndex(t) \/ AddInsert(t) \/ RemoveErase(t) \/ RemoveIndex(t) \/ Listen(t) \/ Connect(t)
             \/ SetAccepted(t) \/ OnTcpAccepted(t) \/ OnTcpError(t) \/ OnTcpDisconnected(t)
             \/ OnTcpReceived(t)
    BY <2>1, <2>3 DEF AddIndex, AddInsert, RemoveErase, RemoveIndex, Listen, Connect, SetAccepted,
                      OnTcpAccepted, OnTcpError, OnTcpDisconnected, OnTcpReceived
  <2>4. CASE ArmAccept(t) \/ Send(t) \/ RecvNew(t)
    BY <2>1, <2>2, <2>4, BufferActs DEF ArmAccept, Send, RecvNew, AsyncTcpAccept, AsyncTcpRecv
  <2>5. CASE Reset(t) \/ OnRecv(t) \/ Rearm(t)
    <3>1. thr[t].b \in Buffers /\ t \in Workers
      BY <2>5 DEF Reset, OnRecv, Rearm, LocalsInv, LocalsOK, UserPCs, Threads
    <3>2. io[thr[t].b] = "none"
      BY <3>1 DEF BufferOwnership
    <3> QED
      BY <2>1, <2>5, <3>1, <3>2, BufferActs DEF Reset, OnRecv, Rearm, AsyncTcpAccept, AsyncTcpRecv
  <2> QED
    BY <2>3, <2>4, <2>5 DEF Step
<1> QED
  BY <1>1, <1>2

LEMMA CallActs ==
  ASSUME TypeOK, NEW t \in Users, Call(t)
  PROVE  OthersSame(t) /\ UNCHANGED bufVars
BY DEF Call, TcpCreate, TcpDestroy, TcpListen, TcpConnect, TcpSend, GetTcpSocket, OthersSame, TypeOK,
       Threads

\* A handler takes a completion.
LEMMA HandlerActs ==
  ASSUME TypeOK, NEW w \in Workers, NEW b \in Buffers,
         OnTcpAccept(w, b) \/ OnTcpSend(w, b) \/ OnTcpRecv(w, b)
  PROVE  /\ At(w, "idle") /\ OthersSame(w)
         /\ io[b] \in {"ok", "zero"} /\ io'[b] = "none"
         /\ \A c \in Buffers : c # b => io'[c] = io[c]
<1>1. CASE OnTcpAccept(w, b)
  BY <1>1 DEF OnTcpAccept, Completed, Drop, Delete, OthersSame, TypeOK, Threads
<1>2. CASE OnTcpSend(w, b)
  BY <1>2 DEF OnTcpSend, Completed, Delete, OthersSame, TypeOK, Threads
<1>3. CASE OnTcpRecv(w, b)
  BY <1>3 DEF OnTcpRecv, Completed, Drop, Delete, OthersSame, TypeOK, Threads
<1> QED
  BY <1>1, <1>2, <1>3

-----------------------------------------------------------------------------
(* The steps beside StartupNet and CleanupNet.                             *)

\* A call, a step of a call or handler, or none of this program's.
Quiet == \/ \E t \in Users : UserCall(t)
         \/ \E t \in Threads : ThreadStep(t)
         \/ UNCHANGED lifeVars

Work == \/ Quiet
        \/ \E w \in Workers : QuitWorker(w) \/ Take(w)
        \/ \E b \in Buffers : Packet(b)

LEMMA Steps == [LifeNext]_lifeVars => Control \/ Work
BY DEF LifeNext, Work, Quiet

LEMMA LifeTypes ==
  ASSUME LifeInv
  PROVE  /\ TypeOK /\ LocalsInv /\ BufferOwnership /\ Ownership
         /\ queue \in Seq(Packets) /\ live \subseteq Workers /\ Busy \subseteq live
         /\ due \subseteq Buffers
         /\ {started, init, port} \subseteq BOOLEAN
         /\ posted \in 0 .. ThreadNum /\ ThreadNum \in Nat
         /\ IsFiniteSet(Workers) /\ IsFiniteSet(live) /\ Quit \notin Buffers
BY LifecycleOK, FS_Subset, FS_CardinalityType
   DEF LifeInv, ResourcesInv, TypesInv, Ownership, LifeTypeOK, ThreadNum

LEMMA QuietActs ==
  ASSUME LifeInv, Quiet
  PROVE  /\ UNCHANGED <<queue, started, init, port, live, ctl, posted, due, starts>>
         /\ Started /\ Busy' \subseteq Busy /\ [Next]_vars
         /\ port \/ UNCHANGED lifeVars
<1>1. ASSUME NEW t \in Users, UserCall(t)
      PROVE  Started /\ Busy' \subseteq Busy /\ Next /\ port /\ UNCHANGED ctlVars /\ UNCHANGED queue
  <2>1. Call(t) /\ live # {}
    BY <1>1 DEF UserCall
  <2>2. OthersSame(t) /\ UNCHANGED bufVars
    BY <2>1, LifeTypes, CallActs
  <2>3. Busy' \subseteq Busy
    BY <2>2, ConstantsOK DEF Busy, At, OthersSame, Threads
  <2> QED
    BY <1>1, <2>1, <2>2, <2>3 DEF UserCall, Next, Started, bufVars, LifeInv, StageInv
<1>2. ASSUME NEW t \in Threads, ThreadStep(t)
      PROVE  Started /\ Busy' \subseteq Busy /\ Next /\ port /\ UNCHANGED ctlVars /\ UNCHANGED queue
  <2>1. ~At(t, "idle") /\ OthersSame(t) /\ Started
    BY <1>2, LifeTypes, StepActs DEF ThreadStep
  <2>2. Busy' \subseteq Busy
    BY <2>1 DEF Busy, At, OthersSame, Threads
  <2> QED
    BY <1>2, <2>1, <2>2 DEF ThreadStep, Next, LifeInv, StageInv
<1>3. CASE UNCHANGED lifeVars
  BY <1>3 DEF lifeVars, ctlVars, vars, Started, Busy, At
<1> QED
  BY <1>1, <1>2, <1>3 DEF Quiet, ctlVars

LEMMA QuitActs ==
  ASSUME LifeInv, NEW w \in Workers, QuitWorker(w)
  PROVE  /\ UNCHANGED <<vars, started, init, port, ctl, posted, due, starts>>
         /\ w \in live /\ live' = live \ {w} /\ At(w, "idle")
         /\ queue # <<>> /\ Head(queue) = Quit /\ queue' = Tail(queue) /\ port
BY DEF QuitWorker, IsQuit, LifeInv, StageInv

LEMMA TakeActs ==
  ASSUME LifeInv, NEW w \in Workers, Take(w)
  PROVE  /\ UNCHANGED <<started, init, port, live, ctl, posted, starts>> /\ Next
         /\ w \in live /\ OthersSame(w) /\ queue # <<>> /\ queue' = Tail(queue) /\ port
         /\ Head(queue) \in Buffers /\ due' = due \ {Head(queue)}
         /\ io[Head(queue)] \in {"ok", "zero"} /\ io'[Head(queue)] = "none"
         /\ \A c \in Buffers : c # Head(queue) => io'[c] = io[c]
<1>1. Head(queue) \in Buffers
  <2>1. queue # <<>> /\ Head(queue) # Quit
    BY DEF Take, IsQuit
  <2> QED
    BY <2>1, LifeTypes, PlacesTail DEF Packets
<1>2. OnTcpAccept(w, Head(queue)) \/ OnTcpSend(w, Head(queue)) \/ OnTcpRecv(w, Head(queue))
  BY DEF Take
<1>3. Next
  BY <1>1, <1>2 DEF Next, Handle
<1>4. /\ OthersSame(w) /\ io[Head(queue)] \in {"ok", "zero"} /\ io'[Head(queue)] = "none"
      /\ \A c \in Buffers : c # Head(queue) => io'[c] = io[c]
  BY <1>1, <1>2, LifeTypes, HandlerActs
<1> QED
  BY <1>1, <1>3, <1>4 DEF Take, LifeInv, StageInv

LEMMA PacketActs ==
  ASSUME LifeInv, NEW b \in Buffers, Packet(b)
  PROVE  /\ UNCHANGED <<started, init, port, live, ctl, posted, due, starts>> /\ Next
         /\ UNCHANGED thr /\ queue' = Append(queue, b) /\ port
         /\ io[b] = "pending" /\ io'[b] \in {"ok", "zero"}
         /\ \A c \in Buffers : c # b => io'[c] = io[c]
<1>1. /\ Next /\ UNCHANGED thr /\ io[b] = "pending" /\ io'[b] \in {"ok", "zero"}
      /\ \A c \in Buffers : c # b => io'[c] = io[c]
  BY LifeTypes DEF Packet, Complete, Abort, TypeOK, Next, Kernel
<1>2. b \in heap
  BY <1>1, LifeTypes DEF BufferOwnership
<1> QED
  BY <1>1, <1>2 DEF Packet, ctlVars, LifeInv, StageInv

LEMMA WorkActs ==
  ASSUME LifeInv, Work
  PROVE  /\ [Next]_vars /\ UNCHANGED <<started, init, port, ctl, posted, starts>>
         /\ port \/ UNCHANGED lifeVars
BY QuietActs, QuitActs, TakeActs, PacketActs DEF Work

-----------------------------------------------------------------------------
(* The resources, whether the tables are cleared or not.                   *)

\* Erasing entries and forgetting indexes disturbs neither buffers nor sockets.
LEMMA ResourcesCleared ==
  ASSUME ResourcesInv, UNCHANGED <<issued, told, sock, heap, buf, io, thr>>,
         table' \in [Handles -> Maybe(Sockets)], \A h \in Handles : table'[h] \in {table[h], None},
         indexes' \subseteq indexes
  PROVE  ResourcesInv'
<1>1. TypeOK' /\ LocalsInv'
  BY DEF ResourcesInv, TypeOK, LocalsInv, LocalsOK, At
<1>2. IssuedInv' /\ BufferOwnership'
  BY DEF ResourcesInv, Ownership, IssuedInv, BufferOwnership
<1>3. FreshInv'
  <2>1. \A t \in Threads : At(t, "add_index") \/ At(t, "add_insert") =>
          /\ thr[t].a # None /\ \A h \in Handles : table[h] # thr[t].a
          /\ \A u \in Threads : thr[u].s # thr[t].a /\ (u # t => thr[u].a # thr[t].a)
          /\ \A b \in heap : buf[b].accept # thr[t].a
    BY FreshSocket DEF ResourcesInv, Ownership
  <2> QED
    BY <2>1 DEF ResourcesInv, Ownership, SocketInv, FreshInv, At
<1>4. SocketOwnership'
  BY DEF ResourcesInv, Ownership, SocketInv, SocketOwnership
<1> QED
  BY <1>1, <1>2, <1>3, <1>4 DEF ResourcesInv, Ownership, SocketInv

\* CloseHandle forgets every buffer when no thread holds one.
LEMMA ResourcesForgotten ==
  ASSUME LifeInv, CloseHandle
  PROVE  ResourcesInv'
<1>1. /\ \A t \in Threads : thr[t] = Idle /\ thr'[t] = Idle
      /\ UNCHANGED <<table, indexes, issued, told, sock, thr>>
      /\ heap' = {} /\ buf' = [b \in Buffers |-> Blank] /\ io' = [b \in Buffers |-> "none"]
  <2>1. \A t \in Threads : At(t, "idle")
    BY LifeTypes DEF CloseHandle, Joined, Busy, Threads
  <2> QED
    BY <2>1, LifeTypes DEF CloseHandle, tableVars, TypeOK
<1>2. TypeOK' /\ LocalsInv'
  BY <1>1, LifeTypes, ConstantTypes DEF TypeOK, LocalsInv, LocalsOK, At, IoStates
<1>3. IssuedInv' /\ FreshInv'
  BY <1>1, LifeTypes, IdleFields DEF Ownership, IssuedInv, FreshInv, At
<1>4. BufferOwnership'
  BY <1>1, IdleFields, ConstantsOK DEF BufferOwnership, Threads
<1>5. SocketOwnership'
  BY <1>1, LifeTypes DEF Ownership, SocketInv, SocketOwnership
<1> QED
  BY <1>2, <1>3, <1>4, <1>5 DEF ResourcesInv, Ownership, SocketInv

LEMMA ResourcesNext ==
  ASSUME LifeInv, [LifeNext]_lifeVars
  PROVE  ResourcesInv'
<1>1. ASSUME [Next]_vars PROVE ResourcesInv'
  <2>1. TypeOK' /\ LocalsInv'
    BY <1>1, LifeTypes, NextTypes DEF Ownership, SocketInv
  <2>2. Ownership'
    BY <1>1, LifeTypes, NextOwnership DEF OwnershipKept
  <2> QED
    BY <2>1, <2>2 DEF ResourcesInv
<1>2. CASE StartupNet \/ Init_ \/ Spawn \/ CleanupNet \/ PostQuit
  BY <1>1, <1>2 DEF StartupNet, Init_, Spawn, CleanupNet, PostQuit
<1>3. CASE ClearTable \/ ClearIndexes \/ Stop
  <2>1. /\ UNCHANGED <<issued, told, sock, heap, buf, io, thr>>
        /\ table' = [h \in Handles |-> None] \/ table' = table
        /\ indexes' = {} \/ indexes' = indexes
    BY <1>3 DEF ClearTable, ClearIndexes, Stop, bufVars
  <2>2. /\ table' \in [Handles -> Maybe(Sockets)]
        /\ \A h \in Handles : table'[h] \in {table[h], None}
    BY <2>1, LifeTypes DEF TypeOK, Maybe
  <2> QED
    BY <2>1, <2>2, ResourcesCleared DEF LifeInv
<1>4. CASE CloseHandle
  BY <1>4, ResourcesForgotten
<1>5. CASE Work
  BY <1>1, <1>5, WorkActs
<1> QED
  BY <1>2, <1>3, <1>4, <1>5, Steps DEF Control

-----------------------------------------------------------------------------
(* The stages of StartupNet and CleanupNet.                                *)

LEMMA StageNext ==
  ASSUME LifeInv, [LifeNext]_lifeVars
  PROVE  StageInv'
<1> USE DEF At
<1>0. StageInv
  BY DEF LifeInv
<1>1. CASE StartupNet \/ Init_ \/ Spawn \/ CleanupNet
  <2>1. CASE StartupNet
    BY <1>0, <2>1 DEF StartupNet, StageInv, vars
  <2>2. CASE Init_
    BY <1>0, <2>2 DEF Init_, StageInv, vars
  <2>3. CASE Spawn
    BY <1>0, <2>3 DEF Spawn, StageInv, vars
  <2>4. CASE CleanupNet
    BY <1>0, <2>4 DEF CleanupNet, StageInv, vars
  <2> QED
    BY <1>1, <2>1, <2>2, <2>3, <2>4
<1>2. CASE ClearTable \/ ClearIndexes \/ Stop
  <2>1. ThreadNum > 0
    BY LifecycleOK, LifeTypes, FS_EmptySet DEF ThreadNum
  <2> QED
    BY <1>0, <1>2, <2>1, LifeTypes DEF ClearTable, ClearIndexes, Stop, StageInv, bufVars
<1>3. CASE PostQuit
  <2>1. /\ posted' = posted + 1 /\ posted < ThreadNum /\ ctl = "post" /\ port
        /\ ctl' = IF posted' = ThreadNum THEN "join" ELSE "post"
        /\ UNCHANGED <<init, port, started>>
    BY <1>0, <1>3 DEF PostQuit, AllPosted, StageInv
  <2> QED
    BY <1>0, <2>1, LifeTypes DEF StageInv
<1>4. CASE CloseHandle
  <2>1. \A t \in Threads : At(t, "idle") /\ thr' = thr
    BY <1>4, LifeTypes DEF CloseHandle, Joined, Busy, Threads
  <2> QED
    BY <1>4, <2>1 DEF CloseHandle, Joined, StageInv
<1>5. CASE Work
  <2>1. CASE UNCHANGED lifeVars
    BY <1>0, <2>1 DEF StageInv, lifeVars, ctlVars, vars
  <2>2. CASE port
    BY <1>0, <1>5, <2>2, WorkActs DEF StageInv
  <2> QED
    BY <1>5, <2>1, <2>2, WorkActs
<1> QED
  BY <1>1, <1>2, <1>3, <1>4, <1>5, Steps DEF Control

-----------------------------------------------------------------------------
(* Types of the control state, and the packets of completed operations.    *)

LEMMA TypesNext ==
  ASSUME LifeInv, [LifeNext]_lifeVars
  PROVE  TypesInv'
<1>0. /\ queue \in Seq(Packets) /\ {started, init, port} \subseteq BOOLEAN /\ Busy \subseteq live
      /\ live \subseteq Workers /\ ctl \in Stages /\ posted \in 0 .. ThreadNum
      /\ starts \in 0 .. MaxStarts /\ due \subseteq Buffers /\ ThreadNum \in Nat
      /\ MaxStarts \in Nat
  BY LifeTypes, LifecycleOK DEF LifeInv, TypesInv, LifeTypeOK
<1>1. ASSUME queue' \in Seq(Packets), {started', init', port'} \subseteq BOOLEAN, Busy' \subseteq live',
             live' \subseteq Workers, ctl' \in Stages, posted' \in 0 .. ThreadNum,
             starts' \in 0 .. MaxStarts, due' \subseteq Buffers
      PROVE  TypesInv'
  <2>1. \A i \in DOMAIN queue' : queue'[i] \in Buffers \cup {Quit}
    BY <1>1 DEF Packets
  <2> QED
    BY <1>1, <2>1 DEF TypesInv, LifeTypeOK, ThreadNum
<1>2. UNCHANGED thr => Busy' = Busy
  BY DEF Busy, At
<1>3. Quit \in Packets /\ \A b \in Buffers : b \in Packets
  BY DEF Packets
<1>4. CASE StartupNet \/ Init_ \/ Spawn \/ CleanupNet \/ ClearTable
  <2>1. CASE StartupNet
    BY <1>0, <1>1, <1>2, <2>1 DEF StartupNet, vars, Stages
  <2>2. CASE Init_
    BY <1>0, <1>1, <1>2, <2>2 DEF Init_, vars, Stages
  <2>3. CASE Spawn
    BY <1>0, <1>1, <1>2, <2>3 DEF Spawn, vars, Stages
  <2>4. CASE CleanupNet
    BY <1>0, <1>1, <1>2, <2>4 DEF CleanupNet, vars, Stages
  <2>5. CASE ClearTable
    BY <1>0, <1>1, <1>2, <2>5 DEF ClearTable, Stages
  <2> QED
    BY <1>4, <2>1, <2>2, <2>3, <2>4, <2>5
<1>5. CASE ClearIndexes \/ CloseHandle \/ Stop
  <2>1. CASE ClearIndexes
    BY <1>0, <1>1, <1>2, <2>1 DEF ClearIndexes, Stages
  <2>2. CASE CloseHandle
    <3>1. <<>> \in Seq(Packets)
      OBVIOUS
    <3>2. /\ queue' = <<>> /\ init' = FALSE /\ port' = FALSE /\ posted' = 0 /\ ctl' = "stop"
          /\ UNCHANGED <<thr, started, live, due, starts>>
      BY <2>2 DEF CloseHandle
    <3>3. queue' \in Seq(Packets)
      BY <3>1, <3>2
    <3>4. {started', init', port'} \subseteq BOOLEAN /\ Busy' \subseteq live' /\ live' \subseteq Workers
      BY <1>0, <1>2, <3>2
    <3>5. ctl' \in Stages /\ posted' \in 0 .. ThreadNum /\ starts' \in 0 .. MaxStarts /\ due' \subseteq Buffers
      BY <1>0, <3>2 DEF Stages
    <3> QED
      BY <1>1, <3>3, <3>4, <3>5
  <2>3. CASE Stop
    BY <1>0, <1>1, <1>2, <2>3 DEF Stop, Stages
  <2> QED
    BY <1>5, <2>1, <2>2, <2>3
<1>6. CASE PostQuit
  <2>1. queue' \in Seq(Packets)
    BY <1>0, <1>3, <1>6, PlacesAppend DEF PostQuit
  <2>2. posted' \in 0 .. ThreadNum
    BY <1>0, <1>6 DEF PostQuit, LifeInv, StageInv
  <2> QED
    BY <1>0, <1>1, <1>2, <1>6, <2>1, <2>2 DEF PostQuit, vars, Stages
<1>7. CASE Quiet
  BY <1>0, <1>1, <1>7, QuietActs
<1>8. ASSUME NEW w \in Workers, QuitWorker(w) PROVE TypesInv'
  <2>1. Tail(queue) \in Seq(Packets)
    BY <1>0, <1>8, QuitActs, PlacesTail
  <2>2. Busy' = Busy /\ w \notin Busy
    BY <1>2, <1>8, QuitActs DEF vars, Busy
  <2> QED
    BY <1>0, <1>1, <1>8, <2>1, <2>2, QuitActs
<1>9. ASSUME NEW w \in Workers, Take(w) PROVE TypesInv'
  <2>1. Tail(queue) \in Seq(Packets)
    BY <1>0, <1>9, TakeActs, PlacesTail
  <2>2. Busy' \subseteq Busy \cup {w}
    BY <1>9, TakeActs DEF OthersSame, Busy, At, Threads
  <2> QED
    BY <1>0, <1>1, <1>9, <2>1, <2>2, TakeActs
<1>10. ASSUME NEW b \in Buffers, Packet(b) PROVE TypesInv'
  <2>1. Append(queue, b) \in Seq(Packets)
    BY <1>0, <1>3, PlacesAppend
  <2> QED
    BY <1>0, <1>1, <1>2, <1>10, <2>1, PacketActs
<1> QED
  BY <1>4, <1>5, <1>6, <1>7, <1>8, <1>9, <1>10, Steps DEF Control, Work

\* The number of packets of buffer b that there should be.
Due(b) == IF io[b] \in {"ok", "zero"} THEN 1 ELSE 0

LEMMA PortPlaces ==
  PortHoldsCompletions <=> \A b \in Buffers : Cardinality(Places(queue, b)) = Due(b)
BY DEF PortHoldsCompletions, Places, Due

LEMMA PortPlacesNext ==
  PortHoldsCompletions' <=> \A b \in Buffers : Cardinality(Places(queue', b)) = Due(b)'
BY DEF PortHoldsCompletions, Places, Due

LEMMA PortNext ==
  ASSUME LifeInv, [LifeNext]_lifeVars
  PROVE  PortHoldsCompletions'
<1>0. /\ queue \in Seq(Packets) /\ Quit \in Packets /\ Quit \notin Buffers
      /\ \A b \in Buffers : b \in Packets /\ Cardinality(Places(queue, b)) = Due(b)
  BY LifeTypes, PortPlaces DEF Packets, LifeInv
<1> SUFFICES ASSUME NEW b \in Buffers PROVE Cardinality(Places(queue', b)) = Due(b)'
  BY PortPlacesNext
<1>1. UNCHANGED <<queue, io>> => Cardinality(Places(queue', b)) = Due(b)'
  BY <1>0 DEF Due
<1>2. CASE StartupNet \/ Init_ \/ Spawn \/ CleanupNet \/ ClearTable \/ ClearIndexes \/ Stop
  BY <1>1, <1>2 DEF StartupNet, Init_, Spawn, CleanupNet, ClearTable, ClearIndexes, Stop, vars, bufVars
<1>3. CASE PostQuit
  <2>1. queue' = Append(queue, Quit) /\ UNCHANGED io
    BY <1>3 DEF PostQuit, vars
  <2>2. Places(queue', b) = Places(queue, b)
    BY <1>0, <2>1, PlacesAppend
  <2> QED
    BY <1>0, <2>1, <2>2 DEF Due
<1>4. CASE CloseHandle
  <2>1. queue' = <<>> /\ io'[b] = "none"
    BY <1>4 DEF CloseHandle
  <2> QED
    BY <2>1, PlacesEmpty DEF Due
<1>5. CASE Quiet
  BY <1>0, <1>5, QuietActs DEF Started, Due
<1>6. ASSUME NEW w \in Workers, QuitWorker(w) PROVE Cardinality(Places(queue', b)) = Due(b)'
  <2>1. queue # <<>> /\ Head(queue) # b /\ queue' = Tail(queue) /\ UNCHANGED io
    BY <1>0, <1>6, QuitActs DEF vars
  <2>2. Cardinality(Places(queue', b)) = Cardinality(Places(queue, b))
    BY <1>0, <2>1, PlacesTail
  <2> QED
    BY <1>0, <2>1, <2>2 DEF Due
<1>7. ASSUME NEW w \in Workers, Take(w) PROVE Cardinality(Places(queue', b)) = Due(b)'
  <2>1. /\ queue # <<>> /\ queue' = Tail(queue) /\ Head(queue) \in Buffers
        /\ io[Head(queue)] \in {"ok", "zero"} /\ io'[Head(queue)] = "none"
        /\ b # Head(queue) => io'[b] = io[b]
    BY <1>7, TakeActs
  <2>2. CASE b = Head(queue)
    <3>1. Cardinality(Places(queue', b)) = Cardinality(Places(queue, b)) - 1
      BY <1>0, <2>1, <2>2, PlacesTail
    <3> QED
      BY <1>0, <2>1, <2>2, <3>1 DEF Due
  <2>3. CASE b # Head(queue)
    <3>1. Cardinality(Places(queue', b)) = Cardinality(Places(queue, b))
      BY <1>0, <2>1, <2>3, PlacesTail
    <3> QED
      BY <1>0, <2>1, <2>3, <3>1 DEF Due
  <2> QED
    BY <2>2, <2>3
<1>8. ASSUME NEW c \in Buffers, Packet(c) PROVE Cardinality(Places(queue', b)) = Due(b)'
  <2>1. /\ queue' = Append(queue, c) /\ c \in Packets
        /\ io[c] = "pending" /\ io'[c] \in {"ok", "zero"}
        /\ b # c => io'[b] = io[b]
    BY <1>0, <1>8, PacketActs
  <2>2. CASE b = c
    <3>1. Cardinality(Places(queue', b)) = Cardinality(Places(queue, b)) + 1
      BY <1>0, <2>1, <2>2, PlacesAppend
    <3> QED
      BY <1>0, <2>1, <2>2, <3>1 DEF Due
  <2>3. CASE b # c
    <3>1. Places(queue', b) = Places(queue, b)
      BY <1>0, <2>1, <2>3, PlacesAppend
    <3> QED
      BY <1>0, <2>1, <2>3, <3>1 DEF Due
  <2> QED
    BY <2>2, <2>3
<1> QED
  BY <1>2, <1>3, <1>4, <1>5, <1>6, <1>7, <1>8, Steps DEF Control, Work

-----------------------------------------------------------------------------
(* One quit packet for each worker.                                        *)

NoQuit == \A i \in DOMAIN queue : queue[i] # Quit

\* The quit packets that Uninit has still to post, if it begins now.
ToPost == IF ctl \in {"post", "join"} THEN ThreadNum - posted ELSE ThreadNum

LEMMA QuitFacts ==
  ASSUME LifeInv
  PROVE  /\ QuitInv <=> /\ ctl \notin {"post", "join"} => NoQuit
                        /\ port /\ ctl \notin {"spawn", "post", "join"} => live = Workers
                        /\ port /\ ctl # "spawn" => Cardinality(live) = Quits + ToPost
         /\ Quits = Cardinality(Places(queue, Quit)) /\ Quits \in Nat
         /\ NoQuit => Quits = 0
<1>1. Quits = Cardinality(Places(queue, Quit))
  BY DEF Quits, Places
<1>2. NoQuit => Places(queue, Quit) = {}
  BY DEF NoQuit, Places
<1> QED
  BY <1>1, <1>2, LifeTypes, PlacesFinite, FS_EmptySet DEF QuitInv, OneQuitEach, NoQuit, ToPost

LEMMA QuitNext ==
  ASSUME LifeInv, [LifeNext]_lifeVars
  PROVE  QuitInv'
<1>0. /\ ctl \notin {"post", "join"} => NoQuit
      /\ port /\ ctl \notin {"spawn", "post", "join"} => live = Workers
      /\ port /\ ctl # "spawn" => Cardinality(live) = Quits + ToPost
      /\ Quits = Cardinality(Places(queue, Quit)) /\ Quits \in Nat
      /\ NoQuit => Quits = 0
      /\ queue \in Seq(Packets) /\ Quit \in Packets /\ Quit \notin Buffers
      /\ ThreadNum \in Nat /\ posted \in 0 .. ThreadNum /\ StageInv
  <2>1. QuitInv
    BY DEF LifeInv
  <2> QED
    BY <2>1, QuitFacts, LifeTypes DEF Packets, LifeInv
<1>1. ASSUME ctl' \notin {"post", "join"} => NoQuit',
             port' /\ ctl' \notin {"spawn", "post", "join"} => live' = Workers,
             port' /\ ctl' # "spawn" => Cardinality(live') = Cardinality(Places(queue', Quit)) + ToPost'
      PROVE  QuitInv'
  BY <1>1 DEF QuitInv, OneQuitEach, NoQuit, ToPost, Quits, Places
<1>2. UNCHANGED queue => NoQuit' = NoQuit
  BY DEF NoQuit
<1>3. CASE StartupNet \/ Init_ \/ CleanupNet \/ ClearTable \/ Stop
  <2>1. UNCHANGED <<queue, live, posted>>
    BY <1>3 DEF StartupNet, Init_, CleanupNet, ClearTable, Stop
  <2>2. /\ ctl \notin {"spawn", "post", "join"} /\ ctl' \notin {"post", "join"}
        /\ port' => ctl' = "spawn" \/ port
    BY <1>0, <1>3 DEF StartupNet, Init_, CleanupNet, ClearTable, Stop, StageInv
  <2> QED
    BY <1>0, <1>1, <1>2, <2>1, <2>2 DEF ToPost, ThreadNum
<1>4. CASE Spawn
  <2>1. /\ UNCHANGED <<queue, posted, port>> /\ ctl = "spawn" /\ ctl' \in {"spawn", "idle"}
        /\ ctl' = "idle" => live' = Workers
    BY <1>4 DEF Spawn
  <2>2. NoQuit /\ Quits = 0
    BY <1>0, <2>1
  <2>3. ctl' = "idle" => Cardinality(live') = Cardinality(Places(queue', Quit)) + ToPost'
    BY <1>0, <2>1, <2>2 DEF ToPost, ThreadNum
  <2> QED
    BY <1>1, <1>2, <2>1, <2>2, <2>3
<1>5. CASE ClearIndexes
  <2>1. /\ UNCHANGED <<queue, live, posted, port>> /\ ctl = "clear_indexes"
        /\ port => ctl' = "post"
        /\ ~port => ctl' = "stop"
    BY <1>0, <1>5 DEF ClearIndexes, StageInv
  <2>2. posted = 0
    BY <1>0, <2>1 DEF StageInv
  <2> QED
    BY <1>0, <1>1, <1>2, <2>1, <2>2 DEF ToPost, ThreadNum
<1>6. CASE PostQuit
  <2>1. /\ queue' = Append(queue, Quit) /\ posted' = posted + 1 /\ UNCHANGED <<live, port>>
        /\ ctl = "post" /\ ctl' \in {"post", "join"}
    BY <1>6 DEF PostQuit
  <2>2. Cardinality(Places(queue', Quit)) = Quits + 1
    BY <1>0, <2>1, PlacesAppend
  <2>3. ToPost' = ToPost - 1 /\ ToPost \in Int
    BY <1>0, <2>1 DEF ToPost, ThreadNum
  <2>4. port => Cardinality(live) = Quits + ToPost
    BY <1>0, <2>1
  <2> QED
    BY <1>0, <1>1, <2>1, <2>2, <2>3, <2>4
<1>7. CASE CloseHandle
  <2>1. queue' = <<>> /\ port' = FALSE
    BY <1>7 DEF CloseHandle
  <2>2. NoQuit'
    BY <2>1 DEF NoQuit
  <2> QED
    BY <1>1, <2>1, <2>2
<1>8. ASSUME UNCHANGED <<ctl, posted, port, live>>, NoQuit => NoQuit',
             Cardinality(Places(queue', Quit)) = Quits
      PROVE  QuitInv'
  BY <1>0, <1>1, <1>8 DEF ToPost, ThreadNum
<1>9. CASE Quiet
  BY <1>0, <1>2, <1>8, <1>9, QuietActs
<1>10. ASSUME NEW w \in Workers, QuitWorker(w) PROVE QuitInv'
  <2>1. /\ UNCHANGED <<ctl, posted, port>> /\ w \in live /\ live' = live \ {w} /\ port
        /\ queue # <<>> /\ Head(queue) = Quit /\ queue' = Tail(queue)
    BY <1>10, QuitActs
  <2>2. ctl \in {"post", "join"}
    <3>1. queue[1] = Quit /\ 1 \in DOMAIN queue
      BY <1>0, <2>1
    <3> QED
      BY <1>0, <3>1 DEF NoQuit
  <2>3. Cardinality(live') = Cardinality(live) - 1 /\ Cardinality(live) \in Nat
    BY <2>1, LifeTypes, FS_RemoveElement, FS_CardinalityType
  <2>4. Cardinality(Places(queue', Quit)) = Quits - 1
    BY <1>0, <2>1, PlacesTail
  <2>5. ToPost' = ToPost /\ ToPost \in Int
    BY <1>0, <2>1 DEF ToPost, ThreadNum
  <2> QED
    BY <1>0, <1>1, <2>1, <2>2, <2>3, <2>4, <2>5
<1>11. ASSUME NEW w \in Workers, Take(w) PROVE QuitInv'
  <2>1. /\ UNCHANGED <<ctl, posted, port, live>> /\ queue # <<>> /\ queue' = Tail(queue)
        /\ Head(queue) # Quit
    BY <1>0, <1>11, TakeActs
  <2>2. NoQuit => NoQuit'
    BY <1>0, <2>1 DEF NoQuit
  <2>3. Cardinality(Places(queue', Quit)) = Quits
    BY <1>0, <2>1, PlacesTail
  <2> QED
    BY <1>8, <2>1, <2>2, <2>3
<1>12. ASSUME NEW b \in Buffers, Packet(b) PROVE QuitInv'
  <2>1. /\ UNCHANGED <<ctl, posted, port, live>> /\ queue' = Append(queue, b)
        /\ b # Quit /\ b \in Packets
    BY <1>0, <1>12, PacketActs DEF Packets
  <2>2. NoQuit => NoQuit'
    BY <1>0, <2>1 DEF NoQuit
  <2>3. Places(queue', Quit) = Places(queue, Quit)
    BY <1>0, <2>1, PlacesAppend
  <2> QED
    BY <1>0, <1>8, <2>1, <2>2, <2>3
<1> QED
  BY <1>3, <1>4, <1>5, <1>6, <1>7, <1>9, <1>10, <1>11, <1>12, Steps DEF Control, Work

-----------------------------------------------------------------------------
(* Completions that were in the port before Uninit.                        *)

\* Buffer b is in the port q ahead of every quit packet.
Ahead(b, q) == \E i \in DOMAIN q : q[i] = b /\ \A j \in DOMAIN q : q[j] = Quit => i < j

LEMMA AheadAppend ==
  ASSUME NEW q \in Seq(Packets), NEW x \in Packets, NEW b, Ahead(b, q)
  PROVE  Ahead(b, Append(q, x))
<1>1. /\ Len(q) \in Nat /\ DOMAIN q = 1 .. Len(q) /\ DOMAIN Append(q, x) = 1 .. Len(q) + 1
      /\ \A i \in 1 .. Len(q) : Append(q, x)[i] = q[i]
  OBVIOUS
<1>2. PICK i \in 1 .. Len(q) : q[i] = b /\ \A j \in 1 .. Len(q) : q[j] = Quit => i < j
  BY <1>1 DEF Ahead
<1>3. /\ i \in DOMAIN Append(q, x) /\ Append(q, x)[i] = b
      /\ \A j \in DOMAIN Append(q, x) : Append(q, x)[j] = Quit => i < j
  BY <1>1, <1>2
<1> QED
  BY <1>3 DEF Ahead

LEMMA AheadTail ==
  ASSUME NEW q \in Seq(Packets), q # <<>>, NEW b, b # Head(q), Ahead(b, q)
  PROVE  Ahead(b, Tail(q)) /\ Head(q) # Quit
<1>1. /\ Len(q) \in Nat \ {0} /\ DOMAIN q = 1 .. Len(q) /\ Head(q) = q[1]
      /\ DOMAIN Tail(q) = 1 .. Len(q) - 1
      /\ \A i \in 1 .. Len(q) - 1 : Tail(q)[i] = q[i + 1]
  OBVIOUS
<1>2. PICK i \in 1 .. Len(q) : q[i] = b /\ \A j \in 1 .. Len(q) : q[j] = Quit => i < j
  BY <1>1 DEF Ahead
<1>3. /\ i - 1 \in DOMAIN Tail(q) /\ Tail(q)[i - 1] = b
      /\ \A j \in DOMAIN Tail(q) : Tail(q)[j] = Quit => i - 1 < j
  BY <1>1, <1>2
<1>4. Ahead(b, Tail(q))
  BY <1>3 DEF Ahead
<1>5. Head(q) # Quit
  BY <1>1, <1>2
<1> QED
  BY <1>4, <1>5

LEMMA DueNext ==
  ASSUME LifeInv, [LifeNext]_lifeVars
  PROVE  DueInv'
<1>0. /\ due # {} => ctl \in {"post", "join"} /\ live = Workers
      /\ \A b \in due : Ahead(b, queue)
      /\ queue \in Seq(Packets) /\ due \subseteq Buffers /\ Quit \notin Buffers /\ Quit \in Packets
      /\ StageInv /\ QuitInv
  BY LifeTypes DEF LifeInv, DueInv, Ahead, Packets
<1>1. ASSUME due' # {} => ctl' \in {"post", "join"} /\ live' = Workers,
             \A b \in due' : Ahead(b, queue')
      PROVE  DueInv'
  BY <1>1 DEF DueInv, Ahead
<1>2. CASE StartupNet \/ Init_ \/ Spawn \/ CleanupNet \/ ClearTable \/ Stop
  <2>1. due = {} /\ UNCHANGED due
    BY <1>0, <1>2 DEF StartupNet, Init_, Spawn, CleanupNet, ClearTable, Stop
  <2> QED
    BY <1>1, <2>1
<1>3. CASE ClearIndexes
  <2>1. /\ UNCHANGED <<queue, live, port>> /\ ctl = "clear_indexes"
    BY <1>3 DEF ClearIndexes
  <2>2. \A b \in due' : \E i \in DOMAIN queue : queue[i] = b
    BY <1>3 DEF ClearIndexes
  <2>3. \A b \in due' : Ahead(b, queue')
    BY <1>0, <2>1, <2>2 DEF Ahead, QuitInv
  <2>4. due' # {} => port
    BY <1>0, <2>2 DEF StageInv
  <2>5. port => live = Workers
    BY <1>0, <2>1 DEF QuitInv
  <2>6. port => ctl' = "post"
    BY <1>0, <1>3 DEF ClearIndexes, StageInv
  <2> QED
    BY <1>1, <2>1, <2>3, <2>4, <2>5, <2>6
<1>4. CASE PostQuit
  <2>1. /\ queue' = Append(queue, Quit) /\ UNCHANGED <<due, live>> /\ ctl = "post"
        /\ ctl' \in {"post", "join"}
    BY <1>4 DEF PostQuit
  <2>2. \A b \in due : Ahead(b, queue')
    BY <1>0, <2>1, AheadAppend
  <2> QED
    BY <1>0, <1>1, <2>1, <2>2
<1>5. CASE CloseHandle
  <2>1. due = {} /\ UNCHANGED due
    BY <1>0, <1>5, LifecycleOK DEF CloseHandle, Joined
  <2> QED
    BY <1>1, <2>1
<1>6. CASE Quiet
  BY <1>0, <1>1, <1>6, QuietActs
<1>7. ASSUME NEW w \in Workers, QuitWorker(w) PROVE DueInv'
  <2>1. queue # <<>> /\ Head(queue) = Quit /\ UNCHANGED due
    BY <1>7, QuitActs
  <2>2. \A b \in due : ~Ahead(b, queue)
    BY <1>0, <2>1, AheadTail
  <2>3. due' = {}
    BY <1>0, <2>1, <2>2
  <2> QED
    BY <1>1, <2>3
<1>8. ASSUME NEW w \in Workers, Take(w) PROVE DueInv'
  <2>1. /\ UNCHANGED <<ctl, live>> /\ queue # <<>> /\ queue' = Tail(queue)
        /\ due' = due \ {Head(queue)}
    BY <1>8, TakeActs
  <2>2. \A b \in due' : Ahead(b, queue')
    BY <1>0, <2>1, AheadTail
  <2> QED
    BY <1>0, <1>1, <2>1, <2>2
<1>9. ASSUME NEW c \in Buffers, Packet(c) PROVE DueInv'
  <2>1. UNCHANGED <<ctl, live, due>> /\ queue' = Append(queue, c) /\ c \in Packets
    BY <1>9, PacketActs DEF Packets
  <2>2. \A b \in due : Ahead(b, queue')
    BY <1>0, <2>1, AheadAppend
  <2> QED
    BY <1>0, <1>1, <2>1, <2>2
<1> QED
  BY <1>2, <1>3, <1>4, <1>5, <1>6, <1>7, <1>8, <1>9, Steps DEF Control, Work

-----------------------------------------------------------------------------
(* The tables of a library that is up.                                     *)

LEMMA IndexNext ==
  ASSUME LifeInv, [LifeNext]_lifeVars
  PROVE  IndexInv'
<1>1. CASE StartupNet \/ Init_ \/ Spawn
  <2>1. UNCHANGED vars /\ ctl \in {"idle", "init", "spawn"}
    BY <1>1 DEF StartupNet, Init_, Spawn
  <2> QED
    BY <2>1 DEF LifeInv, IndexInv, IndexOwnership, Owns, At, vars
<1>2. CASE CleanupNet \/ ClearTable \/ ClearIndexes \/ PostQuit \/ CloseHandle
  BY <1>2 DEF CleanupNet, ClearTable, ClearIndexes, PostQuit, CloseHandle, IndexInv
<1>3. CASE Stop
  <2>1. ~port
    BY <1>3 DEF Stop, LifeInv, StageInv
  <2>2. /\ \A t \in Threads : thr'[t].pc = "idle"
        /\ \A h \in Handles : table'[h] = None
        /\ indexes' = {}
    BY <1>3, <2>1 DEF Stop, LifeInv, StageInv, At
  <2> QED
    BY <2>2 DEF IndexInv, IndexOwnership, Owns, At
<1>4. CASE Work
  <2>1. [Next]_vars /\ UNCHANGED ctl
    BY <1>4, WorkActs
  <2>2. OwnershipKept
    BY <2>1, LifeTypes, NextOwnership
  <2> QED
    BY <2>1, <2>2 DEF OwnershipKept, LifeInv, IndexInv
<1> QED
  BY <1>1, <1>2, <1>3, <1>4, Steps DEF Control

LEMMA LifeInvInit == LifeInit => LifeInv
<1> SUFFICES ASSUME LifeInit PROVE LifeInv
  OBVIOUS
<1>1. Init /\ IInv
  BY InitIInv DEF LifeInit
<1>2. /\ started = FALSE /\ init = FALSE /\ port = FALSE /\ queue = <<>> /\ live = {}
      /\ ctl = "idle" /\ posted = 0 /\ due = {} /\ starts = 0
      /\ \A t \in Threads : At(t, "idle")
      /\ heap = {} /\ io = [b \in Buffers |-> "none"]
  BY <1>1, IdleFields DEF LifeInit, Init, At
<1>3. ResourcesInv /\ IndexInv
  BY <1>1 DEF IInv, ResourcesInv, Ownership, SocketInv, IndexInv
<1>4. ThreadNum \in Nat /\ MaxStarts \in Nat
  BY LifecycleOK, FS_CardinalityType DEF ThreadNum
<1>5. queue \in Seq(Packets)
  BY <1>2
<1>6. Busy = {}
  BY <1>2 DEF Busy, Threads
<1>7. TypesInv
  <2>1. ctl \in Stages /\ posted \in 0 .. ThreadNum /\ starts \in 0 .. MaxStarts
    BY <1>2, <1>4 DEF Stages
  <2>2. \A i \in DOMAIN queue : queue[i] \in Buffers \cup {Quit}
    BY <1>2
  <2> QED
    BY <1>2, <1>5, <1>6, <2>1, <2>2 DEF TypesInv, LifeTypeOK
<1>8. StageInv /\ QuitInv /\ DueInv
  <2>1. StageInv
    BY <1>2 DEF StageInv
  <2>2. QuitInv
    BY <1>2 DEF QuitInv, OneQuitEach
  <2>3. DueInv
    BY <1>2 DEF DueInv
  <2> QED
    BY <2>1, <2>2, <2>3
<1>9. \A b \in Buffers : Cardinality(Places(queue, b)) = Due(b)
  BY <1>2, PlacesEmpty DEF Due
<1>10. PortHoldsCompletions
  BY <1>9, PortPlaces
<1> QED
  BY <1>3, <1>7, <1>8, <1>10 DEF LifeInv

LEMMA InvariantLife == LifeSpec => []LifeInv
<1>1. ASSUME LifeInv, [LifeNext]_lifeVars PROVE LifeInv'
  <2>1. LifeInv' <=> /\ ResourcesInv' /\ TypesInv' /\ StageInv' /\ QuitInv' /\ PortHoldsCompletions'
                     /\ DueInv' /\ IndexInv'
    BY DEF LifeInv
  <2> QED
    BY <1>1, <2>1, ResourcesNext, TypesNext, StageNext, QuitNext, PortNext, DueNext, IndexNext
<1>2. LifeInv /\ [LifeNext]_lifeVars => LifeInv'
  BY <1>1
<1> QED
  BY LifeInvInit, <1>2, PTL DEF LifeSpec

-----------------------------------------------------------------------------
(* Service: handlers run between a start and the end of a stop.            *)

Phase == IF ~port THEN "off"
         ELSE IF ctl \in {"clear_table", "clear_indexes", "post", "join"} THEN "stopping" ELSE "on"

\* A step of Service, or one it does not see.
Serving == \/ Phase = "off" /\ Phase' = "on" /\ Busy' = Busy
           \/ Phase = "on" /\ Phase' = "stopping" /\ Busy' = Busy
           \/ Phase = "stopping" /\ Busy = {} /\ Phase' = "off" /\ Busy' = Busy
           \/ Phase' = Phase /\ \E w \in Workers : Busy' = Busy \ {w}
           \/ Phase' = Phase /\ Phase # "off" /\ \E w \in Workers : Busy' = Busy \cup {w}
           \/ Phase' = Phase /\ Busy' = Busy

LEMMA ServingIsService == Serving => [S!Next]_S!vars
BY DEF Serving, Phase, S!Next, S!vars, S!Start, S!Stop, S!Stopped, S!Begin, S!End

LEMMA ServiceStep ==
  ASSUME LifeInv, [LifeNext]_lifeVars
  PROVE  Serving
<1>0. StageInv /\ Busy \subseteq live
  BY LifeTypes DEF LifeInv
<1>1. UNCHANGED thr => Busy' = Busy
  BY DEF Busy, At
<1>2. CASE Control
  <2>1. Busy' = Busy
    BY <1>1, <1>2 DEF Control, StartupNet, Init_, Spawn, CleanupNet, ClearTable, ClearIndexes, PostQuit,
                      CloseHandle, Stop, vars
  <2>2. CASE StartupNet \/ Spawn \/ ClearTable \/ PostQuit \/ Stop
    BY <1>0, <2>1, <2>2 DEF StartupNet, Spawn, ClearTable, PostQuit, Stop, StageInv, Serving, Phase
  <2>3. CASE Init_ \/ CleanupNet \/ ClearIndexes
    BY <1>0, <2>1, <2>3 DEF Init_, CleanupNet, ClearIndexes, StageInv, Serving, Phase
  <2>4. CASE CloseHandle
    <3>1. Busy = {} /\ ctl = "join" /\ port /\ ~port'
      BY <1>0, <2>4 DEF CloseHandle, Joined, StageInv
    <3> QED
      BY <2>1, <3>1 DEF Serving, Phase
  <2> QED
    BY <1>2, <2>2, <2>3, <2>4 DEF Control
<1>3. CASE Work
  <2>1. UNCHANGED <<port, ctl>> /\ Phase' = Phase
    BY <1>3, WorkActs DEF Phase
  <2>2. ASSUME NEW t \in Users, UserCall(t) PROVE Serving
    <3>1. OthersSame(t) /\ t \notin Workers
      BY <2>2, LifeTypes, CallActs, ConstantsOK DEF UserCall
    <3>2. Busy' = Busy
      BY <3>1 DEF Busy, OthersSame, At, Threads
    <3> QED
      BY <2>1, <3>2 DEF Serving
  <2>3. ASSUME NEW t \in Threads, ThreadStep(t) PROVE Serving
    <3>1. OthersSame(t) /\ ~At(t, "idle")
      BY <2>3, LifeTypes, StepActs DEF ThreadStep
    <3>2. Busy' = Busy \/ (t \in Workers /\ Busy' = Busy \ {t})
      BY <3>1 DEF Busy, OthersSame, At, Threads
    <3> QED
      BY <2>1, <3>2 DEF Serving
  <2>4. ASSUME NEW w \in Workers, Take(w) PROVE Serving
    <3>1. OthersSame(w) /\ port
      BY <2>4, TakeActs
    <3>2. Busy' = Busy \cup {w} \/ Busy' = Busy \ {w}
      BY <3>1 DEF Busy, OthersSame, At, Threads
    <3> QED
      BY <2>1, <3>1, <3>2 DEF Serving, Phase
  <2>5. CASE UNCHANGED thr
    BY <1>1, <2>1, <2>5 DEF Serving
  <2>6. ASSUME NEW w \in Workers, QuitWorker(w) PROVE Serving
    BY <2>5, <2>6 DEF QuitWorker, vars
  <2>7. ASSUME NEW b \in Buffers, Packet(b) PROVE Serving
    BY <2>5, <2>7, PacketActs
  <2>8. CASE UNCHANGED lifeVars
    BY <2>5, <2>8 DEF lifeVars, vars
  <2> QED
    BY <1>3, <2>2, <2>3, <2>4, <2>6, <2>7, <2>8 DEF Work, Quiet
<1> QED
  BY <1>2, <1>3, Steps

-----------------------------------------------------------------------------
(* The theorems.                                                           *)

\* StartupNet, CleanupNet, IOCP::Init and Uninit keep what they hold in its type, and a
\* worker thread that has ended was in no handler (ThreadWorker, iocp.cpp).
THEOREM LifeTypesCorrect == LifeSpec => []LifeTypeOK
<1>1. LifeInv => LifeTypeOK
  BY DEF LifeInv, TypesInv
<1> QED
  BY InvariantLife, <1>1, PTL

\* Uninit posts one quit packet for each worker, and each worker takes one: join never waits
\* for a thread without a packet, and no worker ends while the library is up.
THEOREM QuitForEach == LifeSpec => []OneQuitEach
<1>1. LifeInv => OneQuitEach
  BY DEF LifeInv, QuitInv
<1> QED
  BY InvariantLife, <1>1, PTL

\* Through starts and clean-ups the port holds each completion once, until a worker's
\* TransferAsyncType takes it.
THEOREM CompletionsInPort == LifeSpec => []PortHoldsCompletions
<1>1. LifeInv => PortHoldsCompletions
  BY DEF LifeInv
<1> QED
  BY InvariantLife, <1>1, PTL

\* The quit packets are behind what had completed before Uninit posted them, and a worker
\* takes one only when its handler is done: with any number of workers, what the end of the
\* last one leaves in the port or with the kernel had not completed when Uninit began.
THEOREM EarlierHandled == LifeSpec => []EarlierCompletionsHandled
<1>1. LifeInv => EarlierCompletionsHandled
  <2> SUFFICES ASSUME LifeInv, ctl = "join", live = {}
               PROVE  due = {} /\ \A b \in heap : io[b] # "none"
    BY DEF EarlierCompletionsHandled
  <2>1. due = {}
    BY LifecycleOK DEF LifeInv, DueInv
  <2>2. \A w \in Workers : At(w, "idle")
    BY DEF LifeInv, TypesInv, LifeTypeOK, Busy
  <2>3. \A w \in Workers : thr[w].b = None
    BY <2>2, IdleFields DEF LifeInv, ResourcesInv, TypeOK, Threads
  <2>4. heap \subseteq Buffers /\ None \notin Buffers
    BY ConstantsOK DEF LifeInv, ResourcesInv, TypeOK
  <2> QED
    BY <2>1, <2>3, <2>4 DEF LifeInv, ResourcesInv, Ownership, BufferOwnership
<1> QED
  BY InvariantLife, <1>1, PTL

\* StartupNet leaves the library up with all its workers or, when Init fails, down with
\* nothing of it left; CleanupNet leaves it down (net_started_, init_, iocp_, iocp_thread_).
THEOREM StartedUp == LifeSpec => []StartedMeansUp
<1>1. LifeInv => StartedMeansUp
  BY DEF LifeInv, StageInv, QuitInv, TypesInv, LifeTypeOK, StartedMeansUp
<1> QED
  BY InvariantLife, <1>1, PTL

\* Whatever calls and handlers did to the tables while CleanupNet cleared them, a library
\* that is up has every index owned once.
THEOREM OwnedWhenUp == LifeSpec => []OwnershipWhenUp
<1>1. LifeInv => OwnershipWhenUp
  BY DEF LifeInv, IndexInv, OwnershipWhenUp
<1> QED
  BY InvariantLife, <1>1, PTL

\* CleanupNet returns only when no handler runs, and none runs before StartupNet or after
\* CleanupNet: the composition implements Service.
THEOREM ServiceImplemented == LifeSpec => ImplementsService
<1>1. LifeInit => S!Init
  <2> SUFFICES ASSUME LifeInit PROVE S!Init
    OBVIOUS
  <2>1. \A w \in Workers : At(w, "idle")
    BY IdleFields DEF LifeInit, Init, At, Threads
  <2>2. Busy = {} /\ ~port
    BY <2>1 DEF Busy, LifeInit
  <2> QED
    BY <2>2 DEF S!Init
<1>2. LifeInv /\ [LifeNext]_lifeVars => [S!Next]_S!vars
  BY ServiceStep, ServingIsService
<1> QED
  BY InvariantLife, <1>1, <1>2, PTL DEF LifeSpec, ImplementsService, S!Spec

=============================================================================
