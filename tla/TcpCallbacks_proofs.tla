------------------------ MODULE TcpCallbacks_proofs ------------------------
(***************************************************************************)
(* Proofs about the callbacks of a connection, when the indexer gives no   *)
(* index twice: a connection has one reader at a time, and its callbacks   *)
(* are as module Connections promises.                                     *)
(***************************************************************************)
EXTENDS TcpConnections_proofs

-----------------------------------------------------------------------------
(* Who reads a connection.                                                 *)

\* The connection that buffer b receives for, and the one thread t has still to call back about.
RecvOf(b) == IF b \in heap /\ io[b] # "none" /\ buf[b].type = "recv" THEN buf[b].sock ELSE None
Live(t)   == IF At(t, "remove") \/ At(t, "destroy_index") THEN None ELSE Serves(t)

AcceptedPCs == {"set_accepted", "on_accepted", "recv_new"}
CallPCs     == {"on_accepted", "on_error", "on_received", "on_disconnected"}

\* What thread t serves, from where it is.
ServesOK(t) ==
  /\ Calling(t) = IF thr[t].pc \in CallPCs THEN Serves(t) ELSE None
  /\ IF t \in Users
     THEN Serves(t) = IF At(t, "recv_new") THEN thr[t].a ELSE None
     ELSE /\ thr[t].pc \in AcceptedPCs => Serves(t) = thr[t].a
          /\ thr[t].pc \in ReadPCs => Serves(t) = thr[t].s
          /\ thr[t].pc \in {"on_error", "remove", "destroy_index"} =>
               IF thr[t].b # None THEN Serves(t) = thr[t].a
               ELSE IF sock[thr[t].s].listen THEN Serves(t) = None ELSE Serves(t) = thr[t].s
          /\ thr[t].pc \in {"idle", "add_index", "add_insert", "reset"} => Serves(t) = None

\* What a thread serves is a connection, or its own.
ServedOK(t) ==
  Serves(t) # None =>
    /\ Serves(t) \in Sockets /\ Serves(t) \in {thr[t].s, thr[t].a}
    /\ sock[Serves(t)].connect \/ (Private(t) /\ thr[t].a = Serves(t))

ServesRight == \A t \in Threads : ServesOK(t) /\ ServedOK(t)

LEMMA ServesAlways == ConnFacts => ServesRight
<1> SUFFICES ASSUME ConnFacts, NEW t \in Threads PROVE ServesOK(t) /\ ServedOK(t)
  BY DEF ServesRight
<1> USE DEF At
<1>0. LocalsOK(t) /\ PartOK(t) /\ PrivateOK(t) /\ TypeOK
  BY ThreadFacts
<1>1. CASE t \in Users
  <2>1. UserPart(t) /\ thr[t].pc \in UserPCs
    BY <1>0, <1>1 DEF PartOK, LocalsOK
  <2>2. Serves(t) = IF At(t, "recv_new") THEN thr[t].a ELSE None
    BY <1>0, <2>1, ConstantsOK DEF Serves, PartOK, UserPart, UserPCs, LocalsOK, RemovePCs
  <2>3. Calling(t) = None
    BY <2>1 DEF Calling, UserPCs
  <2>4. thr[t].pc \notin CallPCs
    BY <2>1 DEF CallPCs, UserPCs
  <2> QED
    BY <1>0, <1>1, <2>1, <2>2, <2>3, <2>4 DEF ServesOK, ServedOK, UserPart, LocalsOK
<1>2. CASE t \notin Users
  <2>1. WorkerPart(t) /\ thr[t].pc \in WorkerPCs /\ t \in Workers
    BY <1>0, <1>2, ThreadFacts DEF LocalsOK
  <2>2. thr[t].pc \in AcceptedPCs => /\ Serves(t) = thr[t].a /\ thr[t].b # None /\ thr[t].a \in Sockets
                                     /\ thr[t].rh = None
    BY <1>0, <2>1, ConstantsOK DEF AcceptedPCs, Serves, LocalsOK, PartOK, RemovePCs
  <2>3. thr[t].pc \in ReadPCs => Serves(t) = thr[t].s /\ thr[t].s \in Sockets /\ sock[thr[t].s].connect
    BY <1>0, <2>1, ConstantsOK DEF ReadPCs, Serves, LocalsOK, PartOK, RemovePCs, WorkerPart, ConnectionPart
  <2>4. thr[t].pc \in {"on_error", "remove", "destroy_index"} =>
          /\ IF thr[t].b # None THEN Serves(t) = thr[t].a
             ELSE IF sock[thr[t].s].listen THEN Serves(t) = None ELSE Serves(t) = thr[t].s
          /\ thr[t].rh # None
          /\ thr[t].b # None => thr[t].a \in Sockets /\ thr[t].rh = thr[t].ah
          /\ thr[t].b = None => /\ thr[t].s \in Sockets /\ thr[t].rh = thr[t].h /\ thr[t].ah # thr[t].h
                                /\ sock[thr[t].s].listen \/ sock[thr[t].s].connect
    <3> SUFFICES ASSUME thr[t].pc \in {"on_error", "remove", "destroy_index"}
                 PROVE  /\ IF thr[t].b # None THEN Serves(t) = thr[t].a
                           ELSE IF sock[thr[t].s].listen THEN Serves(t) = None ELSE Serves(t) = thr[t].s
                        /\ thr[t].rh # None
                        /\ thr[t].b # None => thr[t].a \in Sockets /\ thr[t].rh = thr[t].ah
                        /\ thr[t].b = None => /\ thr[t].s \in Sockets /\ thr[t].rh = thr[t].h
                                              /\ thr[t].ah # thr[t].h
                                              /\ sock[thr[t].s].listen \/ sock[thr[t].s].connect
      OBVIOUS
    <3>1. thr[t].rh # None
      BY <1>0, ConstantsOK DEF LocalsOK
    <3>2. CASE thr[t].b # None
      <4>1. thr[t].rh = thr[t].ah /\ thr[t].a \in Sockets
        BY <2>1, <3>2 DEF WorkerPart, AcceptPart, ReadPCs, RemovePCs
      <4> QED
        BY <3>1, <3>2, <4>1 DEF Serves
    <3>3. CASE thr[t].b = None
      <4>1. ListenerPart(t) \/ ConnectionPart(t)
        BY <2>1, <3>3 DEF WorkerPart, ReadPCs, RemovePCs
      <4>2. /\ thr[t].rh = thr[t].h /\ thr[t].ah # thr[t].h
            /\ sock[thr[t].s].listen \/ sock[thr[t].s].connect
        BY <3>1, <4>1 DEF ListenerPart, ConnectionPart, RemovePCs
      <4>3. thr[t].s \in Sockets
        BY <1>0, <3>1, <4>2, FieldTypes DEF PartOK, Maybe
      <4> QED
        BY <3>1, <3>3, <4>2, <4>3 DEF Serves
    <3> QED
      BY <3>2, <3>3
  <2>5. thr[t].pc \in {"idle", "add_index", "add_insert", "reset"} => Serves(t) = None
    BY <1>0 DEF Serves, PartOK, RemovePCs
  <2>6. Calling(t) = IF thr[t].pc \in CallPCs THEN Serves(t) ELSE None
    BY <2>1, <2>2, <2>3, <2>4 DEF Calling, CallPCs, AcceptedPCs, ReadPCs, WorkerPCs, PCs
  <2>7. ServesOK(t)
    BY <1>2, <2>2, <2>3, <2>4, <2>5, <2>6 DEF ServesOK
  <2>8. ServedOK(t)
    <3>1. CASE thr[t].pc \in AcceptedPCs
      <4>1. CASE thr[t].pc = "recv_new"
        BY <2>1, <2>2, <4>1 DEF ServedOK, AcceptedPCs, WorkerPart, AcceptPart, ReadPCs
      <4>2. CASE thr[t].pc # "recv_new"
        BY <2>2, <3>1, <4>2 DEF ServedOK, AcceptedPCs, Private
      <4> QED
        BY <4>1, <4>2
    <3>2. CASE thr[t].pc \in ReadPCs
      BY <2>3, <3>2 DEF ServedOK
    <3>3. CASE thr[t].pc \in {"on_error", "remove", "destroy_index"}
      BY <2>4, <3>3 DEF ServedOK, Private
    <3>4. CASE thr[t].pc \in {"idle", "add_index", "add_insert", "reset"}
      BY <2>5, <3>4 DEF ServedOK
    <3> QED
      BY <2>1, <3>1, <3>2, <3>3, <3>4 DEF AcceptedPCs, ReadPCs, WorkerPCs, PCs
  <2> QED
    BY <2>7, <2>8
<1> QED
  BY <1>1, <1>2

LEMMA ServesNext == ConnFacts' => ServesRight'
BY ServesAlways, PTL

-----------------------------------------------------------------------------
(* Readers, and what a step does to them.                                  *)

\* The receives and the threads alike, and the connection one of them reads or may call back about.
Parties   == Threads \cup Buffers
Reads(r)  == IF r \in Threads THEN Serves(r) ELSE RecvOf(r)
Speaks(r) == IF r \in Threads THEN Live(r) ELSE RecvOf(r)

OneReader == \A r, q \in Parties : Reads(r) = Reads(q) => r = q \/ Reads(r) = None

\* Nobody but thread t and q starts or stops to read, and no thread but t to call back.
OnlyThese(t, q) ==
  /\ q \in Buffers \cup {t}
  /\ \A p \in Parties \ {t, q} : Reads(p)' = Reads(p) /\ Speaks(p)' = Speaks(p)
  /\ \A u \in Threads \ {t} : Calling(u)' = Calling(u)

ViewsOK ==
  /\ \A r \in Parties : Reads(r) \in Maybe(Sockets) /\ Speaks(r) \in {None, Reads(r)}
  /\ \A t \in Threads : Calling(t) \in {None, Speaks(t)}
  /\ \A s \in Sockets : /\ s \in Open <=> \E r \in Parties : Speaks(r) = s
                        /\ \A r \in Readers(s) : r \in Parties /\ Reads(r) = s
                        /\ \A r \in Parties : Reads(r) = s => r \in Readers(s)
  /\ None \notin Sockets

LEMMA ViewsAlways == ConnFacts => ViewsOK
<1> SUFFICES ASSUME ConnFacts PROVE ViewsOK
  OBVIOUS
<1> USE DEF At
<1>1. TypeOK /\ ServesRight
  BY ServesAlways DEF ConnFacts, IInv
<1>2. ASSUME NEW b \in Buffers PROVE b \notin Threads /\ RecvOf(b) \in Maybe(Sockets)
  BY <1>1, ConstantsOK DEF RecvOf, TypeOK, Operations, Maybe
<1>3. ASSUME NEW t \in Threads
      PROVE  /\ Serves(t) \in Maybe(Sockets) /\ Live(t) \in {None, Serves(t)}
             /\ Calling(t) \in {None, Live(t)}
  <2>1. ServesOK(t) /\ ServedOK(t)
    BY <1>1 DEF ServesRight
  <2>2. Serves(t) \in Maybe(Sockets)
    BY <2>1 DEF ServedOK, Maybe
  <2>3. Live(t) \in {None, Serves(t)}
    BY DEF Live
  <2>4. Calling(t) \in {None, Live(t)}
    BY <2>1 DEF ServesOK, CallPCs, Live
  <2> QED
    BY <2>2, <2>3, <2>4
<1>4. None \notin Sockets
  BY ConstantsOK
<1>5. ASSUME NEW s \in Sockets
      PROVE  /\ s \in Open <=> \E r \in Parties : Speaks(r) = s
             /\ \A r \in Readers(s) : r \in Parties /\ Reads(r) = s
             /\ \A r \in Parties : Reads(r) = s => r \in Readers(s)
  <2>1. \A b \in Buffers : b \in Receives(s) <=> RecvOf(b) = s
    BY <1>4 DEF Receives, RecvOf
  <2>2. Receives(s) \subseteq Buffers
    BY <1>1 DEF Receives, TypeOK
  <2>3. s \in Open <=> \/ \E b \in Buffers : RecvOf(b) = s
                       \/ \E t \in Threads : Live(t) = s
    BY <2>1, <2>2, <1>4 DEF Open, Live
  <2> QED
    BY <1>2, <2>1, <2>2, <2>3 DEF Readers, Parties, Reads, Speaks
<1>6. \A r \in Parties : Reads(r) \in Maybe(Sockets) /\ Speaks(r) \in {None, Reads(r)}
  BY <1>2, <1>3 DEF Parties, Reads, Speaks
<1>7. \A t \in Threads : Calling(t) \in {None, Speaks(t)}
  BY <1>3 DEF Speaks
<1> QED
  BY <1>4, <1>5, <1>6, <1>7 DEF ViewsOK

LEMMA ViewsNext == ConnFacts' => ViewsOK'
BY ViewsAlways, PTL

LEMMA SerialParties == ASSUME ViewsOK PROVE CallbacksSerial <=> OneReader
BY DEF ViewsOK, CallbacksSerial, OneReader, Maybe

\* Thread t and q hand what they read to each other, or take up what nobody reads.
LEMMA ReadersStep ==
  ASSUME OneReader, NEW t \in Threads, NEW q, OnlyThese(t, q),
         q = t \/ Reads(t)' = None \/ Reads(q)' = None,
         \A p \in {t, q} : \/ Reads(p)' \in {None, Reads(t), Reads(q)}
                           \/ \A o \in Parties : Reads(o) # Reads(p)'
  PROVE  OneReader'
<1>1. ASSUME NEW p \in Parties, NEW o \in Parties, Reads(p)' = Reads(o)', Reads(p)' # None
      PROVE  p = o
  <2>0. t \in Parties /\ q \in Parties
    BY DEF Parties, OnlyThese
  <2>1. CASE p \notin {t, q} /\ o \notin {t, q}
    BY <1>1, <2>1 DEF OnlyThese, OneReader
  <2>2. CASE p \in {t, q} /\ o \in {t, q}
    BY <1>1, <2>2
  <2>3. CASE p \in {t, q} /\ o \notin {t, q}
    BY <1>1, <2>0, <2>3 DEF OnlyThese, OneReader
  <2>4. CASE p \notin {t, q} /\ o \in {t, q}
    BY <1>1, <2>0, <2>4 DEF OnlyThese, OneReader
  <2> QED
    BY <2>1, <2>2, <2>3, <2>4
<1> QED
  BY <1>1 DEF OneReader

Serial == ConnFacts /\ OneReader

\* Nobody else calls back about what r has still to say.
LEMMA QuietOthers ==
  ASSUME Serial, NEW r \in Parties, Speaks(r) # None, NEW u \in Threads, u # r
  PROVE  Calling(u) # Speaks(r)
<1>1. ViewsOK
  BY ViewsAlways DEF Serial
<1>2. u \in Parties
  BY DEF Parties
<1> QED
  BY <1>1, <1>2 DEF ViewsOK, Serial, OneReader

CStep == [C!Next]_(C!vars)

\* What is open stays open; thread t begins a callback, returns from one, or does neither.
LEMMA HandStep ==
  ASSUME Serial, ConnFacts', NEW t \in Threads, NEW q, OnlyThese(t, q),
         {Speaks(t)', Speaks(q)'} \cup {None} = {Speaks(t), Speaks(q)} \cup {None},
         \/ Calling(t)' = Calling(t)
         \/ Calling(t) = None /\ Calling(t)' \in {Speaks(t), Speaks(q)}
         \/ Calling(t)' = None
  PROVE  CStep
<1>1. ViewsOK /\ ViewsOK' /\ t \in Parties /\ q \in Parties /\ (q # t => q \notin Threads)
  BY ViewsAlways, ViewsNext, ConstantsOK DEF Serial, OnlyThese, Parties
<1>2. Open' = Open
  <2>1. \A s \in Sockets : s \in Open' <=> s \in Open
    BY <1>1 DEF ViewsOK, OnlyThese
  <2> QED
    BY <2>1 DEF Open
<1>3. CASE Calling(t)' = Calling(t)
  BY <1>2, <1>3 DEF CStep, C!vars, OnlyThese
<1>4. CASE Calling(t)' # Calling(t) /\ Calling(t) = None /\ Calling(t)' \in {Speaks(t), Speaks(q)}
  <2>1. PICK p \in {t, q} : Calling(t)' = Speaks(p)
    BY <1>4
  <2>2. /\ p \in Parties /\ Speaks(p) # None /\ Speaks(p) \in Sockets /\ Speaks(p) \in Open
    BY <1>1, <1>4, <2>1 DEF ViewsOK, Maybe
  <2>3. \A u \in Threads : Calling(u) # Speaks(p)
    BY <1>1, <1>4, <2>2, QuietOthers
  <2>4. C!Quiet(Speaks(p))
    BY <2>3 DEF C!Quiet
  <2> QED
    BY <1>2, <1>4, <2>1, <2>2, <2>4 DEF CStep, C!Next, C!Begin, OnlyThese
<1>5. CASE Calling(t)' # Calling(t) /\ Calling(t)' = None
  BY <1>2, <1>5 DEF CStep, C!Next, C!Return, OnlyThese
<1> QED
  BY <1>3, <1>4, <1>5

\* Thread t begins to serve a connection that nobody reads.
LEMMA OpenStep ==
  ASSUME Serial, ConnFacts', NEW t \in Threads, OnlyThese(t, t), Calling(t)' = Calling(t),
         Speaks(t) = None, Speaks(t)' # None, \A o \in Parties : Reads(o) # Speaks(t)'
  PROVE  CStep
<1> DEFINE s == Speaks(t)'
<1>1. ViewsOK /\ ViewsOK' /\ t \in Parties
  BY ViewsAlways, ViewsNext DEF Serial, Parties
<1>2. s \in Sockets /\ s \notin Open
  BY <1>1 DEF ViewsOK, Maybe
<1>3. Open' = Open \cup {s}
  <2>1. \A x \in Sockets : x \in Open' <=> x \in Open \/ x = s
    BY <1>1 DEF ViewsOK, OnlyThese
  <2> QED
    BY <1>2, <2>1 DEF Open
<1>4. [u \in Threads |-> Calling(u)]' = [u \in Threads |-> Calling(u)]
  BY DEF OnlyThese
<1> QED
  BY <1>2, <1>3, <1>4 DEF CStep, C!Next, C!Open

\* Thread t or q gives up what it reads: after its last callback, or without one.
LEMMA EndStep ==
  ASSUME Serial, ConnFacts', NEW t \in Threads, NEW q, OnlyThese(t, q),
         NEW p \in {t, q}, NEW o \in {t, q}, t = q \/ p # o, Speaks(p) # None, Speaks(p)' = None,
         t # q => Speaks(o)' = Speaks(o),
         \/ p = t /\ Calling(t) = Speaks(t) /\ Calling(t)' = None
         \/ Calling(t) = None /\ Calling(t)' = None
  PROVE  CStep
<1> DEFINE s == Speaks(p)
<1>1. ViewsOK /\ ViewsOK' /\ p \in Parties /\ q \in Parties /\ (q # t => q \notin Threads)
  BY ViewsAlways, ViewsNext, ConstantsOK DEF Serial, OnlyThese, Parties
<1>2. s \in Sockets /\ s \in Open
  BY <1>1 DEF ViewsOK, Maybe
<1>3. Open' = Open \ {s}
  <2>1. \A x \in Sockets : x \in Open' <=> x \in Open /\ x # s
    BY <1>1 DEF ViewsOK, OnlyThese, Serial, OneReader
  <2> QED
    BY <2>1 DEF Open
<1>4. CASE p = t /\ Calling(t) = Speaks(t) /\ Calling(t)' = None
  BY <1>2, <1>3, <1>4 DEF CStep, C!Next, C!Last, OnlyThese
<1>5. CASE Calling(t) = None /\ Calling(t)' = None
  <2>1. \A u \in Threads : Calling(u) # s
    BY <1>1, <1>5, QuietOthers
  <2>2. C!Quiet(s)
    BY <2>1 DEF C!Quiet
  <2>3. [u \in Threads |-> Calling(u)]' = [u \in Threads |-> Calling(u)]
    BY <1>5 DEF OnlyThese
  <2> QED
    BY <1>2, <1>3, <2>2, <2>3 DEF CStep, C!Next, C!Lose
<1> QED
  BY <1>4, <1>5

\* The sockets that somebody has keep their flags.
FlagsUp == \A x \in Sockets \ FreeSockets : /\ sock[x].listen => sock'[x].listen
                                            /\ sock[x].connect => sock'[x].connect

\* No buffer but q changes.
OtherBuffers(q) == \A c \in Buffers \ {q} : /\ c \in heap' <=> c \in heap
                                            /\ buf'[c] = buf[c] /\ io'[c] = io[c]

LEMMA OthersServe ==
  ASSUME ConnFacts, ConnFacts', NEW t \in Threads, OthersSame(t), FlagsUp, NEW u \in Threads, u # t
  PROVE  Serves(u)' = Serves(u) /\ Live(u)' = Live(u) /\ Calling(u)' = Calling(u)
<1> USE DEF At
<1>1. thr'[u] = thr[u]
  BY DEF OthersSame
<1>2. LocalsOK(u) /\ PartOK(u) /\ TypeOK /\ PartOK(u)'
  BY ThreadFacts DEF ConnFacts, ConnInv, PartsInv
\* Where it matters whether a thread's socket listens, it is a connection or a listener for ever.
<1>3. ASSUME thr[u].rh # None, thr[u].rh = thr[u].h
      PROVE  sock'[thr[u].s].listen <=> sock[thr[u].s].listen
  <2>1. thr[u].s \in Sockets /\ thr[u].s \notin FreeSockets /\ u \notin Users
    <3>1. thr[u].pc \in RemovePCs
      BY <1>2, <1>3 DEF PartOK
    <3>2. u \notin Users
      BY <1>2, <1>3, <3>1 DEF PartOK, UserPart, RemovePCs, LocalsOK, UserPCs
    <3> QED
      BY <1>2, <1>3, <3>2, FieldTypes, NotFree DEF PartOK, Maybe
  <2>2. sock[thr[u].s].listen \/ sock[thr[u].s].connect
    <3>1. WorkerPart(u) /\ thr[u].pc \in RemovePCs
      BY <1>2, <1>3, <2>1 DEF PartOK
    <3> QED
      BY <3>1 DEF WorkerPart, AcceptPart, ListenerPart, ConnectionPart, ReadPCs
  <2>3. sock[thr[u].s].listen => sock'[thr[u].s].listen
    BY <2>1 DEF FlagsUp
  <2>4. sock[thr[u].s].connect => ~sock[thr[u].s].listen /\ ~sock'[thr[u].s].listen
    BY <2>1 DEF FlagsUp, ConnFacts, ConnInv, FlagsInv
  <2> QED
    BY <2>2, <2>3, <2>4
<1>4. Serves(u)' = Serves(u)
  BY <1>1, <1>3 DEF Serves
<1>5. Live(u)' = Live(u)
  BY <1>1, <1>4 DEF Live
<1>6. Calling(u)' = Calling(u)
  <2>1. ServesOK(u) /\ ServesOK(u)'
    BY ServesAlways, ServesNext DEF ServesRight
  <2> QED
    BY <1>1, <1>4, <2>1 DEF ServesOK
<1> QED
  BY <1>4, <1>5, <1>6

LEMMA OnlyTheseFrame ==
  ASSUME ConnFacts, ConnFacts', NEW t \in Threads, OthersSame(t), FlagsUp,
         NEW q \in Buffers \cup {t}, OtherBuffers(q)
  PROVE  OnlyThese(t, q)
<1>1. \A u \in Threads \ {t} : Serves(u)' = Serves(u) /\ Live(u)' = Live(u) /\ Calling(u)' = Calling(u)
  BY OthersServe
<1>2. \A c \in Buffers \ {q} : RecvOf(c)' = RecvOf(c)
  BY DEF OtherBuffers, RecvOf
<1> QED
  BY <1>1, <1>2 DEF OnlyThese, Parties, Reads, Speaks

LEMMA FlagsSame == ASSUME UNCHANGED sock PROVE FlagsUp
BY DEF FlagsUp

LEMMA FlagsSet ==
  ASSUME TypeOK, NEW x \in Sockets, NEW f \in Flags, sock' = [sock EXCEPT ![x] = f],
         \/ x \in FreeSockets
         \/ (sock[x].listen => f.listen) /\ (sock[x].connect => f.connect)
  PROVE  FlagsUp
BY DEF FlagsUp, TypeOK

LEMMA FlagsAccept == ASSUME TypeOK, NEW b, NEW h, NEW s, AsyncTcpAccept(b, h, s) PROVE FlagsUp
BY FlagsSet, NotFree, ConstantTypes DEF AsyncTcpAccept

\* The buffers after each of the calls that change them.
LEMMA BuffersStep ==
  ASSUME TypeOK, NEW b \in Buffers
  PROVE  /\ \A type, h, s, a : Submit(b, type, h, s, a) =>
              OtherBuffers(b) /\ RecvOf(b)' = IF type = "recv" THEN s ELSE None
         /\ Delete(b) => OtherBuffers(b) /\ RecvOf(b)' = None
         /\ \A x : UNCHANGED <<heap, buf, io>> => OtherBuffers(x)
         /\ UNCHANGED <<heap, buf, io>> => RecvOf(b)' = RecvOf(b)
<1>1. ASSUME NEW type, NEW h, NEW s, NEW a, Submit(b, type, h, s, a)
      PROVE  OtherBuffers(b) /\ RecvOf(b)' = IF type = "recv" THEN s ELSE None
  <2>1. heap' = heap \cup {b} /\ io'[b] = "pending" /\ buf'[b].type = type /\ buf'[b].sock = s
    BY <1>1 DEF Submit, TypeOK
  <2>2. OtherBuffers(b)
    BY <1>1 DEF Submit, TypeOK, OtherBuffers
  <2> QED
    BY <2>1, <2>2 DEF RecvOf
<1>2. ASSUME Delete(b) PROVE OtherBuffers(b) /\ RecvOf(b)' = None
  BY <1>2 DEF Delete, TypeOK, OtherBuffers, RecvOf
<1>3. \A x : UNCHANGED <<heap, buf, io>> => OtherBuffers(x)
  BY DEF OtherBuffers
<1>4. UNCHANGED <<heap, buf, io>> => RecvOf(b)' = RecvOf(b)
  BY DEF RecvOf
<1> QED
  BY <1>1, <1>2, <1>3, <1>4

\* A buffer that is not allocated, or that a worker has, receives nothing.
LEMMA NoReceive ==
  ASSUME ConnFacts, NEW b \in Buffers, b \notin heap \/ \E w \in Workers : thr[w].b = b
  PROVE  RecvOf(b) = None
BY DEF ConnFacts, IInv, BufferOwnership, RecvOf

\* What thread t reads, may call back about and calls back about, by its point.
Views(t, s, l, c) == Serves(t) = s /\ Live(t) = l /\ Calling(t) = c

ViewsAt(t) ==
  /\ t \in Users => IF At(t, "recv_new") THEN Views(t, thr[t].a, thr[t].a, None)
                    ELSE Views(t, None, None, None)
  /\ thr[t].pc \in {"set_accepted", "recv_new"} => Views(t, thr[t].a, thr[t].a, None)
  /\ At(t, "on_accepted") => Views(t, thr[t].a, thr[t].a, thr[t].a)
  /\ thr[t].pc \in {"parse", "rearm"} => Views(t, thr[t].s, thr[t].s, None)
  /\ thr[t].pc \in {"on_received", "on_disconnected"} => Views(t, thr[t].s, thr[t].s, thr[t].s)
  /\ At(t, "on_error") => Views(t, Serves(t), Serves(t), Serves(t))
  /\ At(t, "on_error") /\ thr[t].b # None => Serves(t) = thr[t].a
  /\ At(t, "on_error") /\ thr[t].b = None =>
       Serves(t) = IF sock[thr[t].s].listen THEN None ELSE thr[t].s
  /\ thr[t].pc \in {"remove", "destroy_index"} => Views(t, Serves(t), None, None)
  /\ thr[t].pc \in {"remove", "destroy_index"} /\ t \in Workers /\ thr[t].b # None => Serves(t) = thr[t].a
  /\ thr[t].pc \in {"remove", "destroy_index"} /\ t \in Workers /\ thr[t].b = None =>
       Serves(t) = IF sock[thr[t].s].listen THEN None ELSE thr[t].s
  /\ thr[t].pc \in {"idle", "add_index", "add_insert", "reset"} => Views(t, None, None, None)

LEMMA ThreadViews == ConnFacts => \A t \in Threads : ViewsAt(t)
<1> SUFFICES ASSUME ConnFacts, NEW t \in Threads PROVE ViewsAt(t)
  OBVIOUS
<1> USE DEF At
<1>1. ServesOK(t) /\ LocalsOK(t) /\ (t \in Workers => t \notin Users)
  BY ServesAlways, ThreadFacts, ConstantsOK DEF ServesRight
<1>2. CASE t \in Users
  BY <1>1, <1>2 DEF ServesOK, LocalsOK, UserPCs, Views, Live, CallPCs, ViewsAt
<1>3. CASE t \notin Users
  BY <1>1, <1>3 DEF ServesOK, Views, Live, CallPCs, AcceptedPCs, ReadPCs, ViewsAt
<1> QED
  BY <1>2, <1>3

LEMMA ThreadViewsNext == ConnFacts' => \A t \in Threads : ViewsAt(t)'
<1>1. (ConnFacts => \A t \in Threads : ViewsAt(t))'
  BY ThreadViews, PTL
<1> QED
  BY <1>1

-----------------------------------------------------------------------------
(* The kinds of step.                                                      *)

Unread(s) == \A o \in Parties : Reads(o) # s

\* Socket s is under no handle.
Gone(s) == \A h \in Handles : table[h] # s

\* A reader stops only when another takes over or its connection is out of the table, or
\* when TcpConnect could not start the first receive.
Heard == \A r \in Parties : \/ Reads(r) = None \/ Gone(Reads(r))
                            \/ \E q \in Parties : Reads(q)' = Reads(r)
                            \/ \E u \in Users : At(u, "recv_new")

Good == OneReader' /\ CStep /\ Heard

\* A step after which no buffer receives anything else than before.
LEMMA AloneGood ==
  ASSUME Serial, ConnFacts', NEW t \in Threads, OnlyThese(t, t),
         NEW s, NEW l, NEW c, Views(t, s, l, c), NEW s2, NEW l2, NEW c2, Views(t, s2, l2, c2)',
         s2 \in {None, s} \/ Unread(s2),
         s = None \/ s2 = s \/ Gone(s) \/ (t \in Users /\ At(t, "recv_new")),
         \/ l2 = l /\ (c2 = c \/ c2 = None \/ (c = None /\ c2 = l))
         \/ l = None /\ l2 # None /\ Unread(l2) /\ c2 = c
         \/ l # None /\ l2 = None /\ c \in {None, l} /\ c2 = None
  PROVE  Good
<1>1. /\ t \in Parties
      /\ Reads(t) = s /\ Speaks(t) = l /\ Calling(t) = c
      /\ Reads(t)' = s2 /\ Speaks(t)' = l2 /\ Calling(t)' = c2
  BY DEF Views, Reads, Speaks, Parties
<1>2. OneReader' /\ Heard
  <2>1. OneReader'
    BY <1>1, ReadersStep DEF Serial, Unread
  <2>2. Heard
    BY <1>1 DEF OnlyThese, Heard
  <2> QED
    BY <2>1, <2>2
<1>3. CASE l2 = l /\ (c2 = c \/ c2 = None \/ (c = None /\ c2 = l))
  BY <1>1, <1>2, <1>3, HandStep DEF Good
<1>4. CASE l = None /\ l2 # None /\ Unread(l2) /\ c2 = c
  BY <1>1, <1>2, <1>4, OpenStep DEF Good, Unread
<1>5. CASE l # None /\ l2 = None /\ c \in {None, l} /\ c2 = None
  BY <1>1, <1>2, <1>5, EndStep DEF Good
<1> QED
  BY <1>3, <1>4, <1>5

\* A step in which thread t and buffer q pass a connection on, or q gives it up.
LEMMA PassGood ==
  ASSUME Serial, ConnFacts', NEW t \in Threads, NEW q \in Buffers, OnlyThese(t, q),
         NEW s, NEW s2, NEW c2,
         \/ Views(t, s, s, None) /\ RecvOf(q) = None /\ Views(t, None, None, None)' /\ RecvOf(q)' = s
         \/ /\ Views(t, None, None, None) /\ RecvOf(q) = s
            /\ Views(t, s2, s2, c2)' /\ RecvOf(q)' = None
            /\ (s2 = s \/ (s2 = None /\ (s = None \/ Gone(s)))) /\ c2 \in {None, s2}
  PROVE  Good
<1>1. t \in Parties /\ q \in Parties /\ q \notin Threads
  BY ConstantsOK DEF Parties
<1>2. CASE Views(t, s, s, None) /\ RecvOf(q) = None /\ Views(t, None, None, None)' /\ RecvOf(q)' = s
  <2>1. /\ Reads(t) = s /\ Speaks(t) = s /\ Calling(t) = None /\ Reads(q) = None /\ Speaks(q) = None
        /\ Reads(t)' = None /\ Speaks(t)' = None /\ Calling(t)' = None
        /\ Reads(q)' = s /\ Speaks(q)' = s
    BY <1>1, <1>2 DEF Views, Reads, Speaks
  <2>2. OneReader' /\ Heard
    <3>1. OneReader'
      BY <2>1, ReadersStep DEF Serial
    <3>2. Heard
      BY <1>1, <2>1 DEF OnlyThese, Heard
    <3> QED
      BY <3>1, <3>2
  <2> QED
    BY <2>1, <2>2, HandStep DEF Good
<1>3. CASE /\ Views(t, None, None, None) /\ RecvOf(q) = s
           /\ Views(t, s2, s2, c2)' /\ RecvOf(q)' = None
           /\ (s2 = s \/ (s2 = None /\ (s = None \/ Gone(s)))) /\ c2 \in {None, s2}
  <2>1. /\ Reads(t) = None /\ Speaks(t) = None /\ Calling(t) = None /\ Reads(q) = s /\ Speaks(q) = s
        /\ Reads(t)' = s2 /\ Speaks(t)' = s2 /\ Calling(t)' = c2
        /\ Reads(q)' = None /\ Speaks(q)' = None
    BY <1>1, <1>3 DEF Views, Reads, Speaks
  <2>2. OneReader' /\ Heard
    <3>1. OneReader'
      BY <1>3, <2>1, ReadersStep DEF Serial
    <3>2. Heard
      BY <1>1, <1>3, <2>1 DEF OnlyThese, Heard
    <3> QED
      BY <3>1, <3>2
  <2>3. CASE s2 = s \/ s = None
    BY <1>3, <2>1, <2>2, <2>3, HandStep DEF Good
  <2>4. CASE s2 = None /\ s # None
    <3>1. q # t
      BY <1>1
    <3> QED
      BY <1>3, <2>1, <2>2, <2>4, <3>1, EndStep DEF Good
  <2> QED
    BY <1>3, <2>3, <2>4
<1> QED
  BY <1>2, <1>3

\* A step that leaves what every buffer receives for as it is.
LEMMA AloneThese ==
  ASSUME ConnFacts, ConnFacts', NEW t \in Threads, OthersSame(t), FlagsUp,
         \/ UNCHANGED <<heap, buf, io>>
         \/ \E q \in Buffers : OtherBuffers(q) /\ RecvOf(q)' = RecvOf(q)
  PROVE  OnlyThese(t, t)
<1>1. CASE UNCHANGED <<heap, buf, io>>
  BY <1>1, OnlyTheseFrame DEF OtherBuffers
<1>2. ASSUME NEW q \in Buffers, OtherBuffers(q), RecvOf(q)' = RecvOf(q) PROVE OnlyThese(t, t)
  <2>1. OnlyThese(t, q) /\ q \notin Threads
    BY <1>2, OnlyTheseFrame, ConstantsOK
  <2> QED
    BY <1>2, <2>1 DEF OnlyThese, Reads, Speaks
<1> QED
  BY <1>1, <1>2

\* Who means a socket by a handle that finds nothing means one that is out of the table.
LEMMA GoneSocket ==
  ASSUME ConnFacts, NEW h \in Handles, NEW s \in Sockets, Claimed(h, s), table[h] = None
  PROVE  Gone(s)
BY ConstantsOK DEF Gone, Claimed, ConnFacts, ConnInv, OneToOne

-----------------------------------------------------------------------------
(* Action by action.                                                       *)

LEMMA AddIndexGood ==
  ASSUME Serial, ConnFacts', NEW t \in Threads, AddIndex(t)
  PROVE  Good
<1> USE DEF At
<1>1. /\ TypeOK /\ ConnFacts /\ thr[t].pc = "add_index"
      /\ UNCHANGED sock /\ UNCHANGED <<heap, buf, io>>
  BY ThreadFacts DEF Serial, AddIndex, bufVars
<1>2. OthersSame(t) /\ thr'[t].pc \in {"add_insert", "idle", "reset"}
  BY <1>1, IndexMoves, ReturnMoves, GotoMoves, MovedSame DEF AddIndex, FreeIndexes, PCs
<1>3. OnlyThese(t, t)
  BY <1>1, <1>2, FlagsSame, AloneThese
<1>4. Views(t, None, None, None) /\ Views(t, None, None, None)'
  BY <1>1, <1>2, ThreadViews, ThreadViewsNext DEF ViewsAt
<1> QED
  BY <1>3, <1>4, AloneGood

\* The accepted socket that a worker inserts becomes a connection that may call back.
LEMMA AddInsertGood ==
  ASSUME Serial, ConnFacts', NEW t \in Threads, AddInsert(t)
  PROVE  Good
<1> USE DEF At
<1>1. /\ TypeOK /\ ConnFacts /\ ConnFacts' /\ thr[t].pc = "add_insert"
      /\ UNCHANGED sock /\ UNCHANGED <<heap, buf, io>>
  BY ThreadFacts DEF Serial, AddInsert, bufVars
<1>2. Views(t, None, None, None)
  BY <1>1, ThreadViews DEF ViewsAt
<1>3. CASE t \in Users
  <2>1. OthersSame(t) /\ thr'[t].pc = "idle"
    BY <1>1, <1>3, ReturnMoves, MovedSame DEF AddInsert
  <2>2. OnlyThese(t, t)
    BY <1>1, <2>1, FlagsSame, AloneThese
  <2>3. Views(t, None, None, None)'
    BY <1>1, <2>1, ThreadViewsNext DEF ViewsAt
  <2> QED
    BY <1>2, <2>2, <2>3, AloneGood
<1>4. CASE t \notin Users
  <2>1. OthersSame(t) /\ thr'[t].pc = "set_accepted" /\ thr'[t].a = thr[t].a
    BY <1>1, <1>4, GotoMoves, MovedSame DEF AddInsert, PCs
  <2>2. OnlyThese(t, t)
    BY <1>1, <2>1, FlagsSame, AloneThese
  <2>3. Views(t, thr[t].a, thr[t].a, None)'
    BY <1>1, <2>1, ThreadViewsNext DEF ViewsAt
  <2>4. thr[t].a # None /\ Unread(thr[t].a)
    <3>1. Private(t) /\ PrivateOK(t) /\ thr[t].a # None
      BY <1>1, ThreadFacts, PrivateSocket DEF Private, ConnFacts, ConnInv
    <3>2. \A u \in Threads : Serves(u) # thr[t].a
      <4>1. Serves(t) = None
        BY <1>2 DEF Views
      <4>2. \A u \in Threads : ServedOK(u)
        BY <1>1, ServesAlways DEF ServesRight
      <4> QED
        BY <3>1, <4>1, <4>2 DEF ServedOK, PrivateOK
    <3>3. \A b \in Buffers : RecvOf(b) # thr[t].a
      BY <3>1 DEF RecvOf, PrivateOK
    <3> QED
      BY <3>1, <3>2, <3>3 DEF Unread, Reads, Parties
  <2> QED
    BY <1>2, <2>1, <2>2, <2>3, <2>4, AloneGood
<1> QED
  BY <1>3, <1>4

LEMMA RemoveGood ==
  ASSUME Serial, ConnFacts', NEW t \in Threads, RemoveErase(t) \/ RemoveIndex(t)
  PROVE  Good
<1> USE DEF At
<1>1. /\ TypeOK /\ ConnFacts /\ ConnFacts' /\ thr[t].pc \in {"remove", "destroy_index"}
      /\ sock' = sock /\ UNCHANGED <<heap, buf, io>>
  BY ThreadFacts DEF Serial, RemoveErase, RemoveIndex, bufVars
<1>2. Views(t, Serves(t), None, None)
  BY <1>1, ThreadViews DEF ViewsAt
<1>3. ASSUME AfterRemove(t), table[thr[t].rh] = None PROVE Good
  <2>1. OthersSame(t) /\ thr'[t].pc \in {"reset", "idle"}
    BY <1>1, <1>3, AfterRemoveMoves, MovedSame
  <2>2. OnlyThese(t, t)
    BY <1>1, <2>1, FlagsSame, AloneThese
  <2>3. Views(t, None, None, None)'
    BY <1>1, <2>1, ThreadViewsNext DEF ViewsAt
  <2>4. Serves(t) = None \/ Gone(Serves(t))
    <3> SUFFICES ASSUME Serves(t) # None PROVE Gone(Serves(t))
      OBVIOUS
    <3>1. t \in Workers /\ t \notin Users
      <4>1. t \in Users => Views(t, None, None, None)
        BY <1>1, ThreadViews DEF ViewsAt
      <4> QED
        BY <4>1 DEF Views, Threads
    <3>2. LocalsOK(t) /\ WorkerPart(t) /\ ServedOK(t)
      BY <1>1, <3>1, ThreadFacts, ServesAlways DEF ServesRight
    <3>3. thr[t].rh \in Handles /\ Serves(t) \in Sockets
      BY <1>1, <3>2 DEF LocalsOK, ServedOK
    <3>4. Mine(t, thr[t].rh, Serves(t))
      <4>1. CASE thr[t].b # None
        BY <1>1, <3>1, <3>2, <4>1, ThreadViews
           DEF ViewsAt, Mine, WorkerPart, AcceptPart, ReadPCs, RemovePCs
      <4>2. CASE thr[t].b = None
        <5>1. ListenerPart(t) \/ ConnectionPart(t)
          BY <1>1, <3>2, <4>2 DEF WorkerPart, ReadPCs, RemovePCs
        <5> QED
          BY <1>1, <3>1, <4>2, <5>1, ThreadViews
             DEF ViewsAt, Mine, ListenerPart, ConnectionPart, RemovePCs
      <4> QED
        BY <4>1, <4>2
    <3> QED
      BY <1>1, <1>3, <3>3, <3>4, GoneSocket DEF Claimed
  <2> QED
    BY <1>2, <2>2, <2>3, <2>4, AloneGood
<1>4. CASE Goto(t, "destroy_index")
  <2>1. /\ OthersSame(t) /\ thr'[t].pc = "destroy_index" /\ thr'[t].a = thr[t].a /\ thr'[t].s = thr[t].s
        /\ thr'[t].b = thr[t].b
    BY <1>1, <1>4, GotoMoves, MovedSame DEF PCs
  <2>2. OnlyThese(t, t)
    BY <1>1, <2>1, FlagsSame, AloneThese
  <2>3. Views(t, Serves(t), None, None)'
    BY <1>1, <2>1, ThreadViewsNext DEF ViewsAt
  <2>4. Serves(t)' = Serves(t)
    <3>1. CASE t \in Users
      <4>1. Views(t, None, None, None) /\ Views(t, None, None, None)'
        BY <1>1, <2>1, <3>1, ThreadViews, ThreadViewsNext DEF ViewsAt
      <4> QED
        BY <4>1 DEF Views
    <3>2. CASE t \in Workers
      BY <1>1, <2>1, <3>2, ThreadViews, ThreadViewsNext DEF ViewsAt
    <3> QED
      BY <3>1, <3>2 DEF Threads
  <2> QED
    BY <1>2, <2>2, <2>3, <2>4, AloneGood
<1>5. CASE RemoveErase(t)
  BY <1>3, <1>4, <1>5 DEF RemoveErase
<1>6. CASE RemoveIndex(t)
  <2>1. LocalsOK(t)
    BY <1>1, ThreadFacts
  <2>2. thr[t].rh \in Handles /\ Owns(t, thr[t].rh)
    BY <1>1, <1>6, <2>1 DEF RemoveIndex, LocalsOK, Owns
  <2>3. table[thr[t].rh] = None
    BY <1>1, <2>2 DEF ConnFacts, IInv, IndexOwnership
  <2> QED
    BY <1>3, <1>6, <2>3 DEF RemoveIndex
<1> QED
  BY <1>5, <1>6

LEMMA CallGood ==
  ASSUME Serial, ConnFacts', NEW t \in Users, Call(t)
  PROVE  Good
<1> USE DEF At
<1>1. /\ t \in Threads /\ TypeOK /\ ConnFacts /\ ConnFacts' /\ thr[t] = Idle
      /\ UNCHANGED <<heap, buf, io>>
  BY ThreadFacts DEF Serial, Call, TcpCreate, TcpDestroy, TcpListen, TcpConnect, TcpSend, GetTcpSocket,
         TypeOK, Threads, bufVars
<1>2. FlagsUp
  <2>1. CASE TcpCreate(t)
    <3>1. [NewSocket EXCEPT !.bind = TRUE] \in Flags
      BY DEF NewSocket, Flags
    <3> QED
      BY <1>1, <2>1, <3>1, NotFree, FlagsSet DEF TcpCreate
  <2>2. CASE ~TcpCreate(t)
    BY <2>2, FlagsSame DEF Call, TcpDestroy, TcpListen, TcpConnect, TcpSend, GetTcpSocket
  <2> QED
    BY <2>1, <2>2
<1>3. OthersSame(t) /\ thr'[t].pc \in {"add_index", "remove", "listen", "connect", "send"}
  <2>1. CASE TcpCreate(t)
    <3>1. PICK x \in FreeSockets : thr' = [thr EXCEPT ![t].pc = "add_index", ![t].a = x]
      BY <2>1 DEF TcpCreate
    <3>2. x \in Sockets
      BY NotFree
    <3>3. Moved(t, "add_index", thr[t].h, thr[t].s, x, thr[t].ah, thr[t].rh, thr[t].b, thr[t].k)
      BY <1>1, <3>1, <3>2, CreateMoves
    <3> QED
      BY <1>1, <3>3, MovedSame
  <2>2. ASSUME NEW h \in told, TcpDestroy(t, h)
        PROVE  OthersSame(t) /\ thr'[t].pc = "remove"
    <3>1. h \in Maybe(Handles) /\ "remove" \in PCs \ {"idle"}
      BY <1>1 DEF TypeOK, Maybe, PCs
    <3>2. Moved(t, "remove", thr[t].h, thr[t].s, thr[t].a, thr[t].ah, h, thr[t].b, thr[t].k)
      BY <1>1, <2>2, <3>1, DestroyMoves DEF TcpDestroy
    <3> QED
      BY <1>1, <3>2, MovedSame
  <2>3. ASSUME NEW h \in told, NEW call \in {"listen", "connect", "send"}, GetTcpSocket(t, call, h)
        PROVE  OthersSame(t) /\ thr'[t].pc = call
    <3>1. h \in Handles /\ table[h] \in Sockets /\ call \in PCs \ {"idle"}
      BY <1>1, <2>3 DEF TypeOK, GetTcpSocket, PCs, Maybe
    <3>2. Moved(t, call, h, table[h], thr[t].a, thr[t].ah, thr[t].rh, thr[t].b, thr[t].k)
      BY <1>1, <2>3, <3>1, FindMoves DEF GetTcpSocket
    <3> QED
      BY <1>1, <3>2, MovedSame
  <2> QED
    BY <2>1, <2>2, <2>3 DEF Call, TcpListen, TcpConnect, TcpSend
<1>4. OnlyThese(t, t)
  BY <1>1, <1>2, <1>3, AloneThese
<1>5. Views(t, None, None, None) /\ Views(t, None, None, None)'
  BY <1>1, <1>3, IdleFields, ThreadViews, ThreadViewsNext DEF ViewsAt
<1> QED
  BY <1>1, <1>4, <1>5, AloneGood

\* TcpListen and TcpSend have nothing to do with what connections call back.
LEMMA ListenSendGood ==
  ASSUME Serial, ConnFacts', NEW t \in Threads, Listen(t) \/ ArmAccept(t) \/ Send(t)
  PROVE  Good
<1> USE DEF At
<1>1. /\ TypeOK /\ ConnFacts /\ ConnFacts' /\ thr[t].pc \in {"listen", "arm", "send"} /\ t \in Users
      /\ thr[t].s \in Sockets
  <2>1. LocalsOK(t) /\ TypeOK /\ thr[t].pc \in {"listen", "arm", "send"}
    BY ThreadFacts DEF Serial, Listen, ArmAccept, Send
  <2> QED
    BY <2>1 DEF LocalsOK, WorkerPCs, Serial
<1>2. FlagsUp
  <2>1. CASE Listen(t)
    <3>1. CASE sock' = sock
      BY <3>1, FlagsSame
    <3>2. CASE sock' = [sock EXCEPT ![thr[t].s].listen = TRUE]
      <4>1. /\ [sock[thr[t].s] EXCEPT !.listen = TRUE] \in Flags
            /\ [sock[thr[t].s] EXCEPT !.listen = TRUE].listen
            /\ [sock[thr[t].s] EXCEPT !.listen = TRUE].connect = sock[thr[t].s].connect
        BY <1>1 DEF TypeOK, Flags
      <4> QED
        BY <1>1, <3>2, <4>1, FlagsSet
    <3> QED
      BY <2>1, <3>1, <3>2 DEF Listen
  <2>2. CASE ArmAccept(t)
    BY <1>1, <2>2, FlagsAccept, FlagsSame DEF ArmAccept
  <2>3. CASE Send(t)
    BY <2>3, FlagsSame DEF Send
  <2> QED
    BY <2>1, <2>2, <2>3
<1>3. OthersSame(t) /\ thr'[t].pc \in {"arm", "idle"}
  <2>1. CASE Listen(t)
    BY <1>1, <2>1, GotoMoves, ReturnMoves, MovedSame DEF Listen, PCs
  <2>2. CASE ArmAccept(t) /\ ~Return(t)
    BY <1>1, <2>2, FieldTypes DEF ArmAccept, TypeOK, OthersSame, Locals
  <2>3. CASE Return(t)
    BY <1>1, <2>3, ReturnMoves, MovedSame
  <2> QED
    BY <2>1, <2>2, <2>3 DEF Send
<1>4. \/ UNCHANGED <<heap, buf, io>>
      \/ \E q \in Buffers : OtherBuffers(q) /\ RecvOf(q)' = RecvOf(q)
  <2>1. ASSUME NEW q \in Buffers \ heap, NEW type \in {"accept", "send"}, NEW h, NEW s, NEW a,
               Submit(q, type, h, s, a)
        PROVE  OtherBuffers(q) /\ RecvOf(q)' = RecvOf(q)
    BY <1>1, <2>1, BuffersStep, NoReceive
  <2> QED
    BY <2>1 DEF Listen, ArmAccept, Send, AsyncTcpAccept, bufVars
<1>5. OnlyThese(t, t)
  BY <1>1, <1>2, <1>3, <1>4, AloneThese
<1>6. Views(t, None, None, None) /\ Views(t, None, None, None)'
  BY <1>1, <1>3, ThreadViews, ThreadViewsNext DEF ViewsAt
<1> QED
  BY <1>1, <1>5, <1>6, AloneGood

\* TcpConnect makes a connection that nobody reads yet: a listener or a connected socket refuses.
LEMMA ConnectGood ==
  ASSUME Serial, ConnFacts', NEW t \in Threads, Connect(t)
  PROVE  Good
<1> USE DEF At
<1>1. /\ TypeOK /\ ConnFacts /\ ConnFacts' /\ thr[t].pc = "connect" /\ t \in Users
      /\ thr[t].s \in Sockets /\ thr[t].s # None /\ UNCHANGED <<heap, buf, io>>
  <2>1. LocalsOK(t) /\ TypeOK /\ thr[t].pc = "connect" /\ UNCHANGED <<heap, buf, io>>
    BY ThreadFacts DEF Serial, Connect, bufVars
  <2> QED
    BY <2>1, ConstantsOK DEF LocalsOK, WorkerPCs, Serial
<1>2. Views(t, None, None, None)
  BY <1>1, ThreadViews DEF ViewsAt
<1>3. CASE Return(t) /\ sock' = sock
  <2>1. OthersSame(t) /\ thr'[t].pc = "idle"
    BY <1>1, <1>3, ReturnMoves, MovedSame
  <2>2. OnlyThese(t, t)
    BY <1>1, <1>3, <2>1, FlagsSame, AloneThese
  <2>3. Views(t, None, None, None)'
    BY <1>1, <2>1, ThreadViewsNext DEF ViewsAt
  <2> QED
    BY <1>1, <1>2, <2>2, <2>3, AloneGood
<1>4. CASE /\ ~sock[thr[t].s].connect
           /\ sock' = [sock EXCEPT ![thr[t].s].connect = TRUE]
           /\ thr' = [thr EXCEPT ![t].pc = "recv_new", ![t].a = thr[t].s, ![t].ah = thr[t].h]
  <2>1. OthersSame(t) /\ thr'[t].pc = "recv_new" /\ thr'[t].a = thr[t].s
    <3>1. Moved(t, "recv_new", thr[t].h, thr[t].s, thr[t].s, thr[t].h, thr[t].rh, thr[t].b, thr[t].k)
      BY <1>1, <1>4, ConnectMoves
    <3> QED
      BY <1>1, <3>1, MovedSame
  <2>2. FlagsUp
    <3>1. /\ [sock[thr[t].s] EXCEPT !.connect = TRUE] \in Flags
          /\ [sock[thr[t].s] EXCEPT !.connect = TRUE].connect
          /\ [sock[thr[t].s] EXCEPT !.connect = TRUE].listen = sock[thr[t].s].listen
      BY <1>1 DEF TypeOK, Flags
    <3> QED
      BY <1>1, <1>4, <3>1, FlagsSet
  <2>3. OnlyThese(t, t)
    BY <1>1, <2>1, <2>2, AloneThese
  <2>4. Views(t, thr[t].a, thr[t].a, None)'
    BY <1>1, <2>1, ThreadViewsNext DEF ViewsAt
  <2>5. Unread(thr[t].s)
    <3>1. \A u \in Threads : Private(u) => thr[u].a # thr[t].s
      BY <1>1 DEF ConnFacts, ConnInv, PrivateInv, PrivateOK
    <3>2. \A u \in Threads : Serves(u) # thr[t].s
      BY <1>1, <1>4, <3>1, ServesAlways DEF ServesRight, ServedOK
    <3>3. \A b \in Buffers : RecvOf(b) # thr[t].s
      BY <1>1, <1>4 DEF RecvOf, ConnFacts, ConnInv, FlagsInv
    <3> QED
      BY <3>2, <3>3 DEF Unread, Reads, Parties
  <2> QED
    BY <1>1, <1>2, <2>1, <2>3, <2>4, <2>5, AloneGood
<1> QED
  BY <1>3, <1>4 DEF Connect

\* The thread gives the connection to its first receive, loses it, or begins to report the error.
LEMMA RecvNewGood ==
  ASSUME Serial, ConnFacts', NEW t \in Threads, RecvNew(t)
  PROVE  Good
<1> USE DEF At
<1>1. /\ TypeOK /\ ConnFacts /\ ConnFacts' /\ thr[t].pc = "recv_new" /\ FlagsUp
      /\ thr[t].a \in Sockets /\ thr[t].a # None /\ thr[t].ah \in Handles
      /\ t \notin Users => t \in Workers /\ thr[t].b # None
  <2>1. LocalsOK(t) /\ TypeOK /\ thr[t].pc = "recv_new" /\ FlagsUp
    BY ThreadFacts, FlagsSame DEF Serial, RecvNew
  <2> QED
    BY <2>1, ConstantsOK DEF LocalsOK, Serial, Threads
<1>2. Views(t, thr[t].a, thr[t].a, None)
  BY <1>1, ThreadViews DEF ViewsAt
<1>3. ASSUME Return(t) \/ Goto(t, "reset")
      PROVE  OthersSame(t) /\ thr'[t].pc \in {"idle", "reset"} /\ Views(t, None, None, None)'
  <2>1. OthersSame(t) /\ thr'[t].pc \in {"idle", "reset"}
    BY <1>1, <1>3, ReturnMoves, GotoMoves, MovedSame DEF PCs
  <2> QED
    BY <1>1, <2>1, ThreadViewsNext DEF ViewsAt
<1>4. ASSUME NEW b \in Buffers \ heap, AsyncTcpRecv(b, thr[t].ah, thr[t].a), Return(t) \/ Goto(t, "reset")
      PROVE  Good
  <2>1. OtherBuffers(b) /\ RecvOf(b) = None /\ RecvOf(b)' = thr[t].a
    BY <1>1, <1>4, BuffersStep, NoReceive DEF AsyncTcpRecv
  <2>2. OnlyThese(t, b)
    BY <1>1, <1>3, <1>4, <2>1, OnlyTheseFrame
  <2> QED
    BY <1>2, <1>3, <1>4, <2>1, <2>2, PassGood
<1>5. ASSUME t \in Users, Return(t), UNCHANGED bufVars PROVE Good
  <2>1. OnlyThese(t, t)
    BY <1>1, <1>3, <1>5, AloneThese DEF bufVars
  <2> QED
    BY <1>1, <1>2, <1>3, <1>5, <2>1, AloneGood
<1>6. ASSUME t \notin Users, UNCHANGED bufVars,
             thr' = [thr EXCEPT ![t].pc = "on_error", ![t].rh = thr[t].ah]
      PROVE  Good
  <2>1. Moved(t, "on_error", thr[t].h, thr[t].s, thr[t].a, thr[t].ah, thr[t].ah, thr[t].b, thr[t].k)
    <3>1. "on_error" \in PCs \ {"idle"} /\ thr[t].ah \in Maybe(Handles)
      BY <1>1 DEF PCs, Maybe
    <3> QED
      BY <1>1, <1>6, <3>1, DestroyMoves
  <2>2. OthersSame(t) /\ thr'[t].pc = "on_error" /\ thr'[t].a = thr[t].a /\ thr'[t].b # None
    <3>1. thr[t].b # None
      BY <1>1, <1>6
    <3> QED
      BY <2>1, <3>1, MovedSame
  <2>3. OnlyThese(t, t)
    BY <1>1, <1>6, <2>2, AloneThese DEF bufVars
  <2>4. Views(t, thr[t].a, thr[t].a, thr[t].a)'
    BY <1>1, <2>2, ThreadViewsNext DEF ViewsAt
  <2> QED
    BY <1>2, <2>2, <2>3, <2>4, AloneGood
<1> QED
  BY <1>4, <1>5, <1>6 DEF RecvNew

LEMMA AcceptedGood ==
  ASSUME Serial, ConnFacts', NEW t \in Threads, SetAccepted(t) \/ OnTcpAccepted(t)
  PROVE  Good
<1> USE DEF At
<1>1. /\ TypeOK /\ ConnFacts /\ ConnFacts' /\ thr[t].pc \in {"set_accepted", "on_accepted"}
      /\ thr[t].a \in Sockets /\ thr[t].a # None /\ UNCHANGED <<heap, buf, io>>
      /\ t \in Workers /\ thr[t].b # None /\ thr[t].ah \in Handles
  <2>1. LocalsOK(t) /\ TypeOK /\ thr[t].pc \in {"set_accepted", "on_accepted"} /\ UNCHANGED <<heap, buf, io>>
    BY ThreadFacts DEF Serial, SetAccepted, OnTcpAccepted, bufVars
  <2>2. t \in Workers
    BY <2>1 DEF LocalsOK, UserPCs, Threads
  <2> QED
    BY <2>1, <2>2, ConstantsOK DEF LocalsOK, Serial
<1>2. CASE SetAccepted(t)
  <2>1. Views(t, thr[t].a, thr[t].a, None)
    BY <1>1, <1>2, ThreadViews DEF ViewsAt, SetAccepted
  <2>2. FlagsUp
    <3>1. CASE sock' = sock
      BY <3>1, FlagsSame
    <3>2. CASE sock' = [sock EXCEPT ![thr[t].a].bind = TRUE, ![thr[t].a].connect = TRUE]
      <4>1. /\ [sock[thr[t].a] EXCEPT !.bind = TRUE, !.connect = TRUE] \in Flags
            /\ [sock[thr[t].a] EXCEPT !.bind = TRUE, !.connect = TRUE].connect
            /\ [sock[thr[t].a] EXCEPT !.bind = TRUE, !.connect = TRUE].listen = sock[thr[t].a].listen
        BY <1>1 DEF TypeOK, Flags
      <4>2. sock' = [sock EXCEPT ![thr[t].a] = [sock[thr[t].a] EXCEPT !.bind = TRUE, !.connect = TRUE]]
        BY <1>1, <3>2 DEF TypeOK
      <4> QED
        BY <1>1, <4>1, <4>2, FlagsSet
    <3> QED
      BY <1>2, <3>1, <3>2 DEF SetAccepted
  <2>3. CASE Goto(t, "on_accepted")
    <3>1. OthersSame(t) /\ thr'[t].pc = "on_accepted" /\ thr'[t].a = thr[t].a
      BY <1>1, <2>3, GotoMoves, MovedSame DEF PCs
    <3>2. OnlyThese(t, t)
      BY <1>1, <2>2, <3>1, AloneThese
    <3>3. Views(t, thr[t].a, thr[t].a, thr[t].a)'
      BY <1>1, <3>1, ThreadViewsNext DEF ViewsAt
    <3> QED
      BY <2>1, <3>1, <3>2, <3>3, AloneGood
  <2>4. CASE thr' = [thr EXCEPT ![t].pc = "remove", ![t].rh = thr[t].ah]
    <3>1. Moved(t, "remove", thr[t].h, thr[t].s, thr[t].a, thr[t].ah, thr[t].ah, thr[t].b, thr[t].k)
      BY <1>1, <2>4, DestroyMoves DEF PCs, Maybe
    <3>2. OthersSame(t) /\ thr'[t].pc = "remove" /\ thr'[t].a = thr[t].a /\ thr'[t].b # None
      BY <1>1, <3>1, MovedSame
    <3>3. OnlyThese(t, t)
      BY <1>1, <2>2, <3>2, AloneThese
    <3>4. Views(t, thr[t].a, None, None)'
      BY <1>1, <3>2, ThreadViewsNext DEF ViewsAt
    <3> QED
      BY <1>1, <2>1, <3>2, <3>3, <3>4, AloneGood
  <2> QED
    BY <1>2, <2>3, <2>4 DEF SetAccepted
<1>3. CASE OnTcpAccepted(t)
  <2>1. Views(t, thr[t].a, thr[t].a, thr[t].a)
    BY <1>1, <1>3, ThreadViews DEF ViewsAt, OnTcpAccepted
  <2>2. OthersSame(t) /\ thr'[t].pc = "recv_new" /\ thr'[t].a = thr[t].a
    BY <1>1, <1>3, GotoMoves, MovedSame DEF PCs, OnTcpAccepted
  <2>3. OnlyThese(t, t)
    BY <1>1, <1>3, <2>2, FlagsSame, AloneThese DEF OnTcpAccepted
  <2>4. Views(t, thr[t].a, thr[t].a, None)'
    BY <1>1, <2>2, ThreadViewsNext DEF ViewsAt
  <2> QED
    BY <2>1, <2>2, <2>3, <2>4, AloneGood
<1> QED
  BY <1>2, <1>3

\* Arming the accept again is no connection's business, nor is the error of a listener.
LEMMA ResetGood ==
  ASSUME Serial, ConnFacts', NEW t \in Threads, Reset(t)
  PROVE  Good
<1> USE DEF At
<1>1. /\ TypeOK /\ ConnFacts /\ ConnFacts' /\ thr[t].pc = "reset" /\ t \in Workers
      /\ thr[t].b \in Buffers /\ thr[t].h \in Handles /\ RecvOf(thr[t].b) = None
      /\ sock[thr[t].s].listen /\ thr[t].s \in Sockets
  <2>1. LocalsOK(t) /\ PartOK(t) /\ TypeOK /\ thr[t].pc = "reset"
    BY ThreadFacts DEF Serial, Reset
  <2>2. t \in Workers /\ t \notin Users
    BY <2>1 DEF LocalsOK, UserPCs, Threads
  <2>3. thr[t].b \in Buffers /\ thr[t].h \in Handles /\ thr[t].s \in Sockets
    BY <2>1, <2>2 DEF LocalsOK
  <2>4. sock[thr[t].s].listen
    BY <2>1, <2>2, <2>3, ConstantsOK DEF PartOK, WorkerPart, AcceptPart, ReadPCs
  <2> QED
    BY <2>1, <2>2, <2>3, <2>4, NoReceive DEF Serial
<1>2. Views(t, None, None, None)
  BY <1>1, ThreadViews DEF ViewsAt
<1>3. PICK b \in Buffers : b = thr[t].b
  BY <1>1
<1>4. RecvOf(b) = None
  BY <1>1, <1>3
<1>5. ASSUME OthersSame(t), FlagsUp, OtherBuffers(b), RecvOf(b)' = None, Views(t, None, None, None)'
      PROVE  Good
  <2>1. OnlyThese(t, t)
    BY <1>1, <1>4, <1>5, AloneThese
  <2> QED
    BY <1>1, <1>2, <1>5, <2>1, AloneGood
<1>6. CASE AsyncTcpAccept(b, thr[t].h, thr[t].s) /\ Return(t)
  <2>1. OthersSame(t) /\ thr'[t].pc = "idle"
    BY <1>1, <1>6, ReturnMoves, MovedSame
  <2>2. Views(t, None, None, None)'
    BY <1>1, <2>1, ThreadViewsNext DEF ViewsAt
  <2>3. OtherBuffers(b) /\ RecvOf(b)' = None
    BY <1>1, <1>6, BuffersStep DEF AsyncTcpAccept
  <2>4. FlagsUp
    BY <1>1, <1>6, FlagsAccept
  <2> QED
    BY <1>5, <2>1, <2>2, <2>3, <2>4
<1>7. CASE /\ Delete(b) /\ sock' = sock
           /\ thr' = [thr EXCEPT ![t].pc = "on_error", ![t].rh = thr[t].h, ![t].b = None]
  <2>1. Moved(t, "on_error", thr[t].h, thr[t].s, thr[t].a, thr[t].ah, thr[t].h, None, thr[t].k)
    BY <1>1, <1>7, ErrorMoves DEF Maybe
  <2>2. OthersSame(t) /\ thr'[t].pc = "on_error" /\ thr'[t].s = thr[t].s /\ thr'[t].b = None
    BY <1>1, <2>1, MovedSame
  <2>3. Serves(t)' = None /\ Views(t, Serves(t), Serves(t), Serves(t))'
    BY <1>1, <1>7, <2>2, ThreadViewsNext DEF ViewsAt
  <2>4. Views(t, None, None, None)'
    BY <2>3 DEF Views
  <2>5. OtherBuffers(b) /\ RecvOf(b)' = None
    BY <1>1, <1>7, BuffersStep
  <2> QED
    BY <1>5, <1>7, <2>2, <2>4, <2>5, FlagsSame
<1> QED
  BY <1>3, <1>6, <1>7 DEF Reset

\* OnTcpError and OnTcpDisconnected are the last callbacks of a connection.
LEMMA LastCallbackGood ==
  ASSUME Serial, ConnFacts', NEW t \in Threads, OnTcpError(t) \/ OnTcpDisconnected(t)
  PROVE  Good
<1> USE DEF At
<1>1. /\ TypeOK /\ ConnFacts /\ ConnFacts' /\ thr[t].pc \in {"on_error", "on_disconnected"}
      /\ t \in Workers /\ FlagsUp /\ sock' = sock /\ UNCHANGED <<heap, buf, io>>
  <2>1. /\ LocalsOK(t) /\ TypeOK /\ thr[t].pc \in {"on_error", "on_disconnected"}
        /\ sock' = sock /\ UNCHANGED <<heap, buf, io>>
    BY ThreadFacts DEF Serial, OnTcpError, OnTcpDisconnected, bufVars
  <2> QED
    BY <2>1, FlagsSame DEF LocalsOK, UserPCs, Serial, Threads
<1>2. /\ OthersSame(t) /\ thr'[t].pc = "remove" /\ thr'[t].a = thr[t].a /\ thr'[t].s = thr[t].s
      /\ thr'[t].b = thr[t].b
  BY <1>1, GotoMoves, MovedSame DEF PCs, OnTcpError, OnTcpDisconnected
<1>3. OnlyThese(t, t)
  BY <1>1, <1>2, AloneThese
<1>4. Views(t, Serves(t), Serves(t), Serves(t))
  BY <1>1, ThreadViews DEF ViewsAt, Views
<1>5. Views(t, Serves(t), None, None)'
  BY <1>1, <1>2, ThreadViewsNext DEF ViewsAt
<1>6. Serves(t)' = Serves(t)
  <2>1. CASE thr[t].pc = "on_error"
    BY <1>1, <1>2, <2>1, ThreadViews, ThreadViewsNext DEF ViewsAt
  <2>2. CASE thr[t].pc = "on_disconnected"
    <3>1. LocalsOK(t) /\ PartOK(t) /\ t \notin Users
      BY <1>1, ThreadFacts, ConstantsOK
    <3>2. thr[t].b = None /\ ~sock[thr[t].s].listen
      BY <1>1, <2>2, <3>1 DEF LocalsOK, PartOK, WorkerPart, ConnectionPart, ReadPCs, ConnFacts, ConnInv,
                              FlagsInv
    <3>3. Serves(t) = thr[t].s
      BY <1>1, <2>2, ThreadViews DEF ViewsAt, Views
    <3> QED
      BY <1>1, <1>2, <3>2, <3>3, ThreadViewsNext DEF ViewsAt
  <2> QED
    BY <1>1, <2>1, <2>2
<1>7. CASE Serves(t) = None
  BY <1>3, <1>4, <1>5, <1>6, <1>7, AloneGood
<1>8. CASE Serves(t) # None
  BY <1>3, <1>4, <1>5, <1>6, <1>8, AloneGood
<1> QED
  BY <1>7, <1>8

\* A chunk is parsed, its packets are called back, and the receive is started again.
LEMMA ReadGood ==
  ASSUME Serial, ConnFacts', NEW t \in Threads, OnRecv(t) \/ OnTcpReceived(t) \/ Rearm(t)
  PROVE  Good
<1> USE DEF At
<1>1. /\ TypeOK /\ ConnFacts /\ ConnFacts' /\ thr[t].pc \in {"parse", "on_received", "rearm"}
      /\ t \in Workers /\ FlagsUp /\ thr[t].b \in Buffers /\ thr[t].h \in Handles
      /\ thr[t].s \in Sockets /\ thr[t].s # None /\ sock' = sock /\ ~sock[thr[t].s].listen
  <2>1. /\ LocalsOK(t) /\ PartOK(t) /\ TypeOK /\ thr[t].pc \in {"parse", "on_received", "rearm"}
        /\ sock' = sock
    BY ThreadFacts DEF Serial, OnRecv, OnTcpReceived, Rearm
  <2>2. t \in Workers /\ t \notin Users
    BY <2>1 DEF LocalsOK, UserPCs, Threads
  <2>3. thr[t].b \in Buffers /\ thr[t].h \in Handles /\ thr[t].s \in Sockets /\ thr[t].s # None
    BY <2>1, <2>2, ConstantsOK DEF LocalsOK
  <2>4. ~sock[thr[t].s].listen
    BY <2>1, <2>2, <2>3 DEF PartOK, WorkerPart, ConnectionPart, ReadPCs, Serial, ConnFacts, ConnInv, FlagsInv
  <2> QED
    BY <2>1, <2>2, <2>3, <2>4, FlagsSame DEF Serial
<1>2. PICK b \in Buffers : b = thr[t].b
  BY <1>1
<1>3. RecvOf(b) = None
  BY <1>1, <1>2, NoReceive
<1>4. ASSUME thr[t].pc \in {"parse", "rearm"}, Delete(b),
             thr' = [thr EXCEPT ![t].pc = "on_error", ![t].rh = thr[t].h, ![t].b = None]
      PROVE  Good
  <2>1. Moved(t, "on_error", thr[t].h, thr[t].s, thr[t].a, thr[t].ah, thr[t].h, None, thr[t].k)
    BY <1>1, <1>4, ErrorMoves DEF Maybe
  <2>2. OthersSame(t) /\ thr'[t].pc = "on_error" /\ thr'[t].s = thr[t].s /\ thr'[t].b = None
    BY <1>1, <2>1, MovedSame
  <2>3. Serves(t)' = thr'[t].s /\ Views(t, Serves(t), Serves(t), Serves(t))'
    BY <1>1, <2>2, ThreadViewsNext DEF ViewsAt
  <2>4. Views(t, thr[t].s, thr[t].s, thr[t].s)'
    BY <2>3 DEF Views
  <2>5. Views(t, thr[t].s, thr[t].s, None)
    BY <1>1, <1>4, ThreadViews DEF ViewsAt
  <2>6. OtherBuffers(b) /\ RecvOf(b)' = None
    BY <1>1, <1>4, BuffersStep
  <2>7. OnlyThese(t, t)
    BY <1>1, <1>3, <2>2, <2>6, AloneThese
  <2> QED
    BY <2>2, <2>4, <2>5, <2>7, AloneGood
<1>5. ASSUME thr[t].pc = "parse", Goto(t, "on_received"), UNCHANGED bufVars PROVE Good
  <2>1. OthersSame(t) /\ thr'[t].pc = "on_received" /\ thr'[t].s = thr[t].s
    BY <1>1, <1>5, GotoMoves, MovedSame DEF PCs
  <2>2. OnlyThese(t, t)
    BY <1>1, <1>5, <2>1, AloneThese DEF bufVars
  <2>3. Views(t, thr[t].s, thr[t].s, None)
    BY <1>1, <1>5, ThreadViews DEF ViewsAt
  <2>4. Views(t, thr[t].s, thr[t].s, thr[t].s)'
    BY <1>1, <2>1, ThreadViewsNext DEF ViewsAt
  <2> QED
    BY <2>1, <2>2, <2>3, <2>4, AloneGood
<1>6. ASSUME thr[t].pc = "on_received", Goto(t, "rearm"), UNCHANGED bufVars PROVE Good
  <2>1. OthersSame(t) /\ thr'[t].pc = "rearm" /\ thr'[t].s = thr[t].s
    BY <1>1, <1>6, GotoMoves, MovedSame DEF PCs
  <2>2. OnlyThese(t, t)
    BY <1>1, <1>6, <2>1, AloneThese DEF bufVars
  <2>3. Views(t, thr[t].s, thr[t].s, thr[t].s)
    BY <1>1, <1>6, ThreadViews DEF ViewsAt
  <2>4. Views(t, thr[t].s, thr[t].s, None)'
    BY <1>1, <2>1, ThreadViewsNext DEF ViewsAt
  <2> QED
    BY <2>1, <2>2, <2>3, <2>4, AloneGood
<1>7. ASSUME thr[t].pc = "rearm", AsyncTcpRecv(b, thr[t].h, thr[t].s), Return(t) PROVE Good
  <2>1. OthersSame(t) /\ thr'[t].pc = "idle"
    BY <1>1, <1>7, ReturnMoves, MovedSame
  <2>2. Views(t, thr[t].s, thr[t].s, None)
    BY <1>1, <1>7, ThreadViews DEF ViewsAt
  <2>3. Views(t, None, None, None)'
    BY <1>1, <2>1, ThreadViewsNext DEF ViewsAt
  <2>4. OtherBuffers(b) /\ RecvOf(b)' = thr[t].s
    BY <1>1, <1>7, BuffersStep DEF AsyncTcpRecv
  <2>5. OnlyThese(t, b)
    BY <1>1, <2>1, <2>4, OnlyTheseFrame
  <2> QED
    BY <1>3, <2>2, <2>3, <2>4, <2>5, PassGood
<1> QED
  BY <1>2, <1>4, <1>5, <1>6, <1>7 DEF OnRecv, OnTcpReceived, Rearm

\* A completion passes its connection on to the worker that takes it, or gives it up.
LEMMA HandleGood ==
  ASSUME Serial, ConnFacts', NEW t \in Workers, Handle(t)
  PROVE  Good
<1> USE DEF At
<1>1. /\ t \in Threads /\ TypeOK /\ ConnFacts /\ ConnFacts' /\ thr[t] = Idle /\ FlagsUp
      /\ thr[t].pc = "idle" /\ thr[t].a = None
  BY ThreadFacts, IdleFields, FlagsSame
     DEF Serial, Handle, OnTcpAccept, OnTcpSend, OnTcpRecv, Completed, TypeOK, Threads
<1>2. Views(t, None, None, None)
  BY <1>1, ThreadViews DEF ViewsAt
<1>3. ASSUME NEW b \in Buffers, Delete(b), UNCHANGED thr, RecvOf(b) = None \/ Gone(RecvOf(b))
      PROVE  Good
  <2>1. OtherBuffers(b) /\ RecvOf(b)' = None
    BY <1>1, <1>3, BuffersStep
  <2>2. OthersSame(t) /\ thr'[t].pc = "idle"
    BY <1>1, <1>3 DEF OthersSame
  <2>3. OnlyThese(t, b)
    BY <1>1, <2>1, <2>2, OnlyTheseFrame
  <2>4. Views(t, None, None, None)'
    BY <1>1, <2>2, ThreadViewsNext DEF ViewsAt
  <2> QED
    BY <1>1, <1>2, <1>3, <2>1, <2>3, <2>4, PassGood
<1>4. ASSUME NEW b \in Buffers, OnTcpAccept(t, b), table[buf[b].handle] # None PROVE Good
  <2>1. /\ thr' = [thr EXCEPT ![t] = [Idle EXCEPT !.pc = "add_index", !.h = buf[b].handle,
                                        !.s = table[buf[b].handle], !.a = buf[b].accept,
                                        !.b = b, !.ok = (io[b] = "ok")]]
        /\ TakeAccepted(b) /\ io' = [io EXCEPT ![b] = "none"] /\ UNCHANGED heap
        /\ buf[b].type = "accept"
    BY <1>4 DEF OnTcpAccept, Completed
  <2>2. OthersSame(t) /\ thr'[t].pc = "add_index"
    <3>1. [Idle EXCEPT !.pc = "add_index", !.h = buf[b].handle, !.s = table[buf[b].handle],
                       !.a = buf[b].accept, !.b = b, !.ok = (io[b] = "ok")].pc = "add_index"
      BY DEF Idle
    <3> QED
      BY <1>1, <2>1, <3>1 DEF OthersSame, TypeOK
  <2>3. OtherBuffers(b) /\ RecvOf(b) = None /\ RecvOf(b)' = None
    BY <1>1, <2>1 DEF OtherBuffers, RecvOf, TakeAccepted, TypeOK
  <2>4. OnlyThese(t, t)
    BY <1>1, <2>2, <2>3, AloneThese
  <2>5. Views(t, None, None, None)'
    BY <1>1, <2>2, ThreadViewsNext DEF ViewsAt
  <2> QED
    BY <1>1, <1>2, <2>4, <2>5, AloneGood
<1>5. ASSUME NEW b \in Buffers, OnTcpRecv(t, b), table[buf[b].handle] # None PROVE Good
  <2> DEFINE h == buf[b].handle
             me == [Idle EXCEPT !.h = h, !.s = table[h]]
  <2>1. /\ b \in heap /\ io[b] # "none" /\ buf[b].type = "recv" /\ RecvOf(b) = table[h]
        /\ h \in Handles /\ table[h] \in Sockets /\ table[h] # None
    <3>1. b \in heap /\ io[b] # "none" /\ buf[b].type = "recv"
      BY <1>5 DEF OnTcpRecv, Completed
    <3> QED
      BY <1>1, <1>5, <3>1, FoundSocket DEF RecvOf
  <2>2. CASE Delete(b) /\ thr' = [thr EXCEPT ![t] = [me EXCEPT !.pc = "on_disconnected", !.rh = h]]
    <3>1. Moved(t, "on_disconnected", h, table[h], None, None, h, None, 0)
      BY <1>1, <2>1, <2>2, CloseMoves
    <3>2. OthersSame(t) /\ thr'[t].pc = "on_disconnected" /\ thr'[t].s = table[h]
      BY <1>1, <3>1, MovedSame
    <3>3. OtherBuffers(b) /\ RecvOf(b)' = None
      BY <1>1, <2>2, BuffersStep
    <3>4. OnlyThese(t, b)
      BY <1>1, <3>2, <3>3, OnlyTheseFrame
    <3>5. Views(t, thr[t].s, thr[t].s, thr[t].s)'
      BY <1>1, <3>2, ThreadViewsNext DEF ViewsAt
    <3> QED
      BY <1>1, <1>2, <2>1, <3>2, <3>3, <3>4, <3>5, PassGood
  <2>3. CASE /\ thr' = [thr EXCEPT ![t] = [me EXCEPT !.pc = "parse", !.b = b]]
             /\ io' = [io EXCEPT ![b] = "none"] /\ UNCHANGED <<heap, buf>>
    <3>1. Moved(t, "parse", h, table[h], None, None, None, b, 0)
      BY <1>1, <2>1, <2>3, ParseMoves
    <3>2. OthersSame(t) /\ thr'[t].pc = "parse" /\ thr'[t].s = table[h]
      BY <1>1, <3>1, MovedSame
    <3>3. OtherBuffers(b) /\ RecvOf(b)' = None
      BY <1>1, <2>3 DEF OtherBuffers, RecvOf, TypeOK
    <3>4. OnlyThese(t, b)
      BY <1>1, <3>2, <3>3, OnlyTheseFrame
    <3>5. Views(t, thr[t].s, thr[t].s, None)'
      BY <1>1, <3>2, ThreadViewsNext DEF ViewsAt
    <3> QED
      BY <1>1, <1>2, <2>1, <3>2, <3>3, <3>4, <3>5, PassGood
  <2> QED
    BY <1>5, <2>2, <2>3 DEF OnTcpRecv
<1>6. ASSUME NEW b \in Buffers, b \in heap, io[b] # "none",
             buf[b].type # "recv" \/ table[buf[b].handle] = None
      PROVE  RecvOf(b) = None \/ Gone(RecvOf(b))
  <2>1. CASE buf[b].type # "recv"
    BY <2>1 DEF RecvOf
  <2>2. CASE table[buf[b].handle] = None
    <3>1. buf[b].handle \in Handles /\ buf[b].sock \in Sockets /\ Claimed(buf[b].handle, buf[b].sock)
      BY <1>1, <1>6 DEF ConnFacts, IInv, FreshInv, Claimed
    <3>2. RecvOf(b) \in {None, buf[b].sock}
      BY DEF RecvOf
    <3> QED
      BY <1>1, <2>2, <3>1, <3>2, GoneSocket
  <2> QED
    BY <1>6, <2>1, <2>2
<1>7. ASSUME NEW b \in Buffers, OnTcpAccept(t, b) PROVE Good
  BY <1>3, <1>4, <1>6, <1>7 DEF OnTcpAccept, Completed, Drop
<1>8. ASSUME NEW b \in Buffers, OnTcpSend(t, b) PROVE Good
  BY <1>3, <1>6, <1>8 DEF OnTcpSend, Completed
<1>9. ASSUME NEW b \in Buffers, OnTcpRecv(t, b) PROVE Good
  BY <1>3, <1>5, <1>6, <1>9 DEF OnTcpRecv, Completed, Drop
<1> QED
  BY <1>7, <1>8, <1>9 DEF Handle

\* Nothing changes hands when an operation completes, or when nothing happens.
LEMMA StillGood ==
  ASSUME Serial, ConnFacts', UNCHANGED <<sock, heap, buf, thr>>,
         \A c \in Buffers : io'[c] # "none" <=> io[c] # "none"
  PROVE  Good
<1>1. ViewsOK /\ ViewsOK'
  BY ViewsAlways, ViewsNext DEF Serial
<1>2. \A u \in Threads : Serves(u)' = Serves(u) /\ Calling(u)' = Calling(u)
  BY DEF Serves, Calling, At
<1>3. \A u \in Threads : Live(u)' = Live(u)
  BY <1>2 DEF Live, At
<1>4. \A b \in Buffers : RecvOf(b)' = RecvOf(b)
  BY DEF RecvOf
<1>5. \A r \in Parties : Reads(r)' = Reads(r) /\ Speaks(r)' = Speaks(r)
  BY <1>2, <1>3, <1>4 DEF Parties, Reads, Speaks
<1>6. OneReader'
  BY <1>5 DEF Serial, OneReader
<1>7. Open' = Open
  <2>1. \A s \in Sockets : s \in Open' <=> s \in Open
    BY <1>1, <1>5 DEF ViewsOK
  <2> QED
    BY <2>1 DEF Open
<1> QED
  BY <1>2, <1>5, <1>6, <1>7 DEF Good, CStep, C!vars, Heard

LEMMA NextGood == ASSUME Serial, Recycle = FALSE, [Next]_vars PROVE ConnFacts' /\ Good
<1>1. ConnFacts'
  BY NextConn DEF Serial
<1>2. ASSUME NEW t \in Threads, Step(t) PROVE Good
  BY <1>1, <1>2, AddIndexGood, AddInsertGood, RemoveGood, ListenSendGood, ConnectGood, RecvNewGood,
     AcceptedGood, ResetGood, LastCallbackGood, ReadGood DEF Step
<1>3. CASE Kernel
  <2>1. PICK b \in Buffers : Complete(b) \/ Abort(b)
    BY <1>3 DEF Kernel
  <2>2. /\ UNCHANGED <<sock, heap, buf, thr>>
        /\ \A c \in Buffers : io'[c] # "none" <=> io[c] # "none"
    BY <2>1 DEF Complete, Abort, Serial, ConnFacts, IInv, TypeOK
  <2> QED
    BY <1>1, <2>2, StillGood
<1>4. CASE UNCHANGED vars
  BY <1>1, <1>4, StillGood DEF vars
<1> QED
  BY <1>1, <1>2, <1>3, <1>4, CallGood, HandleGood DEF Next

LEMMA InitSerial == Init => Serial /\ C!Init
<1> SUFFICES ASSUME Init PROVE Serial /\ C!Init
  OBVIOUS
<1>1. ConnFacts /\ ViewsOK
  BY InitConn, ViewsAlways
<1>2. \A t \in Threads : Views(t, None, None, None)
  <2>1. \A t \in Threads : thr[t].pc = "idle"
    BY IdleFields DEF Init
  <2> QED
    BY <1>1, <2>1, ThreadViews DEF ViewsAt
<1>3. \A b \in Buffers : RecvOf(b) = None
  BY DEF Init, RecvOf
<1>4. \A r \in Parties : Reads(r) = None /\ Speaks(r) = None
  BY <1>2, <1>3 DEF Parties, Reads, Speaks, Views
<1>5. Open = {}
  BY <1>1, <1>4 DEF ViewsOK, Open
<1> QED
  BY <1>1, <1>2, <1>4, <1>5 DEF Serial, OneReader, C!Init, Views

-----------------------------------------------------------------------------
(* The theorems.                                                           *)

LEMMA InvariantSerial == ASSUME Recycle = FALSE PROVE Spec => []Serial
<1>1. Serial /\ [Next]_vars => Serial'
  BY NextGood DEF Good, Serial
<1> QED
  BY InitSerial, <1>1, PTL DEF Spec

\* Where the indexer gives no index twice, a connection has one receive or one handler at a
\* time, whichever users and workers run: OnRecv takes no lock and needs none.
THEOREM CallbacksAreSerial ==
  ASSUME Recycle = FALSE
  PROVE  Spec => []CallbacksSerial
<1>1. Serial => CallbacksSerial
  BY ViewsAlways, SerialParties DEF Serial
<1> QED
  BY InvariantSerial, <1>1, PTL

\* Where the indexer gives no index twice, every step of the library is a step of module
\* Connections, or none of its business: callbacks about a connection do not overlap, and
\* OnTcpDisconnected or OnTcpError is the last.
THEOREM ConnectionsImplemented ==
  ASSUME Recycle = FALSE
  PROVE  Spec => ImplementsConnections
<1>1. Init => C!Init
  BY InitSerial
<1>2. Serial /\ [Next]_vars => [C!Next]_(C!vars)
  BY NextGood DEF Good, CStep
<1> QED
  BY <1>1, <1>2, InvariantSerial, PTL DEF Spec, ImplementsConnections, C!Spec

-----------------------------------------------------------------------------
(* A connection in the table is never deaf.                                *)

\* Nobody is inside TcpConnect.
NobodyConnects == \A t \in Users : ~At(t, "connect") /\ ~At(t, "recv_new")

\* A step changes the locals of its thread.
LEMMA OthersKeep ==
  ASSUME TypeOK, NEW t \in Threads, Step(t) \/ (t \in Users /\ Call(t)) \/ (t \in Workers /\ Handle(t))
  PROVE  OthersSame(t)
<1>1. ASSUME Step(t) PROVE OthersSame(t)
  <2>1. ASSUME AddIndex(t) \/ AddInsert(t) \/ RemoveErase(t) \/ RemoveIndex(t) PROVE OthersSame(t)
    BY <2>1 DEF OthersSame, TypeOK, AddIndex, AddInsert, RemoveErase, RemoveIndex, AfterRemove, Return, Goto
  <2>2. ASSUME Listen(t) \/ ArmAccept(t) \/ Connect(t) \/ Send(t) \/ RecvNew(t) PROVE OthersSame(t)
    BY <2>2 DEF OthersSame, TypeOK, Listen, ArmAccept, Connect, Send, RecvNew, Return, Goto
  <2>3. ASSUME SetAccepted(t) \/ OnTcpAccepted(t) \/ Reset(t) \/ OnTcpError(t) \/ OnTcpDisconnected(t)
        PROVE  OthersSame(t)
    BY <2>3 DEF OthersSame, TypeOK, SetAccepted, OnTcpAccepted, Reset, OnTcpError, OnTcpDisconnected,
                Return, Goto
  <2>4. ASSUME OnRecv(t) \/ OnTcpReceived(t) \/ Rearm(t) PROVE OthersSame(t)
    BY <2>4 DEF OthersSame, TypeOK, OnRecv, OnTcpReceived, Rearm, Return, Goto
  <2> QED
    BY <1>1, <2>1, <2>2, <2>3, <2>4 DEF Step
<1>2. ASSUME Call(t) PROVE OthersSame(t)
  BY <1>2 DEF OthersSame, TypeOK, Call, TcpCreate, TcpDestroy, TcpListen, TcpConnect, TcpSend, GetTcpSocket
<1>3. ASSUME Handle(t) PROVE OthersSame(t)
  BY <1>3 DEF OthersSame, TypeOK, Handle, OnTcpAccept, OnTcpSend, OnTcpRecv, Drop
<1> QED
  BY <1>1, <1>2, <1>3

LEMMA NobodyStarts ==
  ASSUME ConnFacts, "connect" \notin Calls, NobodyConnects, [Next]_vars
  PROVE  NobodyConnects'
<1> USE DEF At
<1>0. TypeOK
  BY DEF ConnFacts, IInv
<1>1. ASSUME NEW t \in Threads, OthersSame(t),
             t \in Users => thr'[t].pc \notin {"connect", "recv_new"}
      PROVE  NobodyConnects'
  BY <1>1 DEF NobodyConnects, OthersSame, Threads
<1>2. ASSUME NEW t \in Users, t \in Threads, Call(t) PROVE thr'[t].pc \notin {"connect", "recv_new"}
  <2>0. thr[t] \in Locals
    BY <1>0, <1>2, FieldTypes
  <2>1. ASSUME TcpCreate(t) PROVE thr'[t].pc = "add_index"
    BY <1>0, <1>2, <2>0, <2>1 DEF TcpCreate, TypeOK, Locals
  <2>2. ASSUME NEW h, TcpDestroy(t, h) PROVE thr'[t].pc = "remove"
    BY <1>0, <1>2, <2>0, <2>2 DEF TcpDestroy, TypeOK, Locals
  <2>3. ASSUME NEW h, NEW call, GetTcpSocket(t, call, h) PROVE thr'[t].pc = call /\ call \in Calls
    BY <1>0, <1>2, <2>0, <2>3 DEF GetTcpSocket, TypeOK, Locals
  <2> QED
    BY <1>2, <2>1, <2>2, <2>3 DEF Call, TcpListen, TcpConnect, TcpSend
<1>3. ASSUME NEW t \in Users, t \in Threads, Step(t) PROVE thr'[t].pc \notin {"connect", "recv_new"}
  <2>0. thr[t] \in Locals /\ thr[t].pc \in UserPCs \ {"connect", "recv_new"}
    BY <1>0, <1>3, FieldTypes, ThreadFacts DEF LocalsOK, NobodyConnects
  <2>1. CASE AddIndex(t) \/ AddInsert(t) \/ RemoveErase(t) \/ RemoveIndex(t)
    BY <1>0, <1>3, <2>0, <2>1 DEF TypeOK, Locals, AddIndex, AddInsert, RemoveErase, RemoveIndex, AfterRemove,
       Return, Goto, Idle
  <2>2. CASE Listen(t) \/ ArmAccept(t) \/ Send(t)
    BY <1>0, <1>3, <2>0, <2>2 DEF TypeOK, Locals, Listen, ArmAccept, Send, Return, Goto, Idle
  <2> QED
    BY <1>3, <2>0, <2>1, <2>2 DEF Step, UserPCs, Connect, RecvNew, SetAccepted, OnTcpAccepted, Reset,
       OnTcpError, OnTcpDisconnected, OnRecv, OnTcpReceived, Rearm
<1>4. CASE UNCHANGED thr
  BY <1>4 DEF NobodyConnects
<1>5. Users \subseteq Threads /\ Workers \subseteq Threads /\ Users \cap Workers = {}
  BY ConstantsOK DEF Threads
<1>6. ASSUME NEW t \in Workers, Handle(t) PROVE NobodyConnects'
  BY <1>0, <1>1, <1>5, <1>6, OthersKeep
<1>7. ASSUME NEW t \in Threads, Step(t) \/ (t \in Users /\ Call(t)) PROVE NobodyConnects'
  BY <1>0, <1>1, <1>2, <1>3, <1>7, OthersKeep
<1> QED
  BY <1>4, <1>5, <1>6, <1>7 DEF Next, Kernel, Complete, Abort, vars

\* What is put into the table is what AddTcpSocket inserts.
LEMMA TableSource ==
  ASSUME TypeOK, [Next]_vars, NEW h \in Handles, table'[h] # None, table'[h] # table[h]
  PROVE  \E t \in Threads : AddInsert(t) /\ table'[h] = thr[t].a
<1>1. ASSUME UNCHANGED table PROVE FALSE
  BY <1>1
<1>2. ASSUME NEW t \in Threads, AddInsert(t) PROVE table'[h] = thr[t].a
  BY <1>2 DEF AddInsert, TypeOK
<1>3. ASSUME NEW t \in Threads, RemoveErase(t) PROVE FALSE
  BY <1>3 DEF RemoveErase, TypeOK
<1>4. ASSUME NEW t \in Threads, Step(t) PROVE AddInsert(t)
  BY <1>1, <1>3, <1>4 DEF Step, AddIndex, RemoveIndex, Listen, ArmAccept, Connect, Send, RecvNew, SetAccepted,
     OnTcpAccepted, Reset, OnTcpError, OnTcpDisconnected, OnRecv, OnTcpReceived, Rearm, tableVars
<1>5. ~(\E t \in Users : Call(t))
  BY <1>1 DEF Call, TcpCreate, TcpDestroy, TcpListen, TcpConnect, TcpSend, GetTcpSocket, tableVars
<1>6. ~(\E t \in Workers : Handle(t))
  BY <1>1 DEF Handle, OnTcpAccept, OnTcpSend, OnTcpRecv, tableVars
<1>7. ~Kernel /\ ~UNCHANGED vars
  BY <1>1 DEF Kernel, Complete, Abort, vars, tableVars
<1> QED
  BY <1>2, <1>4, <1>5, <1>6, <1>7 DEF Next

\* A socket becomes connected by TcpConnect or as an accepted socket.
LEMMA ConnectSource ==
  ASSUME TypeOK, [Next]_vars, NEW x \in Sockets, sock'[x].connect, ~sock[x].connect
  PROVE  \E t \in Threads : Connect(t) \/ (SetAccepted(t) /\ x = thr[t].a)
<1>1. ASSUME sock'[x] = sock[x] PROVE FALSE
  BY <1>1
<1>2. ASSUME NEW y, NEW f, sock' = [sock EXCEPT ![y] = f], ~f.connect PROVE FALSE
  BY <1>1, <1>2 DEF TypeOK
<1>3. ASSUME NEW b, NEW h, NEW s, AsyncTcpAccept(b, h, s) PROVE FALSE
  BY <1>2, <1>3, ConstantTypes DEF AsyncTcpAccept
<1>4. ASSUME NEW t \in Threads, Step(t) PROVE Connect(t) \/ (SetAccepted(t) /\ x = thr[t].a)
  <2>1. ASSUME Listen(t) PROVE FALSE
    <3>1. CASE sock' = sock
      BY <1>1, <3>1
    <3>2. CASE sock' = [sock EXCEPT ![thr[t].s].listen = TRUE]
      BY <3>2 DEF TypeOK, Flags
    <3> QED
      BY <2>1, <3>1, <3>2 DEF Listen
  <2>2. ASSUME SetAccepted(t) PROVE x = thr[t].a
    BY <1>1, <2>2 DEF SetAccepted, TypeOK
  <2>3. ASSUME ArmAccept(t) \/ Reset(t) PROVE FALSE
    BY <1>1, <1>3, <2>3 DEF ArmAccept, Reset
  <2> QED
    BY <1>1, <1>4, <2>1, <2>2, <2>3 DEF Step, AddIndex, AddInsert, RemoveErase, RemoveIndex, Send, RecvNew,
       OnTcpAccepted, OnTcpError, OnTcpDisconnected, OnRecv, OnTcpReceived, Rearm
<1>5. ~(\E t \in Users : Call(t))
  <2>1. ASSUME NEW t, TcpCreate(t) PROVE FALSE
    <3>1. ~[NewSocket EXCEPT !.bind = TRUE].connect
      BY DEF NewSocket
    <3> QED
      BY <1>2, <2>1, <3>1 DEF TcpCreate
  <2> QED
    BY <1>1, <2>1 DEF Call, TcpDestroy, TcpListen, TcpConnect, TcpSend, GetTcpSocket
<1>6. ~(\E t \in Workers : Handle(t))
  BY <1>1 DEF Handle, OnTcpAccept, OnTcpSend, OnTcpRecv
<1>7. ~Kernel /\ ~UNCHANGED vars
  BY <1>1 DEF Kernel, Complete, Abort, vars
<1> QED
  BY <1>4, <1>5, <1>6, <1>7 DEF Next

LEMMA HeardNext ==
  ASSUME Serial, Recycle = FALSE, "connect" \notin Calls, NobodyConnects, NeverDeaf, [Next]_vars
  PROVE  NeverDeaf'
<1> USE DEF At
<1>1. /\ ConnFacts /\ ConnFacts' /\ Good /\ TypeOK /\ ViewsOK /\ ViewsOK'
  BY NextGood, ViewsAlways, ViewsNext DEF Serial, ConnFacts, IInv
<1>2. ASSUME NEW h \in Handles, table'[h] # None, sock'[table'[h]].connect
      PROVE  \E r \in Parties : Reads(r)' = table'[h]
  <2> DEFINE x == table'[h]
  <2>0. x \in Sockets
    BY <1>1, <1>2 DEF ConnFacts, IInv, TypeOK, Maybe
  \* It was there before: whoever read it does, or has passed it on.
  <2>1. CASE table[h] = x /\ sock[x].connect
    <3>1. PICK r \in Parties : Reads(r) = x
      BY <1>1, <1>2, <2>0, <2>1 DEF NeverDeaf, ViewsOK
    <3> QED
      BY <1>1, <1>2, <2>1, <3>1 DEF Good, Heard, Gone, NobodyConnects
  \* It is inserted now: then it is not connected yet.
  <2>2. CASE table[h] # x
    <3>1. PICK t \in Threads : AddInsert(t) /\ x = thr[t].a
      BY <1>1, <1>2, <2>2, TableSource
    <3>2. ~sock[x].connect
      BY <1>1, <3>1, ThreadFacts DEF PrivateOK, Private, AddInsert
    <3> QED
      BY <1>2, <3>1, <3>2 DEF AddInsert
  \* It is connected now: the worker that accepted it serves it.
  <2>3. CASE ~sock[x].connect
    <3>1. PICK t \in Threads : SetAccepted(t) /\ x = thr[t].a
      <4>1. PICK t \in Threads : Connect(t) \/ (SetAccepted(t) /\ x = thr[t].a)
        BY <1>1, <1>2, <2>0, <2>3, ConnectSource
      <4>2. ~Connect(t)
        <5>1. LocalsOK(t)
          BY <1>1, ThreadFacts
        <5> QED
          BY <5>1 DEF Connect, LocalsOK, WorkerPCs, NobodyConnects
      <4> QED
        BY <4>1, <4>2
    <3>2. t \in Parties /\ Reads(t) = x
      <4>1. Views(t, thr[t].a, thr[t].a, None)
        BY <1>1, <3>1, ThreadViews DEF ViewsAt, SetAccepted
      <4> QED
        BY <3>1, <4>1 DEF Views, Reads, Parties
    <3>3. ~(\E u \in Users : At(u, "recv_new"))
      BY DEF NobodyConnects
    <3>4. ~Gone(x)
      <4>1. table' = table
        BY <3>1 DEF SetAccepted, tableVars
      <4> QED
        BY <4>1 DEF Gone
    <3> QED
      BY <1>1, <1>2, <3>2, <3>3, <3>4 DEF Good, Heard
  <2> QED
    BY <2>1, <2>2, <2>3
<1>3. ASSUME NEW h \in Handles, table'[h] # None, sock'[table'[h]].connect
      PROVE  Readers(table[h])' # {}
  <2>1. table'[h] \in Sockets
    BY <1>1, <1>3 DEF ConnFacts, IInv, TypeOK, Maybe
  <2> QED
    BY <1>1, <1>2, <1>3, <2>1 DEF ViewsOK
<1> QED
  BY <1>3 DEF NeverDeaf

\* Where nobody calls TcpConnect, a connection in the table always has a receive on its way
\* or a thread that will start one or take it out, whatever fails: AsyncTcpRecv in OnTcpAccept,
\* in OnTcpRecv, BindToIOCP of an accepted socket.
THEOREM ConnectionsNeverDeaf ==
  ASSUME Recycle = FALSE, "connect" \notin Calls
  PROVE  Spec => []NeverDeaf
<1>1. Init => NobodyConnects /\ NeverDeaf
  <2> SUFFICES ASSUME Init PROVE NobodyConnects /\ NeverDeaf
    OBVIOUS
  <2>1. \A t \in Threads : thr[t].pc = "idle"
    BY IdleFields DEF Init
  <2> QED
    BY <2>1 DEF Init, NobodyConnects, NeverDeaf, At, Threads
<1>2. Serial /\ NobodyConnects /\ NeverDeaf /\ [Next]_vars => NobodyConnects' /\ NeverDeaf'
  BY HeardNext, NobodyStarts DEF Serial
<1> QED
  BY <1>1, <1>2, InvariantSerial, PTL DEF Spec

=============================================================================
