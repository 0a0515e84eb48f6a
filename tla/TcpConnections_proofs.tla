----------------------- MODULE TcpConnections_proofs -----------------------
(***************************************************************************)
(* Proofs about the handles of TcpResources, when the indexer gives no     *)
(* index twice: a handle means one socket, for the table, for the buffers  *)
(* on their way and for the locals of every thread.                        *)
(***************************************************************************)
EXTENDS TcpResources_proofs

\* Thread t means socket s by handle h, for the call's socket or for the one being added.
Mine(t, h, s) == \/ thr[t].h = h /\ thr[t].s = s
                 \/ thr[t].ah = h /\ thr[t].a = s

\* The table, a buffer on its way or a thread means socket s by handle h.
Claimed(h, s) == \/ table[h] = s
                 \/ \E b \in heap : io[b] # "none" /\ buf[b].handle = h /\ buf[b].sock = s
                 \/ \E t \in Threads : Mine(t, h, s)

\* Whoever means something by a handle means the same socket, and no other handle by it.
OneToOne ==
  \A g, h \in Handles, r, s \in Sockets : Claimed(g, r) /\ Claimed(h, s) => (g = h <=> r = s)

RemovePCs == {"on_error", "on_disconnected", "remove", "destroy_index"}

\* What the locals of a user mean.
UserPart(t) ==
  /\ thr[t].pc \in {"add_index", "add_insert", "remove", "destroy_index"} => thr[t].h = None
  /\ thr[t].pc \in {"add_index", "listen", "arm", "connect", "send", "remove", "destroy_index"}
       => thr[t].ah = None
  /\ thr[t].pc \in {"listen", "arm", "connect", "send", "remove", "destroy_index"} => thr[t].a = None
  /\ At(t, "recv_new") => thr[t].a = thr[t].s /\ thr[t].ah = thr[t].h /\ sock[thr[t].s].connect

\* A worker that has its accept buffer serves an accepted socket for a listener; at the end
\* of OnTcpAccept it may be left with the listener only. Otherwise it serves a connection.
AcceptPart(t) ==
  /\ sock[thr[t].s].listen /\ thr[t].a \in Sockets /\ thr[t].a # thr[t].s /\ thr[t].ah # thr[t].h
  /\ At(t, "add_index") => thr[t].ah = None
  /\ At(t, "recv_new") \/ At(t, "on_error") => sock[thr[t].a].connect
  /\ thr[t].pc \in RemovePCs => thr[t].rh = thr[t].ah

ListenerPart(t) == sock[thr[t].s].listen /\ thr[t].rh = thr[t].h /\ thr[t].ah # thr[t].h

ConnectionPart(t) ==
  /\ sock[thr[t].s].connect /\ thr[t].a = None /\ thr[t].ah = None
  /\ thr[t].pc \in RemovePCs => thr[t].rh = thr[t].h

ReadPCs == {"parse", "on_received", "rearm", "on_disconnected"}

WorkerPart(t) ==
  /\ thr[t].pc \in ReadPCs => ConnectionPart(t)
  /\ thr[t].b # None /\ thr[t].pc \notin ReadPCs => AcceptPart(t)
  /\ thr[t].b = None /\ thr[t].pc \in RemovePCs \ ReadPCs => ListenerPart(t) \/ ConnectionPart(t)

PartOK(t) ==
  /\ thr[t].h = None <=> thr[t].s = None
  /\ thr[t].ah # None => thr[t].a \in Sockets
  /\ thr[t].pc \notin RemovePCs => thr[t].rh = None
  /\ IF t \in Users THEN UserPart(t) ELSE WorkerPart(t)

PartsInv == \A t \in Threads : PartOK(t)

\* No socket listens and is connected; buffers are on sockets that do one or the other, and
\* a socket to accept on is new.
FlagsInv ==
  /\ \A s \in Sockets : ~(sock[s].listen /\ sock[s].connect)
  /\ \A b \in heap :
       /\ io[b] # "none" /\ buf[b].type = "recv" => sock[buf[b].sock].connect
       /\ io[b] # "none" /\ buf[b].type = "accept" => sock[buf[b].sock].listen
       /\ buf[b].accept # None => /\ ~sock[buf[b].accept].listen /\ ~sock[buf[b].accept].connect
                                  /\ \A c \in heap : buf[c].sock # buf[b].accept

\* The socket a thread adds is its own until the application is told the handle: up to
\* OnTcpAccepted, or for ever when the socket is removed before.
Private(t) == \/ thr[t].pc \in {"add_index", "add_insert", "set_accepted", "on_accepted"}
              \/ thr[t].rh # None /\ thr[t].rh = thr[t].ah /\ ~sock[thr[t].a].connect

PrivateOK(t) ==
  Private(t) =>
    /\ thr[t].ah \notin told
    /\ \A u \in Threads : thr[u].s # thr[t].a /\ (u # t => thr[u].a # thr[t].a)
    /\ \A b \in heap : buf[b].sock # thr[t].a /\ buf[b].accept # thr[t].a
    /\ ~sock[thr[t].a].listen
    /\ sock[thr[t].a].connect <=> At(t, "on_accepted")

PrivateInv == \A t \in Threads : PrivateOK(t)

ConnInv == OneToOne /\ PartsInv /\ FlagsInv /\ PrivateInv

-----------------------------------------------------------------------------
(* What each invariant needs of a step of thread t.                        *)

\* Buffer c goes on with the operation it had, or comes to nothing.
Goes(c) == /\ c \in heap /\ buf'[c].type = buf[c].type
           /\ buf'[c].handle = buf[c].handle /\ buf'[c].sock = buf[c].sock
           /\ buf'[c].accept \in {None, buf[c].accept}
           /\ io'[c] # "none" => io[c] # "none"

New(x) == ~sock[x].listen /\ ~sock[x].connect

\* Buffer c starts an operation that thread t means.
Starts(t, c) ==
  /\ Mine(t, buf'[c].handle, buf'[c].sock) /\ buf'[c].sock \in Sockets
  /\ \/ buf'[c].type = "recv" /\ sock'[buf'[c].sock].connect
     \/ buf'[c].type = "accept" /\ sock'[buf'[c].sock].listen
     \/ buf'[c].type = "send"
  /\ buf'[c].accept # None => buf'[c].accept \in FreeSockets /\ New(buf[c].accept)'

BuffersMove(t) == \A c \in heap' : Goes(c) \/ Starts(t, c)

\* A socket is new, or its flags grow, which only a thread that has it can make them do.
FlagsMove(t) ==
  \A x \in Sockets :
    \/ sock'[x] = sock[x]
    \/ x \in FreeSockets /\ New(x)'
    \/ /\ x = thr[t].s \/ x = thr[t].a
       /\ (sock[x].listen => sock'[x].listen) /\ (sock[x].connect => sock'[x].connect)
       /\ ~(sock'[x].listen /\ sock'[x].connect)

TableMoves(t) == \A h \in Handles : \/ table'[h] \in {None, table[h]}
                                    \/ Mine(t, h, table'[h])

\* Thread t learns of no socket that is another's own.
Discreet(t) == \A u \in Threads : u # t /\ Private(u) => thr[u].a \notin {thr'[t].s, thr'[t].a}

\* The parts of a step of thread t that do not depend on what t does next.
Plain(t) == OthersSame(t) /\ BuffersMove(t) /\ FlagsMove(t) /\ TableMoves(t) /\ Discreet(t)
              /\ told' \subseteq told \cup {thr[t].ah}

LEMMA NotFree ==
  ASSUME NEW x \in FreeSockets
  PROVE  /\ x \in Sockets
         /\ \A h \in Handles : table[h] # x
         /\ \A t \in Threads : thr[t].s # x /\ thr[t].a # x
         /\ \A b \in heap : buf[b].accept # x /\ buf[b].sock # x
BY DEF FreeSockets, Referenced

LEMMA MineKnown ==
  ASSUME NEW t \in Threads, NEW h, NEW s, Mine(t, h, s)
  PROVE  s \in {thr[t].s, thr[t].a}
BY DEF Mine

LEMMA OneToOneFrame ==
  ASSUME OneToOne, NEW t \in Threads, Plain(t),
         \A h \in Handles, s \in Sockets : Mine(t, h, s)' => Claimed(h, s)
  PROVE  OneToOne'
<1>1. ASSUME NEW h \in Handles, NEW s \in Sockets, Claimed(h, s)' PROVE Claimed(h, s)
  <2>1. CASE table'[h] = s
    BY <2>1, ConstantsOK DEF Plain, TableMoves, Claimed
  <2>2. ASSUME NEW b \in heap', io'[b] # "none", buf'[b].handle = h, buf'[b].sock = s
        PROVE  Claimed(h, s)
    BY <2>2 DEF Plain, BuffersMove, Goes, Starts, Claimed
  <2>3. ASSUME NEW u \in Threads, Mine(u, h, s)' PROVE Claimed(h, s)
    <3>1. CASE u = t
      BY <2>3, <3>1
    <3>2. CASE u # t
      BY <2>3, <3>2 DEF Plain, OthersSame, Mine, Claimed
    <3> QED
      BY <3>1, <3>2
  <2> QED
    BY <1>1, <2>1, <2>2, <2>3 DEF Claimed
<1> QED
  BY <1>1 DEF OneToOne

LEMMA FlagsFrame ==
  ASSUME TypeOK, FlagsInv, SocketOwnership, FreshInv, NEW t \in Threads, Plain(t)
  PROVE  FlagsInv'
<1>1. \A s \in Sockets : ~(sock'[s].listen /\ sock'[s].connect)
  BY DEF FlagsInv, Plain, FlagsMove, New
<1>2. ASSUME NEW b \in heap', Goes(b)
      PROVE  /\ io'[b] # "none" /\ buf'[b].type = "recv" => sock'[buf'[b].sock].connect
             /\ io'[b] # "none" /\ buf'[b].type = "accept" => sock'[buf'[b].sock].listen
  <2> SUFFICES ASSUME io'[b] # "none"
               PROVE  /\ buf'[b].type = "recv" => sock'[buf'[b].sock].connect
                      /\ buf'[b].type = "accept" => sock'[buf'[b].sock].listen
    OBVIOUS
  <2>1. b \in heap /\ io[b] # "none" /\ buf[b].sock \in Sockets /\ buf'[b].sock = buf[b].sock
        /\ buf'[b].type = buf[b].type
    BY <1>2 DEF Goes, FreshInv
  <2>2. buf[b].sock \notin FreeSockets
    BY <2>1, NotFree
  <2>3. /\ sock[buf[b].sock].listen => sock'[buf[b].sock].listen
        /\ sock[buf[b].sock].connect => sock'[buf[b].sock].connect
    BY <2>1, <2>2 DEF Plain, FlagsMove
  <2> QED
    BY <2>1, <2>3 DEF FlagsInv
<1>3. ASSUME NEW b \in heap', buf'[b].accept # None
      PROVE  /\ ~sock'[buf'[b].accept].listen /\ ~sock'[buf'[b].accept].connect
             /\ \A c \in heap' : buf'[c].sock # buf'[b].accept
  <2>1. CASE Goes(b)
    <3>1. /\ b \in heap /\ buf'[b].accept = buf[b].accept /\ buf[b].accept # None
          /\ buf[b].accept \in Sockets
      BY <1>3, <2>1 DEF Goes, TypeOK, Operations, Maybe
    <3>2. buf[b].accept \notin FreeSockets /\ buf[b].accept \notin {thr[t].s, thr[t].a}
      BY <3>1, NotFree DEF SocketOwnership
    <3>3. sock'[buf[b].accept] = sock[buf[b].accept]
      BY <3>1, <3>2 DEF Plain, FlagsMove
    <3>4. \A c \in heap' : buf'[c].sock # buf[b].accept
      BY <3>1, <3>2, MineKnown DEF Plain, BuffersMove, Goes, Starts, FlagsInv
    <3> QED
      BY <3>1, <3>3, <3>4 DEF FlagsInv
  <2>2. CASE Starts(t, b)
    <3>1. buf'[b].accept \in FreeSockets /\ New(buf[b].accept)'
      BY <1>3, <2>2 DEF Starts
    <3>2. \A c \in heap' : buf'[c].sock # buf'[b].accept
      BY <3>1, NotFree, MineKnown DEF Plain, BuffersMove, Goes, Starts
    <3> QED
      BY <3>1, <3>2 DEF New
  <2> QED
    BY <2>1, <2>2 DEF Plain, BuffersMove
<1>4. ASSUME NEW b \in heap'
      PROVE  /\ io'[b] # "none" /\ buf'[b].type = "recv" => sock'[buf'[b].sock].connect
             /\ io'[b] # "none" /\ buf'[b].type = "accept" => sock'[buf'[b].sock].listen
  BY <1>2 DEF Plain, BuffersMove, Starts
<1> QED
  BY <1>1, <1>3, <1>4 DEF FlagsInv

\* The flags of a socket that another thread has only grow.
LEMMA FlagsGrow ==
  ASSUME NEW t \in Threads, FlagsMove(t), NEW u \in Threads, NEW x \in {thr[u].s, thr[u].a}, x \in Sockets
  PROVE  (sock[x].listen => sock'[x].listen) /\ (sock[x].connect => sock'[x].connect)
<1>1. x \notin FreeSockets
  BY NotFree
<1> QED
  BY <1>1 DEF FlagsMove

LEMMA PartsFrame ==
  ASSUME TypeOK, LocalsInv, PartsInv, NEW t \in Threads, Plain(t), PartOK(t)'
  PROVE  PartsInv'
<1>1. ASSUME NEW u \in Threads, u # t PROVE PartOK(u)'
  <2>1. thr'[u] = thr[u]
    BY <1>1 DEF Plain, OthersSame
  <2>2. thr[u].s \in Maybe(Sockets) /\ thr[u].a \in Maybe(Sockets) /\ LocalsOK(u) /\ PartOK(u)
    BY FieldTypes DEF LocalsInv, PartsInv
  <2>3. /\ thr[u].s \in Sockets => /\ sock[thr[u].s].listen => sock'[thr[u].s].listen
                                   /\ sock[thr[u].s].connect => sock'[thr[u].s].connect
        /\ thr[u].a \in Sockets => /\ sock[thr[u].a].listen => sock'[thr[u].a].listen
                                   /\ sock[thr[u].a].connect => sock'[thr[u].a].connect
    BY FlagsGrow DEF Plain
  <2>4. CASE u \in Users
    BY <2>1, <2>2, <2>3, <2>4 DEF PartOK, UserPart, LocalsOK, At
  <2>5. CASE u \notin Users
    <3>1. WorkerPart(u)
      BY <2>2, <2>5 DEF PartOK
    <3>2. thr[u].b # None \/ thr[u].pc \in RemovePCs \cup ReadPCs => thr[u].s \in Sockets
      BY <2>2, <2>5, ConstantsOK
         DEF LocalsOK, RemovePCs, ReadPCs, PartOK, WorkerPart, ConnectionPart, ListenerPart, Maybe
    <3>3. WorkerPart(u)'
      BY <2>1, <2>3, <3>1, <3>2 DEF WorkerPart, AcceptPart, ListenerPart, ConnectionPart, At, RemovePCs
    <3> QED
      BY <2>1, <2>2, <2>5, <3>3 DEF PartOK
  <2> QED
    BY <2>4, <2>5
<1> QED
  BY <1>1 DEF PartsInv

LEMMA PrivateFrame ==
  ASSUME TypeOK, LocalsInv, PartsInv, OneToOne, PrivateInv, NEW t \in Threads, Plain(t), PrivateOK(t)',
         None \notin told'
  PROVE  PrivateInv'
<1>1. ASSUME NEW u \in Threads, u # t, Private(u)' PROVE PrivateOK(u)'
  <2>1. thr'[u] = thr[u]
    BY <1>1 DEF Plain, OthersSame
  <2>2. thr[u].a \in Sockets
    BY <1>1, <2>1, ConstantsOK DEF LocalsInv, LocalsOK, PartsInv, PartOK, Private
  <2>3. Private(u)
    BY <1>1, <2>1, <2>2, FlagsGrow DEF Private, Plain
  <2>4. /\ thr[u].ah \notin told
        /\ \A v \in Threads : thr[v].s # thr[u].a /\ (v # u => thr[v].a # thr[u].a)
        /\ \A b \in heap : buf[b].sock # thr[u].a /\ buf[b].accept # thr[u].a
        /\ ~sock[thr[u].a].listen
        /\ sock[thr[u].a].connect <=> At(u, "on_accepted")
    BY <2>3 DEF PrivateInv, PrivateOK
  <2>5. \A v \in Threads : thr'[v].s # thr[u].a /\ (v # u => thr'[v].a # thr[u].a)
    BY <1>1, <2>3, <2>4 DEF Plain, OthersSame, Discreet
  <2>6. thr[u].a \notin FreeSockets /\ thr[u].a # None /\ thr[u].a \notin {thr[t].s, thr[t].a}
    BY <1>1, <2>2, <2>4, NotFree, ConstantsOK
  <2>7. \A b \in heap' : buf'[b].sock # thr[u].a /\ buf'[b].accept # thr[u].a
    BY <2>4, <2>6, MineKnown DEF Plain, BuffersMove, Goes, Starts
  <2>8. sock'[thr[u].a] = sock[thr[u].a]
    BY <2>2, <2>6 DEF Plain, FlagsMove
  <2>9. thr[u].ah \notin told'
    <3>1. thr[t].ah # None /\ thr[u].ah = thr[t].ah => FALSE
      <4> SUFFICES ASSUME thr[t].ah # None, thr[u].ah = thr[t].ah PROVE FALSE
        OBVIOUS
      <4>1. thr[t].a \in Sockets /\ thr[t].ah \in Handles
        BY FieldTypes DEF PartsInv, PartOK, Maybe
      <4>2. Claimed(thr[t].ah, thr[t].a) /\ Claimed(thr[t].ah, thr[u].a)
        BY DEF Claimed, Mine
      <4> QED
        BY <2>2, <2>6, <4>1, <4>2 DEF OneToOne
    <3>2. CASE thr[t].ah = None
      BY <2>4, <3>2 DEF Plain
    <3> QED
      BY <2>4, <3>1, <3>2 DEF Plain
  <2> QED
    BY <2>1, <2>4, <2>5, <2>7, <2>8, <2>9 DEF PrivateOK, At
<1> QED
  BY <1>1 DEF PrivateInv, PrivateOK

ConnFacts == IInv /\ ConnInv

LEMMA ConnFrame ==
  ASSUME ConnFacts, IInv', NEW t \in Threads, Plain(t), PartOK(t)', PrivateOK(t)',
         \A h \in Handles, s \in Sockets : Mine(t, h, s)' => Claimed(h, s)
  PROVE  ConnInv'
<1>1. None \notin told'
  BY ConstantsOK DEF IInv, TypeOK
<1>2. OneToOne'
  BY OneToOneFrame DEF ConnFacts, ConnInv
<1>3. PartsInv'
  BY PartsFrame DEF ConnFacts, ConnInv, IInv
<1>4. FlagsInv'
  BY FlagsFrame DEF ConnFacts, ConnInv, IInv
<1>5. PrivateInv'
  BY <1>1, PrivateFrame DEF ConnFacts, ConnInv, IInv
<1> QED
  BY <1>2, <1>3, <1>4, <1>5 DEF ConnInv

\* Thread t keeps or forgets what it means; TcpConnect means its socket twice.
KeepsMine(t) ==
  /\ \/ thr'[t].h = thr[t].h /\ thr'[t].s = thr[t].s
     \/ thr'[t].h = None /\ thr'[t].s = None
  /\ \/ thr'[t].ah = thr[t].ah /\ thr'[t].a = thr[t].a
     \/ thr'[t].ah = None /\ thr'[t].a = None
     \/ thr'[t].ah = thr[t].h /\ thr'[t].a = thr[t].s

\* A socket of its own is a socket.
LEMMA PrivateSocket ==
  ASSUME IInv, PartsInv, NEW t \in Threads, Private(t)
  PROVE  thr[t].a \in Sockets /\ thr[t].a # None
BY ConstantsOK DEF IInv, LocalsInv, LocalsOK, PartsInv, PartOK, Private

LEMMA KeepsFrame ==
  ASSUME ConnFacts, IInv', NEW t \in Threads, OthersSame(t), KeepsMine(t), BuffersMove(t),
         FlagsMove(t), TableMoves(t), told' \subseteq told \cup {thr[t].ah},
         PartOK(t)', PrivateOK(t)'
  PROVE  ConnInv'
<1>1. Discreet(t)
  <2>1. ASSUME NEW u \in Threads, u # t, Private(u) PROVE thr[u].a \notin {thr'[t].s, thr'[t].a}
    <3>1. thr[u].a # None /\ thr[u].a # thr[t].s /\ thr[u].a # thr[t].a
      BY <2>1, PrivateSocket DEF ConnFacts, ConnInv, PrivateInv, PrivateOK
    <3> QED
      BY <3>1 DEF KeepsMine
  <2> QED
    BY <2>1 DEF Discreet
<1>2. \A h \in Handles, s \in Sockets : Mine(t, h, s)' => Claimed(h, s)
  BY ConstantsOK DEF KeepsMine, Mine, Claimed
<1> QED
  BY <1>1, <1>2, ConnFrame DEF Plain

LEMMA BuffersStill == ASSUME NEW t, UNCHANGED <<heap, buf, io>> PROVE BuffersMove(t)
BY DEF BuffersMove, Goes

LEMMA FlagsStill == ASSUME NEW t, UNCHANGED sock PROVE FlagsMove(t)
BY DEF FlagsMove

LEMMA TableStill == ASSUME NEW t, UNCHANGED table PROVE TableMoves(t)
BY DEF TableMoves

\* A step of t alone: no socket, no buffer and no table changes.
LEMMA AloneFrame ==
  ASSUME ConnFacts, IInv', NEW t \in Threads, OthersSame(t), KeepsMine(t),
         UNCHANGED <<table, told, sock, heap, buf, io>>, PartOK(t)', PrivateOK(t)'
  PROVE  ConnInv'
<1>1. BuffersMove(t) /\ FlagsMove(t) /\ TableMoves(t) /\ told' \subseteq told \cup {thr[t].ah}
  BY BuffersStill, FlagsStill, TableStill
<1> QED
  BY <1>1, KeepsFrame

\* The socket stays the thread's own.
LEMMA StaysPrivate ==
  ASSUME ConnFacts, NEW t \in Threads, OthersSame(t), Private(t), UNCHANGED <<told, heap, buf>>,
         thr'[t].a = thr[t].a, thr'[t].ah = thr[t].ah, thr'[t].s = thr[t].s,
         sock'[thr[t].a].listen = sock[thr[t].a].listen,
         sock'[thr[t].a].connect <=> thr'[t].pc = "on_accepted"
  PROVE  PrivateOK(t)'
<1>1. PrivateOK(t)
  BY DEF ConnFacts, ConnInv, PrivateInv
<1> QED
  BY <1>1 DEF PrivateOK, OthersSame, At

\* A thread that is done means nothing.
LEMMA DoneOK ==
  ASSUME NEW t \in Threads, Moved(t, "idle", None, None, None, None, None, None, 0)
  PROVE  OthersSame(t) /\ KeepsMine(t) /\ PartOK(t)' /\ PrivateOK(t)'
<1>1. /\ OthersSame(t) /\ thr'[t].pc = "idle" /\ thr'[t].h = None /\ thr'[t].s = None
      /\ thr'[t].a = None /\ thr'[t].ah = None /\ thr'[t].rh = None /\ thr'[t].b = None
  BY MovedSame
<1> QED
  BY <1>1 DEF KeepsMine, PartOK, UserPart, WorkerPart, RemovePCs, ReadPCs, PrivateOK, Private, At

-----------------------------------------------------------------------------
(* Action by action.                                                       *)

\* What is known of thread t in every state.
LEMMA ThreadFacts ==
  ASSUME ConnFacts, NEW t \in Threads
  PROVE  /\ LocalsOK(t) /\ PartOK(t) /\ PrivateOK(t) /\ TypeOK
         /\ t \in Users => t \notin Workers /\ UserPart(t)
         /\ t \notin Users => t \in Workers /\ WorkerPart(t)
BY ConstantsOK DEF ConnFacts, ConnInv, IInv, LocalsInv, PartsInv, PartOK, PrivateInv, Threads

LEMMA AddIndexConn ==
  ASSUME ConnFacts, IInv', Recycle = FALSE, NEW t \in Threads, AddIndex(t)
  PROVE  ConnInv'
<1> USE DEF At
<1>0. /\ LocalsOK(t) /\ PartOK(t) /\ PrivateOK(t) /\ TypeOK /\ thr[t].pc = "add_index"
      /\ UNCHANGED <<table, told, sock, heap, buf, io>> /\ thr[t].a \in Sockets /\ thr[t].ah = None
      /\ thr[t].rh = None
  <2>1. LocalsOK(t) /\ PartOK(t) /\ PrivateOK(t) /\ TypeOK /\ thr[t].pc = "add_index"
    BY ThreadFacts DEF AddIndex
  <2>2. t \notin Users => thr[t].b # None
    BY <2>1, ConstantsOK DEF LocalsOK, Threads
  <2> QED
    BY <2>1, <2>2 DEF AddIndex, bufVars, LocalsOK, PartOK, UserPart, WorkerPart, AcceptPart, ReadPCs,
                      RemovePCs
<1>1. ASSUME NEW i \in FreeIndexes, thr' = [thr EXCEPT ![t].pc = "add_insert", ![t].ah = i]
      PROVE  ConnInv'
  <2>1. i \in Handles /\ i \notin issued /\ i # None /\ i \notin told
    BY <1>0, ConstantsOK DEF FreeIndexes, TypeOK
  <2>2. /\ OthersSame(t) /\ thr'[t].pc = "add_insert" /\ thr'[t].h = thr[t].h
        /\ thr'[t].s = thr[t].s /\ thr'[t].a = thr[t].a /\ thr'[t].ah = i
        /\ thr'[t].rh = thr[t].rh /\ thr'[t].b = thr[t].b
    <3>1. Moved(t, "add_insert", thr[t].h, thr[t].s, thr[t].a, i, thr[t].rh, thr[t].b, thr[t].k)
      BY <1>0, <1>1, <2>1, IndexMoves
    <3> QED
      BY <3>1, MovedSame
  <2>3. /\ BuffersMove(t) /\ FlagsMove(t) /\ TableMoves(t) /\ told' \subseteq told \cup {thr[t].ah}
    BY <1>0, BuffersStill, FlagsStill, TableStill
  <2>4. Private(t)
    BY <1>0 DEF Private
  <2>5. Discreet(t)
    <3>1. \A u \in Threads : u # t /\ Private(u) => thr[u].a # thr[t].s /\ thr[u].a # thr[t].a
      BY DEF ConnFacts, ConnInv, PrivateInv, PrivateOK
    <3> QED
      BY <2>2, <3>1 DEF Discreet
  <2>6. Plain(t)
    BY <2>2, <2>3, <2>5 DEF Plain
  <2>7. PartOK(t)'
    <3>1. thr[t].h # i
      BY <2>1 DEF ConnFacts, IInv, IssuedInv, Maybe
    <3>2. CASE t \in Users
      BY <1>0, <2>1, <2>2, <3>2, ConstantsOK DEF PartOK, UserPart, RemovePCs
    <3>3. CASE t \notin Users
      BY <1>0, <2>1, <2>2, <3>1, <3>3, ConstantsOK DEF PartOK, WorkerPart, AcceptPart, RemovePCs, ReadPCs
    <3> QED
      BY <3>2, <3>3
  <2>8. PrivateOK(t)'
    BY <1>0, <2>1, <2>2, <2>4 DEF PrivateOK, OthersSame
  \* The index is new, and so is the socket.
  <2>9. /\ \A s \in Sockets : ~Claimed(i, s)
        /\ \A h \in Handles : ~Claimed(h, thr[t].a)
    <3>1. /\ table[i] \notin Sockets
          /\ \A b \in heap : buf[b].handle # i
          /\ \A u \in Threads : thr[u].h # i /\ thr[u].ah # i
      BY <1>0, <2>1, ConstantsOK DEF ConnFacts, IInv, IssuedInv, TypeOK, Maybe
    <3>2. \A s \in Sockets : ~Claimed(i, s)
      BY <3>1 DEF Claimed, Mine
    <3>3. /\ \A h \in Handles : table[h] # thr[t].a
          /\ \A b \in heap : buf[b].sock # thr[t].a
          /\ \A u \in Threads : thr[u].s # thr[t].a /\ (u # t => thr[u].a # thr[t].a)
      BY <1>0, <2>4, FreshSocket DEF PrivateOK, ConnFacts, IInv, SocketInv
    <3>4. \A h \in Handles : ~Claimed(h, thr[t].a)
      BY <1>0, <3>3, ConstantsOK DEF Claimed, Mine
    <3> QED
      BY <3>2, <3>4
  <2>10. OneToOne'
    <3>1. ASSUME NEW h \in Handles, NEW s \in Sockets, Claimed(h, s)'
          PROVE  Claimed(h, s) \/ (h = i /\ s = thr[t].a)
      <4>1. table'[h] = s => table[h] = s
        BY <1>0
      <4>2. \A b \in heap' : b \in heap /\ buf'[b] = buf[b] /\ io'[b] = io[b]
        BY <1>0
      <4>3. \A u \in Threads : Mine(u, h, s)' => Mine(u, h, s) \/ (h = i /\ s = thr[t].a)
        BY <2>2 DEF Mine, OthersSame
      <4> QED
        BY <3>1, <4>1, <4>2, <4>3 DEF Claimed
    <3>2. OneToOne
      BY DEF ConnFacts, ConnInv
    <3> QED
      BY <2>1, <2>9, <3>1, <3>2 DEF OneToOne
  <2>11. PartsInv'
    BY <2>6, <2>7, PartsFrame DEF ConnFacts, ConnInv, IInv
  <2>12. FlagsInv'
    BY <2>6, FlagsFrame DEF ConnFacts, ConnInv, IInv
  <2>13. PrivateInv'
    <3>1. None \notin told'
      BY ConstantsOK DEF IInv, TypeOK
    <3> QED
      BY <2>6, <2>8, <3>1, PrivateFrame DEF ConnFacts, ConnInv, IInv
  <2> QED
    BY <2>10, <2>11, <2>12, <2>13 DEF ConnInv
<1>2. CASE IF t \in Users THEN Return(t) ELSE Goto(t, "reset")
  <2>1. CASE t \in Users
    <3>1. Moved(t, "idle", None, None, None, None, None, None, 0)
      BY <1>0, <1>2, <2>1, ReturnMoves
    <3> QED
      BY <1>0, <3>1, DoneOK, AloneFrame
  <2>2. CASE t \notin Users
    <3>1. Moved(t, "reset", thr[t].h, thr[t].s, thr[t].a, thr[t].ah, thr[t].rh, thr[t].b, thr[t].k)
      BY <1>0, <1>2, <2>2, GotoMoves DEF PCs
    <3>2. /\ OthersSame(t) /\ thr'[t].pc = "reset" /\ thr'[t].h = thr[t].h
          /\ thr'[t].s = thr[t].s /\ thr'[t].a = thr[t].a /\ thr'[t].ah = thr[t].ah
          /\ thr'[t].rh = thr[t].rh /\ thr'[t].b = thr[t].b
      BY <3>1, MovedSame
    <3>3. PartOK(t)'
      BY <1>0, <2>2, <3>2 DEF PartOK, WorkerPart, AcceptPart, RemovePCs, ReadPCs
    <3>4. PrivateOK(t)'
      BY <1>0, <3>2 DEF PrivateOK, Private
    <3> QED
      BY <1>0, <3>2, <3>3, <3>4, AloneFrame DEF KeepsMine
  <2> QED
    BY <2>1, <2>2
<1> QED
  BY <1>1, <1>2 DEF AddIndex

LEMMA AddInsertConn ==
  ASSUME ConnFacts, IInv', NEW t \in Threads, AddInsert(t)
  PROVE  ConnInv'
<1> USE DEF At
<1>0. /\ LocalsOK(t) /\ PartOK(t) /\ TypeOK /\ thr[t].pc = "add_insert" /\ UNCHANGED sock
      /\ thr[t].a \in Sockets /\ thr[t].ah \in Handles /\ UNCHANGED <<heap, buf, io>>
  BY ThreadFacts DEF AddInsert, bufVars, LocalsOK
<1>1. /\ told' \subseteq told \cup {thr[t].ah}
      /\ BuffersMove(t) /\ FlagsMove(t)
  BY <1>0, BuffersStill, FlagsStill DEF AddInsert
<1>2. TableMoves(t)
  BY <1>0 DEF AddInsert, TypeOK, TableMoves, Mine
<1>3. CASE t \in Users
  <2>1. Moved(t, "idle", None, None, None, None, None, None, 0)
    BY <1>0, <1>3, ReturnMoves DEF AddInsert
  <2> QED
    BY <1>1, <1>2, <2>1, DoneOK, KeepsFrame
<1>4. CASE t \notin Users
  <2>1. Moved(t, "set_accepted", thr[t].h, thr[t].s, thr[t].a, thr[t].ah, thr[t].rh, thr[t].b, thr[t].k)
    BY <1>0, <1>4, GotoMoves DEF AddInsert, PCs
  <2>2. /\ OthersSame(t) /\ thr'[t].pc = "set_accepted" /\ thr'[t].h = thr[t].h
        /\ thr'[t].s = thr[t].s /\ thr'[t].a = thr[t].a /\ thr'[t].ah = thr[t].ah
        /\ thr'[t].rh = thr[t].rh /\ thr'[t].b = thr[t].b
    BY <2>1, MovedSame
  <2>3. PartOK(t)'
    BY <1>0, <1>4, <2>2 DEF PartOK, WorkerPart, AcceptPart, RemovePCs, ReadPCs
  <2>4. Private(t) /\ PrivateOK(t) /\ told' = told
    BY <1>0, <1>4, ThreadFacts DEF Private, AddInsert
  <2>5. PrivateOK(t)'
    BY <1>0, <2>2, <2>4, StaysPrivate DEF PrivateOK
  <2> QED
    BY <1>1, <1>2, <2>2, <2>3, <2>5, KeepsFrame DEF KeepsMine
<1> QED
  BY <1>3, <1>4

\* After RemoveTcpSocket, a worker that still has its accept buffer arms it again.
LEMMA AfterRemoveOK ==
  ASSUME ConnFacts, NEW t \in Threads, At(t, "remove") \/ At(t, "destroy_index"), AfterRemove(t),
         UNCHANGED sock
  PROVE  OthersSame(t) /\ KeepsMine(t) /\ PartOK(t)' /\ PrivateOK(t)'
<1> USE DEF At
<1>0. /\ LocalsOK(t) /\ PartOK(t) /\ TypeOK /\ thr[t].pc \in {"remove", "destroy_index"}
  BY ThreadFacts
<1>1. CASE Moved(t, "idle", None, None, None, None, None, None, 0)
  BY <1>1, DoneOK
<1>2. CASE /\ thr[t].b # None
           /\ Moved(t, "reset", thr[t].h, thr[t].s, thr[t].a, thr[t].ah, None, thr[t].b, thr[t].k)
  <2>1. /\ OthersSame(t) /\ thr'[t].pc = "reset" /\ thr'[t].h = thr[t].h
        /\ thr'[t].s = thr[t].s /\ thr'[t].a = thr[t].a /\ thr'[t].ah = thr[t].ah
        /\ thr'[t].rh = None /\ thr'[t].b = thr[t].b
    BY <1>2, MovedSame
  <2>2. t \notin Users
    BY <1>0, <1>2 DEF LocalsOK
  <2>3. PartOK(t)'
    BY <1>0, <1>2, <2>1, <2>2 DEF PartOK, WorkerPart, AcceptPart, RemovePCs, ReadPCs
  <2> QED
    BY <2>1, <2>3 DEF KeepsMine, PrivateOK, Private
<1> QED
  BY <1>0, <1>1, <1>2, AfterRemoveMoves

LEMMA RemoveConn ==
  ASSUME ConnFacts, IInv', NEW t \in Threads, RemoveErase(t) \/ RemoveIndex(t)
  PROVE  ConnInv'
<1> USE DEF At
<1>0. /\ LocalsOK(t) /\ PartOK(t) /\ TypeOK /\ thr[t].pc \in {"remove", "destroy_index"}
      /\ UNCHANGED sock /\ UNCHANGED told /\ UNCHANGED <<heap, buf, io>>
  BY ThreadFacts DEF RemoveErase, RemoveIndex, bufVars
<1>1. BuffersMove(t) /\ FlagsMove(t) /\ TableMoves(t) /\ told' \subseteq told \cup {thr[t].ah}
  <2>1. TableMoves(t)
    BY <1>0 DEF RemoveErase, RemoveIndex, TypeOK, TableMoves
  <2> QED
    BY <1>0, <2>1, BuffersStill, FlagsStill
<1>2. CASE AfterRemove(t)
  BY <1>0, <1>1, <1>2, AfterRemoveOK, KeepsFrame
<1>3. CASE thr[t].pc = "remove" /\ Goto(t, "destroy_index")
  <2>1. Moved(t, "destroy_index", thr[t].h, thr[t].s, thr[t].a, thr[t].ah, thr[t].rh, thr[t].b,
              thr[t].k)
    BY <1>0, <1>3, GotoMoves DEF PCs
  <2>2. /\ OthersSame(t) /\ thr'[t].pc = "destroy_index" /\ thr'[t].h = thr[t].h
        /\ thr'[t].s = thr[t].s /\ thr'[t].a = thr[t].a /\ thr'[t].ah = thr[t].ah
        /\ thr'[t].rh = thr[t].rh /\ thr'[t].b = thr[t].b
    BY <2>1, MovedSame
  <2>3. PartOK(t)'
    BY <1>0, <1>3, <2>2 DEF PartOK, UserPart, WorkerPart, AcceptPart, ListenerPart, ConnectionPart,
                            RemovePCs, ReadPCs
  <2>4. PrivateOK(t)'
    <3>1. CASE ~Private(t)'
      BY <3>1 DEF PrivateOK
    <3>2. CASE Private(t)'
      <4>1. Private(t) /\ ~sock[thr[t].a].connect
        BY <1>0, <2>2, <3>2 DEF Private
      <4> QED
        BY <1>0, <2>2, <4>1, StaysPrivate
    <3> QED
      BY <3>1, <3>2
  <2> QED
    BY <1>1, <2>2, <2>3, <2>4, KeepsFrame DEF KeepsMine
<1> QED
  BY <1>2, <1>3 DEF RemoveErase, RemoveIndex

LEMMA CallConn ==
  ASSUME ConnFacts, IInv', NEW t \in Users, Call(t)
  PROVE  ConnInv'
<1> USE DEF At
<1>0. /\ t \in Threads /\ thr[t] = Idle /\ TypeOK
      /\ UNCHANGED <<table, told>> /\ UNCHANGED <<heap, buf, io>>
  BY ThreadFacts DEF Call, TcpCreate, TcpDestroy, TcpListen, TcpConnect, TcpSend, GetTcpSocket, TypeOK,
         Threads, tableVars, bufVars
<1>1. BuffersMove(t) /\ TableMoves(t) /\ told' \subseteq told \cup {thr[t].ah}
  BY <1>0, BuffersStill, TableStill
<1>2. CASE TcpCreate(t)
  <2>1. PICK n \in FreeSockets : /\ sock' = [sock EXCEPT ![n] = [NewSocket EXCEPT !.bind = TRUE]]
                                 /\ thr' = [thr EXCEPT ![t].pc = "add_index", ![t].a = n]
    BY <1>2 DEF TcpCreate
  <2>2. /\ n \in Sockets /\ n # None
        /\ \A h \in Handles : table[h] # n
        /\ \A u \in Threads : thr[u].s # n /\ thr[u].a # n
        /\ \A b \in heap : buf[b].accept # n /\ buf[b].sock # n
    BY NotFree, ConstantsOK
  <2>3. /\ OthersSame(t) /\ thr'[t].pc = "add_index" /\ thr'[t].h = None
        /\ thr'[t].s = None /\ thr'[t].a = n /\ thr'[t].ah = None
        /\ thr'[t].rh = None /\ thr'[t].b = None
    <3>1. Moved(t, "add_index", thr[t].h, thr[t].s, n, thr[t].ah, thr[t].rh, thr[t].b, thr[t].k)
      BY <1>0, <2>1, <2>2, CreateMoves
    <3> QED
      BY <1>0, <3>1, MovedSame, IdleFields
  <2>4. /\ ~sock'[n].listen /\ ~sock'[n].connect
        /\ \A x \in Sockets : x # n => sock'[x] = sock[x]
    <3>1. /\ sock' = [sock EXCEPT ![n] = [NewSocket EXCEPT !.bind = TRUE]]
          /\ [NewSocket EXCEPT !.bind = TRUE].listen = FALSE
          /\ [NewSocket EXCEPT !.bind = TRUE].connect = FALSE
      BY <2>1 DEF NewSocket
    <3> QED
      BY <1>0, <2>2, <3>1 DEF TypeOK
  <2>5. FlagsMove(t)
    BY <2>4 DEF FlagsMove, New
  <2>6. Plain(t)
    <3>1. Discreet(t)
      <4>1. \A u \in Threads : Private(u) => thr[u].a # None /\ thr[u].a # n
        BY <2>2, PrivateSocket DEF ConnFacts, ConnInv
      <4> QED
        BY <2>3, <4>1 DEF Discreet
    <3> QED
      BY <1>1, <2>3, <2>5, <3>1 DEF Plain
  <2>7. PartOK(t)'
    BY <2>3, <1>0 DEF PartOK, UserPart, RemovePCs
  <2>8. PrivateOK(t)'
    BY <1>0, <2>2, <2>3, <2>4, ConstantsOK DEF PrivateOK, OthersSame, TypeOK
  <2>9. \A h \in Handles, s \in Sockets : ~Mine(t, h, s)'
    BY <2>3, ConstantsOK DEF Mine
  <2> QED
    BY <1>0, <2>6, <2>7, <2>8, <2>9, ConnFrame
<1>3. ASSUME NEW h \in told, TcpDestroy(t, h) PROVE ConnInv'
  <2>1. h \in Handles
    BY <1>0 DEF TypeOK
  <2>2. /\ OthersSame(t) /\ thr'[t].pc = "remove" /\ thr'[t].h = None
        /\ thr'[t].s = None /\ thr'[t].a = None /\ thr'[t].ah = None
        /\ thr'[t].rh = h /\ thr'[t].b = None
    <3>1. Moved(t, "remove", thr[t].h, thr[t].s, thr[t].a, thr[t].ah, h, thr[t].b, thr[t].k)
      BY <1>0, <1>3, <2>1, DestroyMoves DEF TcpDestroy, PCs, Maybe
    <3> QED
      BY <1>0, <3>1, MovedSame, IdleFields
  <2>3. PartOK(t)'
    BY <2>2 DEF PartOK, UserPart, RemovePCs
  <2>4. PrivateOK(t)'
    BY <2>1, <2>2, ConstantsOK DEF PrivateOK, Private
  <2>5. UNCHANGED sock
    BY <1>3 DEF TcpDestroy
  <2> QED
    BY <1>0, <2>2, <2>3, <2>4, <2>5, AloneFrame DEF KeepsMine
<1>4. ASSUME NEW h \in told, NEW call \in {"listen", "connect", "send"}, GetTcpSocket(t, call, h)
      PROVE  ConnInv'
  <2>1. h \in Handles /\ h # None /\ table[h] \in Sockets /\ call \in PCs \ {"idle"} /\ UNCHANGED sock
    BY <1>0, <1>4, ConstantsOK DEF TypeOK, GetTcpSocket, PCs, Maybe
  <2>2. /\ OthersSame(t) /\ thr'[t].pc = call /\ thr'[t].h = h
        /\ thr'[t].s = table[h] /\ thr'[t].a = None /\ thr'[t].ah = None
        /\ thr'[t].rh = None /\ thr'[t].b = None
    <3>1. Moved(t, call, h, table[h], thr[t].a, thr[t].ah, thr[t].rh, thr[t].b, thr[t].k)
      BY <1>0, <1>4, <2>1, FindMoves DEF GetTcpSocket
    <3> QED
      BY <1>0, <3>1, MovedSame, IdleFields
  \* The application was told the handle, so no thread has the socket for its own.
  <2>3. Discreet(t)
    <3>1. ASSUME NEW u \in Threads, u # t, Private(u) PROVE thr[u].a \notin {thr'[t].s, thr'[t].a}
      <4>1. thr[u].a \in Sockets /\ thr[u].a # None /\ thr[u].ah \notin told
        BY <3>1, PrivateSocket DEF ConnFacts, ConnInv, PrivateInv, PrivateOK
      <4>2. thr[u].a # table[h]
        <5> SUFFICES ASSUME thr[u].a = table[h] PROVE FALSE
          OBVIOUS
        <5>1. thr[u].pc # "add_index"
          BY FreshSocket, <2>1 DEF ConnFacts, IInv, SocketInv
        <5>2. thr[u].ah \in Handles
          BY <3>1, <5>1, FieldTypes, ThreadFacts DEF Private, LocalsOK, Maybe
        <5>3. Claimed(h, table[h]) /\ Claimed(thr[u].ah, table[h])
          BY DEF Claimed, Mine
        <5>4. h = thr[u].ah
          BY <2>1, <5>2, <5>3 DEF ConnFacts, ConnInv, OneToOne
        <5> QED
          BY <4>1, <5>4
      <4> QED
        BY <2>2, <4>1, <4>2
    <3> QED
      BY <3>1 DEF Discreet
  <2>4. Plain(t)
    BY <1>1, <2>1, <2>2, <2>3, FlagsStill DEF Plain
  <2>5. PartOK(t)'
    BY <2>1, <2>2, ConstantsOK DEF PartOK, UserPart, RemovePCs
  <2>6. PrivateOK(t)'
    BY <2>2 DEF PrivateOK, Private
  <2>7. \A g \in Handles, s \in Sockets : Mine(t, g, s)' => Claimed(g, s)
    BY <2>2, ConstantsOK DEF Mine, Claimed
  <2> QED
    BY <1>0, <2>4, <2>5, <2>6, <2>7, ConnFrame
<1> QED
  BY <1>2, <1>3, <1>4 DEF Call, TcpListen, TcpConnect, TcpSend

LEMMA SubmitMoves ==
  ASSUME TypeOK, NEW t \in Threads, NEW b \in Buffers, NEW type, NEW h, NEW s \in Sockets, NEW a,
         Submit(b, type, h, s, a), Mine(t, h, s),
         \/ type = "recv" /\ sock'[s].connect
         \/ type = "accept" /\ sock'[s].listen
         \/ type = "send",
         a # None => a \in FreeSockets /\ ~sock'[a].listen /\ ~sock'[a].connect
  PROVE  BuffersMove(t)
<1>1. /\ heap' = heap \cup {b} /\ buf'[b].type = type /\ buf'[b].handle = h /\ buf'[b].sock = s
      /\ buf'[b].accept = a
      /\ \A c \in Buffers : c # b => buf'[c] = buf[c] /\ io'[c] = io[c]
  BY DEF Submit, TypeOK
<1>2. Starts(t, b)
  BY <1>1 DEF Starts, New
<1>3. \A c \in heap' : c # b => Goes(c)
  BY <1>1 DEF Goes, TypeOK
<1> QED
  BY <1>2, <1>3 DEF BuffersMove

LEMMA DeleteMoves ==
  ASSUME TypeOK, NEW t \in Threads, NEW b \in Buffers, Delete(b)
  PROVE  BuffersMove(t)
BY DEF BuffersMove, Goes, Delete, TypeOK

LEMMA AcceptCallMoves ==
  ASSUME TypeOK, NEW t \in Threads, NEW b \in Buffers, thr[t].s \in Sockets,
         AsyncTcpAccept(b, thr[t].h, thr[t].s)
  PROVE  BuffersMove(t) /\ FlagsMove(t)
<1>1. PICK n \in FreeSockets : /\ sock' = [sock EXCEPT ![n] = NewSocket]
                               /\ Submit(b, "accept", thr[t].h, thr[t].s, n)
  BY DEF AsyncTcpAccept
<1>2. n \in Sockets /\ thr[t].s # n
  BY NotFree
<1>3. /\ ~sock'[n].listen /\ ~sock'[n].connect
      /\ \A x \in Sockets : x # n => sock'[x] = sock[x]
  BY <1>1, <1>2, ConstantTypes DEF TypeOK
<1>4. sock'[thr[t].s].listen
  BY <1>2, <1>3 DEF AsyncTcpAccept, CanAccept
<1>5. Mine(t, thr[t].h, thr[t].s)
  BY DEF Mine
<1>6. BuffersMove(t)
  BY <1>1, <1>3, <1>4, <1>5, SubmitMoves
<1> QED
  BY <1>3, <1>6 DEF FlagsMove, New

\* A thread that returns.
LEMMA ReturnOK ==
  ASSUME TypeOK, NEW t \in Threads, Return(t)
  PROVE  OthersSame(t) /\ KeepsMine(t) /\ PartOK(t)' /\ PrivateOK(t)'
BY ReturnMoves, DoneOK

LEMMA UserConn ==
  ASSUME ConnFacts, IInv', NEW t \in Threads, Listen(t) \/ ArmAccept(t) \/ Connect(t) \/ Send(t)
  PROVE  ConnInv'
<1> USE DEF At
<1>0. /\ t \in Users /\ TypeOK /\ UNCHANGED <<table, told>>
      /\ thr[t].h \in Handles /\ thr[t].s \in Sockets /\ thr[t].b = None
      /\ thr[t].pc \in {"listen", "arm", "connect", "send"} /\ PartOK(t) /\ UserPart(t)
      /\ thr[t].a = None /\ thr[t].ah = None /\ thr[t].rh = None
      /\ TableMoves(t) /\ told' \subseteq told \cup {thr[t].ah}
  <2>1. LocalsOK(t) /\ TypeOK /\ PartOK(t) /\ UNCHANGED <<table, told>>
        /\ thr[t].pc \in {"listen", "arm", "connect", "send"}
    BY ThreadFacts DEF Listen, ArmAccept, Connect, Send, tableVars
  <2>2. t \in Users
    BY <2>1 DEF LocalsOK, WorkerPCs
  <2> QED
    BY <2>1, <2>2, TableStill DEF LocalsOK, PartOK, UserPart, RemovePCs
<1>1. ASSUME Return(t) PROVE OthersSame(t) /\ KeepsMine(t) /\ PartOK(t)' /\ PrivateOK(t)'
  BY <1>0, <1>1, ReturnOK
<1>2. ASSUME Return(t), UNCHANGED <<sock, bufVars>> PROVE ConnInv'
  <2>1. BuffersMove(t) /\ FlagsMove(t)
    BY <1>2, BuffersStill, FlagsStill DEF bufVars
  <2> QED
    BY <1>0, <1>1, <1>2, <2>1, KeepsFrame
<1>3. CASE Listen(t)
  <2>1. ASSUME ~sock[thr[t].s].connect, sock' = [sock EXCEPT ![thr[t].s].listen = TRUE],
               Goto(t, "arm"), UNCHANGED bufVars
        PROVE  ConnInv'
    <3>1. Moved(t, "arm", thr[t].h, thr[t].s, thr[t].a, thr[t].ah, thr[t].rh, thr[t].b, thr[t].k)
      BY <1>0, <2>1, GotoMoves DEF PCs
    <3>2. /\ OthersSame(t) /\ thr'[t].pc = "arm" /\ thr'[t].h = thr[t].h
          /\ thr'[t].s = thr[t].s /\ thr'[t].a = thr[t].a /\ thr'[t].ah = thr[t].ah
          /\ thr'[t].rh = thr[t].rh /\ thr'[t].b = thr[t].b
      BY <3>1, MovedSame
    <3>3. FlagsMove(t)
      <4>1. /\ sock'[thr[t].s].connect = sock[thr[t].s].connect /\ sock'[thr[t].s].listen
            /\ \A x \in Sockets : x # thr[t].s => sock'[x] = sock[x]
        BY <1>0, <2>1 DEF TypeOK, Flags
      <4> QED
        BY <2>1, <4>1 DEF FlagsMove
    <3>4. PartOK(t)' /\ PrivateOK(t)'
      BY <1>0, <3>2 DEF PartOK, UserPart, RemovePCs, PrivateOK, Private
    <3>5. BuffersMove(t)
      BY <2>1, BuffersStill DEF bufVars
    <3> QED
      BY <1>0, <3>2, <3>3, <3>4, <3>5, KeepsFrame DEF KeepsMine
  <2> QED
    BY <1>2, <1>3, <2>1 DEF Listen
<1>4. CASE Connect(t)
  <2>1. ASSUME ~sock[thr[t].s].listen, sock' = [sock EXCEPT ![thr[t].s].connect = TRUE],
               thr' = [thr EXCEPT ![t].pc = "recv_new", ![t].a = thr[t].s, ![t].ah = thr[t].h],
               UNCHANGED bufVars
        PROVE  ConnInv'
    <3>1. Moved(t, "recv_new", thr[t].h, thr[t].s, thr[t].s, thr[t].h, thr[t].rh, thr[t].b, thr[t].k)
      BY <1>0, <2>1, ConnectMoves
    <3>2. /\ OthersSame(t) /\ thr'[t].pc = "recv_new" /\ thr'[t].h = thr[t].h
          /\ thr'[t].s = thr[t].s /\ thr'[t].a = thr[t].s /\ thr'[t].ah = thr[t].h
          /\ thr'[t].rh = thr[t].rh /\ thr'[t].b = thr[t].b
      BY <3>1, MovedSame
    <3>3. /\ sock'[thr[t].s].listen = sock[thr[t].s].listen /\ sock'[thr[t].s].connect
          /\ \A x \in Sockets : x # thr[t].s => sock'[x] = sock[x]
      BY <1>0, <2>1 DEF TypeOK, Flags
    <3>4. FlagsMove(t)
      BY <2>1, <3>3 DEF FlagsMove
    <3>5. PartOK(t)' /\ PrivateOK(t)'
      BY <1>0, <3>2, <3>3 DEF PartOK, UserPart, RemovePCs, PrivateOK, Private
    <3>6. BuffersMove(t)
      BY <2>1, BuffersStill DEF bufVars
    <3> QED
      BY <1>0, <3>2, <3>4, <3>5, <3>6, KeepsFrame DEF KeepsMine
  <2> QED
    BY <1>2, <1>4, <2>1 DEF Connect
<1>5. CASE Send(t)
  <2>1. ASSUME NEW b \in Buffers \ heap, Submit(b, "send", thr[t].h, thr[t].s, None), Return(t),
               UNCHANGED sock
        PROVE  ConnInv'
    <3>1. Mine(t, thr[t].h, thr[t].s)
      BY DEF Mine
    <3>2. BuffersMove(t)
      BY <1>0, <2>1, <3>1, SubmitMoves
    <3> QED
      BY <1>0, <1>1, <2>1, <3>2, FlagsStill, KeepsFrame
  <2> QED
    BY <1>2, <1>5, <2>1 DEF Send
<1>6. CASE ArmAccept(t)
  <2>1. ASSUME NEW b \in Buffers \ heap, AsyncTcpAccept(b, thr[t].h, thr[t].s),
               IF thr[t].k + 1 = Backlog THEN Return(t) ELSE thr' = [thr EXCEPT ![t].k = @ + 1]
        PROVE  ConnInv'
    <3>1. OthersSame(t) /\ KeepsMine(t) /\ PartOK(t)' /\ PrivateOK(t)'
      <4>1. CASE thr[t].k + 1 = Backlog
        BY <1>1, <2>1, <4>1
      <4>2. CASE thr[t].k + 1 # Backlog
        <5>1. thr'[t] = [thr[t] EXCEPT !.k = @ + 1] /\ OthersSame(t)
          BY <1>0, <2>1, <4>2 DEF TypeOK, OthersSame
        <5>2. /\ thr'[t].pc = "arm" /\ thr'[t].h = thr[t].h /\ thr'[t].s = thr[t].s
              /\ thr'[t].a = thr[t].a /\ thr'[t].ah = thr[t].ah /\ thr'[t].rh = thr[t].rh
              /\ thr'[t].b = thr[t].b
          BY <1>0, <1>6, <5>1, FieldTypes DEF ArmAccept, Locals
        <5> QED
          BY <1>0, <5>1, <5>2 DEF KeepsMine, PartOK, UserPart, RemovePCs, PrivateOK, Private
      <4> QED
        BY <4>1, <4>2
    <3>2. BuffersMove(t) /\ FlagsMove(t)
      BY <1>0, <2>1, AcceptCallMoves
    <3> QED
      BY <1>0, <3>1, <3>2, KeepsFrame
  <2> QED
    BY <1>2, <1>6, <2>1 DEF ArmAccept
<1> QED
  BY <1>3, <1>4, <1>5, <1>6

\* A worker that goes on to report an error after its buffer is gone, or still with it.
LEMMA ErrorOK ==
  ASSUME ConnFacts, NEW t \in Threads, t \notin Users, UNCHANGED sock,
         \/ /\ Moved(t, "on_error", thr[t].h, thr[t].s, thr[t].a, thr[t].ah, thr[t].h, None, thr[t].k)
            /\ thr[t].pc \in {"reset", "parse", "rearm"}
         \/ /\ Moved(t, "on_error", thr[t].h, thr[t].s, thr[t].a, thr[t].ah, thr[t].ah, thr[t].b,
                     thr[t].k)
            /\ thr[t].pc = "recv_new"
  PROVE  OthersSame(t) /\ KeepsMine(t) /\ PartOK(t)' /\ PrivateOK(t)'
<1> USE DEF At
<1>0. /\ LocalsOK(t) /\ PartOK(t) /\ WorkerPart(t) /\ TypeOK /\ t \in Workers
  BY ThreadFacts
<1>1. thr[t].b # None /\ thr[t].h # None
  BY <1>0, ConstantsOK DEF LocalsOK
<1>2. OthersSame(t) /\ KeepsMine(t)
  BY MovedSame DEF KeepsMine
<1>3. CASE /\ thr[t].pc \in {"reset", "parse", "rearm"}
           /\ Moved(t, "on_error", thr[t].h, thr[t].s, thr[t].a, thr[t].ah, thr[t].h, None, thr[t].k)
  <2>1. /\ thr'[t].pc = "on_error" /\ thr'[t].h = thr[t].h
        /\ thr'[t].s = thr[t].s /\ thr'[t].a = thr[t].a /\ thr'[t].ah = thr[t].ah
        /\ thr'[t].rh = thr[t].h /\ thr'[t].b = None
    BY <1>3, MovedSame
  <2>2. PartOK(t)'
    BY <1>0, <1>1, <1>3, <2>1 DEF PartOK, WorkerPart, AcceptPart, ConnectionPart, ListenerPart, RemovePCs,
                                  ReadPCs
  <2>3. thr[t].ah # thr[t].h
    BY <1>0, <1>1, <1>3 DEF WorkerPart, AcceptPart, ConnectionPart, ReadPCs
  <2> QED
    BY <1>2, <2>1, <2>2, <2>3 DEF PrivateOK, Private
<1>4. CASE /\ thr[t].pc = "recv_new"
           /\ Moved(t, "on_error", thr[t].h, thr[t].s, thr[t].a, thr[t].ah, thr[t].ah, thr[t].b,
                    thr[t].k)
  <2>1. /\ thr'[t].pc = "on_error" /\ thr'[t].h = thr[t].h
        /\ thr'[t].s = thr[t].s /\ thr'[t].a = thr[t].a /\ thr'[t].ah = thr[t].ah
        /\ thr'[t].rh = thr[t].ah /\ thr'[t].b = thr[t].b
    BY <1>4, MovedSame
  <2>2. sock[thr[t].a].connect
    BY <1>0, <1>1, <1>4 DEF WorkerPart, AcceptPart, ReadPCs
  <2>3. PartOK(t)'
    BY <1>0, <1>1, <1>4, <2>1 DEF PartOK, WorkerPart, AcceptPart, RemovePCs, ReadPCs
  <2> QED
    BY <1>2, <2>1, <2>2, <2>3 DEF PrivateOK, Private
<1> QED
  BY <1>3, <1>4

LEMMA RecvNewConn ==
  ASSUME ConnFacts, IInv', NEW t \in Threads, RecvNew(t)
  PROVE  ConnInv'
<1> USE DEF At
<1>0. /\ LocalsOK(t) /\ PartOK(t) /\ TypeOK /\ thr[t].pc = "recv_new" /\ UNCHANGED sock
      /\ thr[t].a \in Sockets /\ thr[t].ah \in Handles
      /\ TableMoves(t) /\ FlagsMove(t) /\ told' \subseteq told \cup {thr[t].ah}
  <2>1. LocalsOK(t) /\ PartOK(t) /\ TypeOK /\ thr[t].pc = "recv_new" /\ UNCHANGED <<sock, table, told>>
    BY ThreadFacts DEF RecvNew, tableVars
  <2> QED
    BY <2>1, TableStill, FlagsStill DEF LocalsOK
<1>1. BuffersMove(t)
  <2>1. CASE UNCHANGED bufVars
    BY <2>1, BuffersStill DEF bufVars
  <2>2. ASSUME NEW b \in Buffers \ heap, AsyncTcpRecv(b, thr[t].ah, thr[t].a) PROVE BuffersMove(t)
    <3>1. Mine(t, thr[t].ah, thr[t].a)
      BY DEF Mine
    <3> QED
      BY <1>0, <2>2, <3>1, SubmitMoves DEF AsyncTcpRecv, CanRecv
  <2> QED
    BY <2>1, <2>2 DEF RecvNew
<1>2. OthersSame(t) /\ KeepsMine(t) /\ PartOK(t)' /\ PrivateOK(t)'
  <2>1. CASE Return(t)
    BY <1>0, <2>1, ReturnOK
  <2>2. CASE t \notin Users /\ Goto(t, "reset")
    <3>1. Moved(t, "reset", thr[t].h, thr[t].s, thr[t].a, thr[t].ah, thr[t].rh, thr[t].b, thr[t].k)
      BY <1>0, <2>2, GotoMoves DEF PCs
    <3>2. /\ OthersSame(t) /\ thr'[t].pc = "reset" /\ thr'[t].h = thr[t].h
          /\ thr'[t].s = thr[t].s /\ thr'[t].a = thr[t].a /\ thr'[t].ah = thr[t].ah
          /\ thr'[t].rh = thr[t].rh /\ thr'[t].b = thr[t].b
      BY <3>1, MovedSame
    <3>3. PartOK(t)'
      BY <1>0, <2>2, <3>2 DEF PartOK, WorkerPart, AcceptPart, RemovePCs, ReadPCs
    <3> QED
      BY <1>0, <3>2, <3>3 DEF KeepsMine, PrivateOK, Private, PartOK, RemovePCs
  <2>3. CASE t \notin Users /\ thr' = [thr EXCEPT ![t].pc = "on_error", ![t].rh = thr[t].ah]
    <3>1. Moved(t, "on_error", thr[t].h, thr[t].s, thr[t].a, thr[t].ah, thr[t].ah, thr[t].b, thr[t].k)
      BY <1>0, <2>3, DestroyMoves DEF PCs, Maybe
    <3> QED
      BY <1>0, <2>3, <3>1, ErrorOK
  <2> QED
    BY <2>1, <2>2, <2>3 DEF RecvNew
<1> QED
  BY <1>0, <1>1, <1>2, KeepsFrame

LEMMA AcceptedConn ==
  ASSUME ConnFacts, IInv', NEW t \in Threads, SetAccepted(t) \/ OnTcpAccepted(t)
  PROVE  ConnInv'
<1> USE DEF At
<1>0. /\ LocalsOK(t) /\ PartOK(t) /\ PrivateOK(t) /\ TypeOK /\ thr[t].pc \in {"set_accepted", "on_accepted"}
      /\ WorkerPart(t) /\ t \notin Users /\ t \in Workers /\ Private(t)
      /\ UNCHANGED table /\ UNCHANGED <<heap, buf, io>>
      /\ thr[t].a \in Sockets /\ thr[t].ah \in Handles /\ thr[t].b # None
      /\ sock[thr[t].s].listen /\ thr[t].a # thr[t].s /\ thr[t].ah # thr[t].h
      /\ thr[t].rh = None
  <2>1. LocalsOK(t) /\ PartOK(t) /\ PrivateOK(t) /\ TypeOK /\ thr[t].pc \in {"set_accepted", "on_accepted"}
        /\ UNCHANGED table /\ UNCHANGED <<heap, buf, io>>
    BY ThreadFacts DEF SetAccepted, OnTcpAccepted, tableVars, bufVars
  <2>2. t \notin Users /\ Private(t)
    BY <2>1 DEF LocalsOK, UserPCs, Private
  <2>3. WorkerPart(t) /\ t \in Workers
    BY <2>2, ThreadFacts
  <2>4. thr[t].b # None /\ thr[t].a \in Sockets /\ thr[t].ah \in Handles /\ thr[t].rh = None
    BY <2>1, <2>3, ConstantsOK DEF LocalsOK, PartOK, RemovePCs
  <2> QED
    BY <2>1, <2>2, <2>3, <2>4 DEF WorkerPart, AcceptPart, ReadPCs
<1>1. BuffersMove(t) /\ TableMoves(t)
  BY <1>0, BuffersStill, TableStill
<1>2. CASE SetAccepted(t)
  <2>0. ~sock[thr[t].a].listen /\ ~sock[thr[t].a].connect /\ UNCHANGED told /\ thr[t].pc = "set_accepted"
    BY <1>0, <1>2 DEF PrivateOK, SetAccepted, tableVars
  <2>1. CASE sock' = [sock EXCEPT ![thr[t].a].bind = TRUE, ![thr[t].a].connect = TRUE]
    <3>1. /\ sock'[thr[t].a].listen = sock[thr[t].a].listen
          /\ ~sock'[thr[t].a].listen /\ sock'[thr[t].a].connect
          /\ \A x \in Sockets : x # thr[t].a => sock'[x] = sock[x]
      <4>1. sock'[thr[t].a] = [sock[thr[t].a] EXCEPT !.bind = TRUE, !.connect = TRUE]
        BY <1>0, <2>1 DEF TypeOK
      <4> QED
        BY <1>0, <2>0, <2>1, <4>1 DEF TypeOK, Flags
    <3>2. FlagsMove(t) /\ sock'[thr[t].s].listen
      <4>1. thr[t].s \in Sockets
        BY <1>0 DEF LocalsOK
      <4> QED
        BY <1>0, <2>0, <3>1, <4>1 DEF FlagsMove
    <3>3. CASE Goto(t, "on_accepted")
      <4>1. Moved(t, "on_accepted", thr[t].h, thr[t].s, thr[t].a, thr[t].ah, thr[t].rh, thr[t].b,
                  thr[t].k)
        BY <1>0, <3>3, GotoMoves DEF PCs
      <4>2. /\ OthersSame(t) /\ thr'[t].pc = "on_accepted" /\ thr'[t].h = thr[t].h
            /\ thr'[t].s = thr[t].s /\ thr'[t].a = thr[t].a /\ thr'[t].ah = thr[t].ah
            /\ thr'[t].rh = thr[t].rh /\ thr'[t].b = thr[t].b
        BY <4>1, MovedSame
      <4>3. PartOK(t)'
        BY <1>0, <3>2, <4>2 DEF PartOK, WorkerPart, AcceptPart, RemovePCs, ReadPCs
      <4>4. PrivateOK(t)'
        BY <1>0, <2>0, <3>1, <4>2, StaysPrivate
      <4> QED
        BY <1>1, <2>0, <3>2, <4>2, <4>3, <4>4, KeepsFrame DEF KeepsMine
    <3>4. CASE thr' = [thr EXCEPT ![t].pc = "remove", ![t].rh = thr[t].ah]
      <4>1. Moved(t, "remove", thr[t].h, thr[t].s, thr[t].a, thr[t].ah, thr[t].ah, thr[t].b, thr[t].k)
        BY <1>0, <3>4, DestroyMoves DEF PCs, Maybe
      <4>2. /\ OthersSame(t) /\ thr'[t].pc = "remove" /\ thr'[t].h = thr[t].h
            /\ thr'[t].s = thr[t].s /\ thr'[t].a = thr[t].a /\ thr'[t].ah = thr[t].ah
            /\ thr'[t].rh = thr[t].ah /\ thr'[t].b = thr[t].b
        BY <4>1, MovedSame
      <4>3. PartOK(t)'
        BY <1>0, <3>2, <4>2 DEF PartOK, WorkerPart, AcceptPart, RemovePCs, ReadPCs
      <4>4. PrivateOK(t)'
        BY <3>1, <4>2 DEF PrivateOK, Private
      <4> QED
        BY <1>1, <2>0, <3>2, <4>2, <4>3, <4>4, KeepsFrame DEF KeepsMine
    <3> QED
      BY <1>2, <2>1, <3>3, <3>4 DEF SetAccepted
  <2>2. CASE UNCHANGED sock /\ thr' = [thr EXCEPT ![t].pc = "remove", ![t].rh = thr[t].ah]
    <3>1. Moved(t, "remove", thr[t].h, thr[t].s, thr[t].a, thr[t].ah, thr[t].ah, thr[t].b, thr[t].k)
      BY <1>0, <2>2, DestroyMoves DEF PCs, Maybe
    <3>2. /\ OthersSame(t) /\ thr'[t].pc = "remove" /\ thr'[t].h = thr[t].h
          /\ thr'[t].s = thr[t].s /\ thr'[t].a = thr[t].a /\ thr'[t].ah = thr[t].ah
          /\ thr'[t].rh = thr[t].ah /\ thr'[t].b = thr[t].b
      BY <3>1, MovedSame
    <3>3. PartOK(t)'
      BY <1>0, <2>2, <3>2 DEF PartOK, WorkerPart, AcceptPart, RemovePCs, ReadPCs
    <3>4. PrivateOK(t)'
      BY <1>0, <2>0, <2>2, <3>2, StaysPrivate
    <3> QED
      BY <1>0, <1>1, <2>0, <2>2, <3>2, <3>3, <3>4, FlagsStill, KeepsFrame DEF KeepsMine
  <2> QED
    BY <1>2, <2>1, <2>2 DEF SetAccepted
<1>3. CASE OnTcpAccepted(t)
  <2>0. told' = told \cup {thr[t].ah} /\ UNCHANGED sock /\ thr[t].pc = "on_accepted"
    BY <1>3 DEF OnTcpAccepted
  <2>1. Moved(t, "recv_new", thr[t].h, thr[t].s, thr[t].a, thr[t].ah, thr[t].rh, thr[t].b, thr[t].k)
    BY <1>0, <1>3, GotoMoves DEF OnTcpAccepted, PCs
  <2>2. /\ OthersSame(t) /\ thr'[t].pc = "recv_new" /\ thr'[t].h = thr[t].h
        /\ thr'[t].s = thr[t].s /\ thr'[t].a = thr[t].a /\ thr'[t].ah = thr[t].ah
        /\ thr'[t].rh = thr[t].rh /\ thr'[t].b = thr[t].b
    BY <2>1, MovedSame
  <2>3. sock[thr[t].a].connect
    BY <1>0, <2>0 DEF PrivateOK
  <2>4. PartOK(t)'
    BY <1>0, <2>0, <2>2, <2>3 DEF PartOK, WorkerPart, AcceptPart, RemovePCs, ReadPCs
  <2>5. PrivateOK(t)'
    BY <1>0, <2>2 DEF PrivateOK, Private
  <2> QED
    BY <1>1, <2>0, <2>2, <2>4, <2>5, FlagsStill, KeepsFrame DEF KeepsMine
<1> QED
  BY <1>2, <1>3

LEMMA ResetConn ==
  ASSUME ConnFacts, IInv', NEW t \in Threads, Reset(t)
  PROVE  ConnInv'
<1> USE DEF At
<1>0. /\ LocalsOK(t) /\ TypeOK /\ thr[t].pc = "reset" /\ t \notin Users /\ thr[t].b \in Buffers
      /\ thr[t].h \in Handles /\ thr[t].s \in Sockets
      /\ TableMoves(t) /\ told' \subseteq told \cup {thr[t].ah}
  <2>1. LocalsOK(t) /\ TypeOK /\ thr[t].pc = "reset" /\ UNCHANGED <<table, told>>
    BY ThreadFacts DEF Reset, tableVars
  <2>2. t \notin Users
    BY <2>1 DEF LocalsOK, UserPCs
  <2> QED
    BY <2>1, <2>2, TableStill DEF LocalsOK, Threads
<1>1. CASE AsyncTcpAccept(thr[t].b, thr[t].h, thr[t].s) /\ Return(t)
  <2>1. BuffersMove(t) /\ FlagsMove(t)
    BY <1>0, <1>1, AcceptCallMoves
  <2> QED
    BY <1>0, <1>1, <2>1, ReturnOK, KeepsFrame
<1>2. CASE /\ Delete(thr[t].b) /\ UNCHANGED sock
           /\ thr' = [thr EXCEPT ![t].pc = "on_error", ![t].rh = thr[t].h, ![t].b = None]
  <2>1. BuffersMove(t) /\ FlagsMove(t)
    BY <1>0, <1>2, DeleteMoves, FlagsStill
  <2>2. Moved(t, "on_error", thr[t].h, thr[t].s, thr[t].a, thr[t].ah, thr[t].h, None, thr[t].k)
    BY <1>0, <1>2, ErrorMoves DEF Maybe
  <2>3. OthersSame(t) /\ KeepsMine(t) /\ PartOK(t)' /\ PrivateOK(t)'
    BY <1>0, <1>2, <2>2, ErrorOK
  <2> QED
    BY <1>0, <2>1, <2>3, KeepsFrame
<1> QED
  BY <1>1, <1>2 DEF Reset

LEMMA ReadConn ==
  ASSUME ConnFacts, IInv', NEW t \in Threads, OnRecv(t) \/ OnTcpReceived(t) \/ Rearm(t)
  PROVE  ConnInv'
<1> USE DEF At
<1>0. /\ LocalsOK(t) /\ PartOK(t) /\ WorkerPart(t) /\ TypeOK
      /\ thr[t].pc \in {"parse", "on_received", "rearm"} /\ t \notin Users
      /\ thr[t].b \in Buffers /\ thr[t].h \in Handles /\ thr[t].s \in Sockets
      /\ thr[t].rh = None /\ UNCHANGED sock
      /\ TableMoves(t) /\ FlagsMove(t) /\ told' \subseteq told \cup {thr[t].ah}
  <2>1. /\ LocalsOK(t) /\ PartOK(t) /\ TypeOK /\ thr[t].pc \in {"parse", "on_received", "rearm"}
        /\ UNCHANGED <<table, told, sock>>
    BY ThreadFacts DEF OnRecv, OnTcpReceived, Rearm, tableVars
  <2>2. t \notin Users
    BY <2>1 DEF LocalsOK, UserPCs
  <2> QED
    BY <2>1, <2>2, ThreadFacts, TableStill, FlagsStill DEF LocalsOK, Threads, PartOK, RemovePCs
<1>1. ASSUME NEW pc \in {"on_received", "rearm"}, Goto(t, pc), UNCHANGED bufVars PROVE ConnInv'
  <2>1. Moved(t, pc, thr[t].h, thr[t].s, thr[t].a, thr[t].ah, thr[t].rh, thr[t].b, thr[t].k)
    BY <1>0, <1>1, GotoMoves DEF PCs
  <2>2. /\ OthersSame(t) /\ thr'[t].pc = pc /\ thr'[t].h = thr[t].h
        /\ thr'[t].s = thr[t].s /\ thr'[t].a = thr[t].a /\ thr'[t].ah = thr[t].ah
        /\ thr'[t].rh = thr[t].rh /\ thr'[t].b = thr[t].b
    BY <2>1, MovedSame
  <2>3. PartOK(t)'
    BY <1>0, <2>2 DEF PartOK, WorkerPart, ConnectionPart, RemovePCs, ReadPCs
  <2>4. PrivateOK(t)'
    BY <1>0, <2>2 DEF PrivateOK, Private
  <2>5. BuffersMove(t)
    BY <1>1, BuffersStill DEF bufVars
  <2> QED
    BY <1>0, <2>2, <2>3, <2>4, <2>5, KeepsFrame DEF KeepsMine
<1>2. ASSUME Delete(thr[t].b), thr[t].pc \in {"parse", "rearm"},
             thr' = [thr EXCEPT ![t].pc = "on_error", ![t].rh = thr[t].h, ![t].b = None]
      PROVE  ConnInv'
  <2>1. BuffersMove(t)
    BY <1>0, <1>2, DeleteMoves
  <2>2. Moved(t, "on_error", thr[t].h, thr[t].s, thr[t].a, thr[t].ah, thr[t].h, None, thr[t].k)
    BY <1>0, <1>2, ErrorMoves DEF Maybe
  <2>3. OthersSame(t) /\ KeepsMine(t) /\ PartOK(t)' /\ PrivateOK(t)'
    BY <1>0, <1>2, <2>2, ErrorOK
  <2> QED
    BY <1>0, <2>1, <2>3, KeepsFrame
<1>3. CASE AsyncTcpRecv(thr[t].b, thr[t].h, thr[t].s) /\ Return(t)
  <2>1. Mine(t, thr[t].h, thr[t].s)
    BY DEF Mine
  <2>2. BuffersMove(t)
    BY <1>0, <1>3, <2>1, SubmitMoves DEF AsyncTcpRecv, CanRecv
  <2> QED
    BY <1>0, <1>3, <2>2, ReturnOK, KeepsFrame
<1>4. CASE OnRecv(t)
  BY <1>1, <1>2, <1>4 DEF OnRecv
<1>5. CASE OnTcpReceived(t)
  BY <1>1, <1>5 DEF OnTcpReceived
<1>6. CASE Rearm(t)
  BY <1>2, <1>3, <1>6 DEF Rearm
<1> QED
  BY <1>4, <1>5, <1>6

\* The callbacks after which the socket is removed.
LEMMA LastCallbackConn ==
  ASSUME ConnFacts, IInv', NEW t \in Threads, OnTcpError(t) \/ OnTcpDisconnected(t)
  PROVE  ConnInv'
<1> USE DEF At
<1>0. /\ LocalsOK(t) /\ PartOK(t) /\ WorkerPart(t) /\ TypeOK
      /\ thr[t].pc \in {"on_error", "on_disconnected"} /\ t \notin Users /\ thr[t].rh # None
      /\ UNCHANGED sock /\ UNCHANGED <<table, told>> /\ UNCHANGED <<heap, buf, io>>
  <2>1. /\ LocalsOK(t) /\ PartOK(t) /\ TypeOK /\ thr[t].pc \in {"on_error", "on_disconnected"}
        /\ UNCHANGED sock /\ UNCHANGED <<table, told>> /\ UNCHANGED <<heap, buf, io>>
    BY ThreadFacts DEF OnTcpError, OnTcpDisconnected, tableVars, bufVars
  <2>2. t \notin Users /\ thr[t].rh # None
    BY <2>1, ConstantsOK DEF LocalsOK, UserPCs
  <2> QED
    BY <2>1, <2>2, ThreadFacts
<1>1. Moved(t, "remove", thr[t].h, thr[t].s, thr[t].a, thr[t].ah, thr[t].rh, thr[t].b, thr[t].k)
  BY <1>0, GotoMoves DEF OnTcpError, OnTcpDisconnected, PCs
<1>2. /\ OthersSame(t) /\ thr'[t].pc = "remove" /\ thr'[t].h = thr[t].h
      /\ thr'[t].s = thr[t].s /\ thr'[t].a = thr[t].a /\ thr'[t].ah = thr[t].ah
      /\ thr'[t].rh = thr[t].rh /\ thr'[t].b = thr[t].b
  BY <1>1, MovedSame
<1>3. PartOK(t)'
  BY <1>0, <1>2 DEF LocalsOK, PartOK, WorkerPart, AcceptPart, ConnectionPart, ListenerPart, RemovePCs, ReadPCs
<1>4. thr[t].rh # thr[t].ah \/ sock[thr[t].a].connect
  BY <1>0 DEF LocalsOK, WorkerPart, AcceptPart, ConnectionPart, ListenerPart, RemovePCs, ReadPCs
<1>5. PrivateOK(t)'
  BY <1>0, <1>2, <1>4 DEF PrivateOK, Private
<1> QED
  BY <1>0, <1>2, <1>3, <1>5, AloneFrame DEF KeepsMine

\* The entry that a completion's handle finds is the socket of its operation, and no thread's own.
LEMMA FoundSocket ==
  ASSUME ConnFacts, NEW b \in heap, io[b] # "none", table[buf[b].handle] # None
  PROVE  /\ buf[b].handle \in Handles /\ buf[b].handle # None
         /\ table[buf[b].handle] = buf[b].sock /\ buf[b].sock \in Sockets
         /\ Claimed(buf[b].handle, buf[b].sock)
         /\ \A u \in Threads : Private(u) => thr[u].a # buf[b].sock
<1>1. /\ buf[b].handle \in Handles /\ buf[b].sock \in Sockets
      /\ table[buf[b].handle] \in Sockets
  BY DEF ConnFacts, IInv, FreshInv, TypeOK, Maybe
<1>2. Claimed(buf[b].handle, buf[b].sock) /\ Claimed(buf[b].handle, table[buf[b].handle])
  BY DEF Claimed
<1>3. table[buf[b].handle] = buf[b].sock
  BY <1>1, <1>2 DEF ConnFacts, ConnInv, OneToOne
<1>4. \A u \in Threads : Private(u) => thr[u].a # buf[b].sock
  BY DEF ConnFacts, ConnInv, PrivateInv, PrivateOK
<1> QED
  BY <1>1, <1>2, <1>3, <1>4, ConstantsOK

LEMMA HandleConn ==
  ASSUME ConnFacts, IInv', NEW t \in Workers, Handle(t)
  PROVE  ConnInv'
<1> USE DEF At
<1>0. /\ t \in Threads /\ thr[t] = Idle /\ TypeOK /\ t \notin Users /\ UNCHANGED sock
      /\ TableMoves(t) /\ FlagsMove(t) /\ told' \subseteq told \cup {thr[t].ah}
  <2>1. /\ t \in Threads /\ thr[t] = Idle /\ TypeOK /\ t \notin Users
        /\ UNCHANGED <<table, told, sock>>
    BY ThreadFacts, ConstantsOK DEF Handle, OnTcpAccept, OnTcpSend, OnTcpRecv, Completed, Threads, TypeOK,
                                    tableVars
  <2> QED
    BY <2>1, TableStill, FlagsStill
<1>1. /\ thr[t].h = None /\ thr[t].s = None /\ thr[t].a = None /\ thr[t].ah = None /\ thr[t].rh = None
      /\ thr[t].b = None /\ thr[t].pc = "idle"
  BY <1>0, IdleFields
<1>2. ASSUME NEW b \in heap, Delete(b), UNCHANGED thr PROVE ConnInv'
  <2>1. BuffersMove(t)
    BY <1>0, <1>2, DeleteMoves DEF TypeOK
  <2>2. OthersSame(t) /\ KeepsMine(t)
    BY <1>2 DEF OthersSame, KeepsMine
  <2>3. PartOK(t)' /\ PrivateOK(t)'
    BY <1>0, <1>1, <1>2 DEF PartOK, WorkerPart, RemovePCs, ReadPCs, PrivateOK, Private
  <2> QED
    BY <1>0, <2>1, <2>2, <2>3, KeepsFrame
\* A handler that found the socket: it means what the buffer meant.
<1>3. ASSUME NEW b \in heap, io[b] # "none", table[buf[b].handle] # None, BuffersMove(t), OthersSame(t),
             thr'[t].h = buf[b].handle, thr'[t].s = table[buf[b].handle], thr'[t].ah = None,
             thr'[t].a = None \/ \A u \in Threads : Private(u) => thr[u].a # thr'[t].a,
             PartOK(t)', PrivateOK(t)'
      PROVE  ConnInv'
  <2>1. Discreet(t)
    <3>1. \A u \in Threads : Private(u) => thr[u].a # None
      BY PrivateSocket DEF ConnFacts, ConnInv
    <3> QED
      BY <1>3, <3>1, FoundSocket DEF Discreet
  <2>2. Plain(t)
    BY <1>0, <1>3, <2>1 DEF Plain
  <2>3. \A h \in Handles, s \in Sockets : Mine(t, h, s)' => Claimed(h, s)
    BY <1>3, FoundSocket, ConstantsOK DEF Mine
  <2> QED
    BY <1>0, <1>3, <2>2, <2>3, ConnFrame
<1>4. ASSUME NEW b \in Buffers, OnTcpAccept(t, b) PROVE ConnInv'
  <2>0. b \in heap /\ io[b] # "none" /\ buf[b].type = "accept"
    BY <1>4 DEF OnTcpAccept, Completed
  <2>1. CASE Drop(b)
    BY <1>2, <2>0, <2>1 DEF Drop
  <2>2. CASE table[buf[b].handle] # None
    <3>1. /\ buf[b].handle \in Handles /\ buf[b].handle # None /\ buf[b].accept \in Sockets
          /\ buf[b].accept # None /\ table[buf[b].handle] = buf[b].sock /\ buf[b].sock \in Sockets
          /\ buf[b].sock # None
      <4>1. buf[b].accept \in Sockets
        BY <2>0 DEF ConnFacts, IInv, FreshInv
      <4> QED
        BY <2>0, <2>2, <4>1, FoundSocket, ConstantsOK
    <3>2. /\ thr' = [thr EXCEPT ![t] = [Idle EXCEPT !.pc = "add_index", !.h = buf[b].handle,
                                          !.s = table[buf[b].handle], !.a = buf[b].accept,
                                          !.b = b, !.ok = (io[b] = "ok")]]
          /\ TakeAccepted(b) /\ io' = [io EXCEPT ![b] = "none"] /\ UNCHANGED heap
      BY <1>4, <2>2 DEF OnTcpAccept
    <3>3. (io[b] = "ok") \in BOOLEAN /\ buf[b].accept \in Maybe(Sockets)
      BY <3>1 DEF Maybe
    <3>4. Moved(t, "add_index", buf[b].handle, table[buf[b].handle], buf[b].accept, None, None, b, 0)
      BY <1>0, <3>1, <3>2, <3>3, AcceptMoves
    <3>5. /\ OthersSame(t) /\ thr'[t].pc = "add_index" /\ thr'[t].h = buf[b].handle
          /\ thr'[t].s = table[buf[b].handle] /\ thr'[t].a = buf[b].accept /\ thr'[t].ah = None
          /\ thr'[t].rh = None /\ thr'[t].b = b
      BY <1>0, <3>4, MovedSame
    <3>6. /\ buf'[b].accept = None /\ buf'[b].handle = buf[b].handle /\ buf'[b].sock = buf[b].sock
          /\ buf'[b].type = buf[b].type
          /\ \A c \in Buffers : c # b => buf'[c] = buf[c] /\ io'[c] = io[c]
          /\ io'[b] = "none"
      BY <1>0, <3>2 DEF TakeAccepted, TypeOK, Operations
    <3>7. BuffersMove(t)
      BY <1>0, <3>2, <3>6 DEF BuffersMove, Goes, TypeOK
    \* The accepted socket was the buffer's alone, and it is new.
    <3>8. /\ ~sock[buf[b].accept].listen /\ ~sock[buf[b].accept].connect
          /\ \A c \in heap : buf[c].sock # buf[b].accept
          /\ \A u \in Threads : buf[b].accept \notin {thr[u].s, thr[u].a}
          /\ \A c \in heap \ {b} : buf[b].accept # buf[c].accept
          /\ sock[buf[b].sock].listen
      BY <2>0, <3>1 DEF ConnFacts, ConnInv, FlagsInv, IInv, SocketOwnership
    <3>9. PartOK(t)'
      <4>1. b # None /\ buf[b].accept # buf[b].sock
        BY <2>0, <3>8, ConstantsOK DEF TypeOK
      <4> QED
        BY <1>0, <3>1, <3>5, <3>8, <4>1 DEF PartOK, WorkerPart, AcceptPart, RemovePCs, ReadPCs
    <3>10. PrivateOK(t)'
      <4>1. \A u \in Threads : thr'[u].s # buf[b].accept /\ (u # t => thr'[u].a # buf[b].accept)
        BY <2>0, <3>1, <3>5, <3>8 DEF OthersSame
      <4>2. \A c \in heap' : buf'[c].sock # buf[b].accept /\ buf'[c].accept # buf[b].accept
        BY <1>0, <2>0, <3>1, <3>2, <3>6, <3>8 DEF TypeOK
      <4>3. None \notin told'
        BY ConstantsOK DEF IInv, TypeOK
      <4> QED
        BY <1>0, <3>5, <3>8, <4>1, <4>2, <4>3 DEF PrivateOK
    <3>11. \A u \in Threads : Private(u) => thr[u].a # thr'[t].a
      BY <3>5, <3>8
    <3> QED
      BY <1>3, <2>0, <2>2, <3>5, <3>7, <3>9, <3>10, <3>11
  <2> QED
    BY <1>4, <2>1, <2>2 DEF OnTcpAccept
<1>5. ASSUME NEW b \in Buffers, OnTcpSend(t, b) PROVE ConnInv'
  BY <1>2, <1>5 DEF OnTcpSend, Completed
<1>6. ASSUME NEW b \in Buffers, OnTcpRecv(t, b) PROVE ConnInv'
  <2> DEFINE h == buf[b].handle
             me == [Idle EXCEPT !.h = h, !.s = table[h]]
  <2>0. b \in heap /\ io[b] # "none" /\ buf[b].type = "recv" /\ b # None
    BY <1>0, <1>6, ConstantsOK DEF OnTcpRecv, Completed, TypeOK
  <2>1. CASE Drop(b)
    BY <1>2, <2>0, <2>1 DEF Drop
  <2>2. ASSUME table[h] # None
        PROVE  /\ h \in Handles /\ h # None /\ table[h] \in Sockets /\ table[h] # None
               /\ sock[table[h]].connect
    BY <2>0, <2>2, FoundSocket, ConstantsOK DEF ConnFacts, ConnInv, FlagsInv
  <2>3. ASSUME NEW pc \in {"on_disconnected", "parse"}, table[h] # None, OthersSame(t),
               thr'[t].pc = pc, thr'[t].h = h, thr'[t].s = table[h], thr'[t].a = None,
               thr'[t].ah = None,
               IF pc = "parse" THEN thr'[t].rh = None ELSE thr'[t].rh = h, BuffersMove(t)
        PROVE  ConnInv'
    <3>1. PartOK(t)'
      BY <1>0, <2>2, <2>3 DEF PartOK, WorkerPart, ConnectionPart, RemovePCs, ReadPCs
    <3>2. PrivateOK(t)'
      BY <2>2, <2>3 DEF PrivateOK, Private
    <3> QED
      BY <1>3, <2>0, <2>3, <3>1, <3>2
  <2>4. ASSUME table[h] # None, Delete(b),
               thr' = [thr EXCEPT ![t] = [me EXCEPT !.pc = "on_disconnected", !.rh = h]]
        PROVE  ConnInv'
    <3>1. Moved(t, "on_disconnected", h, table[h], None, None, h, None, 0)
      BY <1>0, <2>2, <2>4, CloseMoves
    <3>2. /\ OthersSame(t) /\ thr'[t].pc = "on_disconnected" /\ thr'[t].h = h
          /\ thr'[t].s = table[h] /\ thr'[t].a = None /\ thr'[t].ah = None
          /\ thr'[t].rh = h /\ thr'[t].b = None
      BY <1>0, <3>1, MovedSame
    <3>3. BuffersMove(t)
      BY <1>0, <2>4, DeleteMoves
    <3> QED
      BY <2>3, <2>4, <3>2, <3>3
  <2>5. ASSUME table[h] # None, io' = [io EXCEPT ![b] = "none"], UNCHANGED <<heap, buf>>,
               thr' = [thr EXCEPT ![t] = [me EXCEPT !.pc = "parse", !.b = b]]
        PROVE  ConnInv'
    <3>1. Moved(t, "parse", h, table[h], None, None, None, b, 0)
      BY <1>0, <2>2, <2>5, ParseMoves
    <3>2. /\ OthersSame(t) /\ thr'[t].pc = "parse" /\ thr'[t].h = h
          /\ thr'[t].s = table[h] /\ thr'[t].a = None /\ thr'[t].ah = None
          /\ thr'[t].rh = None /\ thr'[t].b = b
      BY <1>0, <3>1, MovedSame
    <3>3. BuffersMove(t)
      BY <1>0, <2>0, <2>5 DEF BuffersMove, Goes, TypeOK
    <3> QED
      BY <2>3, <2>5, <3>2, <3>3
  <2> QED
    BY <1>6, <2>1, <2>4, <2>5 DEF OnTcpRecv
<1> QED
  BY <1>4, <1>5, <1>6 DEF Handle

LEMMA KernelConn ==
  ASSUME ConnFacts, NEW b \in Buffers, Complete(b) \/ Abort(b)
  PROVE  ConnInv'
<1>1. /\ UNCHANGED <<table, told, sock, heap, buf, thr>>
      /\ \A c \in Buffers : io'[c] # "none" <=> io[c] # "none"
  BY DEF Complete, Abort, ConnFacts, IInv, TypeOK, tableVars
<1>2. \A c \in heap : c \in Buffers
  BY DEF ConnFacts, IInv, TypeOK
<1>3. OneToOne'
  BY <1>1, <1>2 DEF ConnFacts, ConnInv, OneToOne, Claimed, Mine
<1>4. PartsInv'
  BY <1>1 DEF ConnFacts, ConnInv, PartsInv, PartOK, UserPart, WorkerPart, AcceptPart, ConnectionPart,
              ListenerPart, At
<1>5. FlagsInv'
  BY <1>1, <1>2 DEF ConnFacts, ConnInv, FlagsInv
<1>6. PrivateInv'
  BY <1>1 DEF ConnFacts, ConnInv, PrivateInv, PrivateOK, Private, At
<1> QED
  BY <1>3, <1>4, <1>5, <1>6 DEF ConnInv

LEMMA NextConn == ASSUME ConnFacts, Recycle = FALSE, [Next]_vars PROVE ConnFacts'
<1>1. IInv'
  BY NextIInv DEF ConnFacts
<1>2. ASSUME NEW t \in Threads, Step(t) PROVE ConnInv'
  BY <1>1, <1>2, AddIndexConn, AddInsertConn, RemoveConn, UserConn, RecvNewConn, AcceptedConn, ResetConn,
     ReadConn, LastCallbackConn DEF Step
<1>3. CASE UNCHANGED vars
  <2>1. /\ table' = table /\ told' = told /\ sock' = sock /\ heap' = heap /\ buf' = buf
        /\ io' = io /\ thr' = thr
    BY <1>3 DEF vars
  <2>2. OneToOne'
    BY <2>1 DEF ConnFacts, ConnInv, OneToOne, Claimed, Mine
  <2>3. PartsInv'
    BY <2>1 DEF ConnFacts, ConnInv, PartsInv, PartOK, UserPart, WorkerPart, AcceptPart, ConnectionPart,
                ListenerPart, At
  <2>4. FlagsInv'
    BY <2>1 DEF ConnFacts, ConnInv, FlagsInv
  <2>5. PrivateInv'
    BY <2>1 DEF ConnFacts, ConnInv, PrivateInv, PrivateOK, Private, At
  <2> QED
    BY <1>1, <2>2, <2>3, <2>4, <2>5 DEF ConnInv, ConnFacts
<1> QED
  BY <1>1, <1>2, <1>3, CallConn, HandleConn, KernelConn DEF Next, Kernel, ConnFacts

LEMMA InitConn == Init => ConnFacts
<1> SUFFICES ASSUME Init PROVE ConnInv
  BY InitIInv DEF ConnFacts
<1>1. \A t \in Threads : thr[t] = Idle
  BY DEF Init
<1>2. OneToOne
  BY <1>1, IdleFields, ConstantsOK DEF Init, OneToOne, Claimed, Mine
<1>3. PartsInv
  BY <1>1, IdleFields DEF PartsInv, PartOK, UserPart, WorkerPart, RemovePCs, ReadPCs, At
<1>4. FlagsInv
  BY ConstantTypes DEF Init, FlagsInv
<1>5. PrivateInv
  BY <1>1, IdleFields DEF PrivateInv, PrivateOK, Private
<1> QED
  BY <1>2, <1>3, <1>4, <1>5 DEF ConnInv

LEMMA InvariantConn == ASSUME Recycle = FALSE PROVE Spec => []ConnFacts
<1>1. ConnFacts /\ [Next]_vars => ConnFacts'
  BY NextConn
<1> QED
  BY InitConn, <1>1, PTL DEF Spec

-----------------------------------------------------------------------------
(* A handle means one socket.                                              *)

\* Where the indexer gives no index twice, the handle that a buffer or the locals of a call
\* hold still means their socket, or none: whatever was destroyed and created since
\* (GetTcpSocket in OnTcpAccept and OnTcpRecv, RemoveTcpSocket after a callback).
THEOREM HandlesMeanOneSocket ==
  ASSUME Recycle = FALSE
  PROVE  Spec => []HandleMeansOneSocket
<1>1. ConnFacts => HandleMeansOneSocket
  <2> SUFFICES ASSUME ConnFacts PROVE HandleMeansOneSocket
    OBVIOUS
  <2>1. ASSUME NEW b \in heap, io[b] # "none"
        PROVE  buf[b].handle # None /\ table[buf[b].handle] \in {None, buf[b].sock}
    BY <2>1, FoundSocket, ConstantsOK DEF ConnFacts, IInv, FreshInv
  <2>2. ASSUME NEW t \in Threads, NEW h, NEW s \in Sockets, h \in Handles, Mine(t, h, s)
        PROVE  table[h] \in {None, s}
    <3> SUFFICES ASSUME table[h] # None PROVE table[h] = s
      OBVIOUS
    <3>1. table[h] \in Sockets
      BY <2>2 DEF ConnFacts, IInv, TypeOK, Maybe
    <3>2. Claimed(h, table[h]) /\ Claimed(h, s)
      BY <2>2 DEF Claimed
    <3> QED
      BY <2>2, <3>1, <3>2 DEF ConnFacts, ConnInv, OneToOne
  <2>3. ASSUME NEW t \in Threads
        PROVE  /\ thr[t].s # None => table[thr[t].h] \in {None, thr[t].s}
               /\ thr[t].ah # None => table[thr[t].ah] \in {None, thr[t].a}
    <3>1. PartOK(t) /\ TypeOK
      BY ThreadFacts
    <3>2. /\ thr[t].s # None => thr[t].s \in Sockets /\ thr[t].h \in Handles
          /\ thr[t].ah # None => thr[t].a \in Sockets /\ thr[t].ah \in Handles
      BY <3>1, FieldTypes DEF PartOK, Maybe
    <3>3. Mine(t, thr[t].h, thr[t].s) /\ Mine(t, thr[t].ah, thr[t].a)
      BY DEF Mine
    <3> QED
      BY <2>2, <3>2, <3>3
  <2> QED
    BY <2>1, <2>3 DEF HandleMeansOneSocket
<1> QED
  BY InvariantConn, <1>1, PTL
=============================================================================
