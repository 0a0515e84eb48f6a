--------------------------- MODULE RawTcp_proofs ---------------------------
(***************************************************************************)
(* Proofs about RawTcp, for every set of threads, indexes, sockets and     *)
(* buffers, and every number of accepts for a listener.                    *)
(***************************************************************************)
EXTENDS RawTcp, FiniteSetTheorems, TLAPS

UserPCs     == {"idle", "add_index", "add_insert", "remove", "destroy_index", "listen", "arm",
                "connect", "select", "send", "recv_new"}
WorkerPCs   == PCs \ {"listen", "arm", "connect", "select", "send"}
ServePCs    == {"accept_next", "listen_error", "set_accepted"}
PrivatePCs  == ServePCs \cup {"add_index", "add_insert"}
NoHandlePCs == ServePCs \cup {"idle", "add_index"}

-----------------------------------------------------------------------------
(* The inductive invariant: types, and where each local is set.            *)

\* Worker t is at a point where its unique pointer has a buffer.
Holds(t) ==
  \/ thr[t].pc \in {"accept_next", "on_received", "rearm", "on_disconnected"}
  \/ (At(t, "remove") \/ At(t, "destroy_index")) /\ thr[t].then = "on_disconnected"

UserOK(t) ==
  /\ thr[t].pc \in UserPCs /\ thr[t].b = None /\ thr[t].then = "idle"
  /\ thr[t].l = None /\ thr[t].ls = None
  /\ IF thr[t].pc \in {"idle", "remove", "destroy_index"} THEN thr[t].s = None
                                                         ELSE thr[t].s \in Sockets
  /\ thr[t].k < Backlog

WorkerOK(t) ==
  /\ thr[t].pc \in WorkerPCs
  /\ thr[t].pc # "idle" => thr[t].s \in Sockets
  /\ At(t, "accept_next") => thr[t].l \in Handles /\ thr[t].ls \in Sockets
  /\ At(t, "remove") \/ At(t, "destroy_index") => thr[t].then # "idle"
  /\ IF Holds(t) THEN thr[t].b \in Buffers ELSE thr[t].b = None

LocalsOK(t) ==
  /\ IF thr[t].pc \in NoHandlePCs THEN thr[t].h = None ELSE thr[t].h \in Handles
  /\ thr[t].h \in Maybe(issued) /\ thr[t].l \in Maybe(issued)
  /\ IF t \in Users THEN UserOK(t) ELSE WorkerOK(t)

\* What a buffer's operation was started with, and that an accept has its socket.
BufferOK(b) ==
  /\ buf[b].handle \in issued /\ buf[b].sock \in Sockets
  /\ buf[b].type = "accept" /\ io[b] # "none" => buf[b].accept \in Sockets

ThreadTypes == /\ thr \in [Threads -> Locals]
               /\ \A t \in Threads : (At(t, "idle") => thr[t] = Idle) /\ LocalsOK(t)
TableTypes  == /\ table \in [Handles -> Maybe(Sockets)]
               /\ indexes \subseteq issued /\ issued \subseteq Handles /\ told \subseteq issued
               /\ \A h \in Handles : table[h] # None => h \in issued
BufferTypes == /\ heap \subseteq Buffers
               /\ buf \in [Buffers -> Operations]
               /\ io \in [Buffers -> {"none", "pending", "ok", "zero"}]
               /\ \A b \in heap : BufferOK(b)
StateTypes  == state \in [Sockets -> States]

Typed == ThreadTypes /\ TableTypes /\ BufferTypes /\ StateTypes

-----------------------------------------------------------------------------
(* Whose a socket is. The parties are the threads and the buffers.         *)

Parties == Threads \cup Buffers

\* Party r means socket s by handle h; the table or a party does.
Mine(r, h, s) ==
  IF r \in Threads
  THEN (thr[r].h = h /\ thr[r].s = s) \/ (thr[r].l = h /\ thr[r].ls = s)
  ELSE r \in heap /\ buf[r].handle = h /\ buf[r].sock = s
Claimed(h, s) == table[h] = s \/ \E r \in Parties : Mine(r, h, s)

\* A handle means one socket, and a socket is meant by one handle.
OneToOne ==
  \A g, h \in Handles, r, s \in Sockets : Claimed(g, r) /\ Claimed(h, s) => (g = h <=> r = s)

\* The socket party r alone may know of: one to accept on, one still to be inserted.
Refers(r, s) ==
  IF r \in Threads THEN thr[r].s = s \/ thr[r].ls = s
                   ELSE r \in heap /\ (buf[r].sock = s \/ buf[r].accept = s)
Sole(r) ==
  IF r \in Threads THEN IF thr[r].pc \in PrivatePCs THEN thr[r].s ELSE None
                   ELSE IF r \in heap THEN buf[r].accept ELSE None
SoleOK(r) ==
  Sole(r) # None =>
    /\ \A h \in Handles : table[h] # Sole(r)
    /\ \A q \in Parties \ {r} : ~Refers(q, Sole(r))
    /\ IF r \in Threads THEN thr[r].ls # Sole(r) ELSE buf[r].sock # Sole(r)
SoleInv == \A r \in Parties : SoleOK(r)

-----------------------------------------------------------------------------
(* Who reads a connection.                                                 *)

RecvOf(b) == IF b \in heap /\ io[b] # "none" /\ buf[b].type = "recv" THEN buf[b].sock ELSE None
Reads(r)  == IF r \in Threads THEN Serves(r) ELSE RecvOf(r)

OneReader ==
  \A r, q \in Parties :
    Reads(r) # None /\ Reads(r) = Reads(q) /\ state[Reads(r)] = "accepted" => r = q

\* Only connections are read, and one that was accepted by one party.
ReadInv ==
  /\ OneReader
  /\ \A r \in Parties : Reads(r) # None => Connected(Reads(r))

\* What a user knows of the state of its socket.
UserStateOK(u) ==
  /\ At(u, "recv_new") => state[thr[u].s] = "connected"
  /\ At(u, "add_index") \/ At(u, "add_insert") => state[thr[u].s] # "accepted"
StateInv == \A u \in Users : UserStateOK(u)

\* A handler tells the end of a connection, and ends itself, after the removal.
GonePCs    == {"destroy_index", "on_disconnected", "on_error"}
GoneOK(w)  == thr[w].pc \in GonePCs => table[thr[w].h] = None
GoneInv    == \A w \in Workers : GoneOK(w)

Reading == ReadInv /\ StateInv /\ GoneInv /\ AcceptedNeverDeaf

IInv == Typed /\ IndexOwnership /\ BufferOwnership /\ OneToOne /\ SoleInv /\ Reading

-----------------------------------------------------------------------------
(* What each action does to the locals of its thread.                      *)

Moved(t, pc, h, s, b, then, k, l, ls) ==
  /\ thr' \in [Threads -> Locals]
  /\ thr'[t].pc = pc /\ thr'[t].h = h /\ thr'[t].s = s /\ thr'[t].b = b /\ thr'[t].then = then
  /\ thr'[t].k = k /\ thr'[t].l = l /\ thr'[t].ls = ls
  /\ pc = "idle" => thr'[t] = Idle
  /\ \A u \in Threads : u # t => thr'[u] = thr[u]

\* Only the point where t is changes.
Walks(t, pc) ==
  Moved(t, pc, thr[t].h, thr[t].s, thr[t].b, thr[t].then, thr[t].k, thr[t].l, thr[t].ls)

\* The locals of t go.
Ends(t) == Moved(t, "idle", None, None, None, "idle", 0, None, None)

LEMMA ConstantTypes == Blank \in Operations /\ Idle \in Locals
BY ConstantsOK DEF Blank, Operations, Types, Idle, Locals, PCs, Maybe

LEMMA IdleFields ==
  /\ Idle.pc = "idle" /\ Idle.h = None /\ Idle.s = None /\ Idle.b = None /\ Idle.then = "idle"
  /\ Idle.k = 0 /\ Idle.l = None /\ Idle.ls = None /\ Idle.ok = FALSE
BY DEF Idle

LEMMA FieldTypes ==
  ASSUME Typed, NEW t \in Threads
  PROVE  /\ thr[t] \in Locals /\ thr[t].pc \in PCs
         /\ thr[t].h \in Maybe(Handles) /\ thr[t].s \in Maybe(Sockets)
         /\ thr[t].b \in Maybe(Buffers) /\ thr[t].ok \in BOOLEAN
         /\ thr[t].then \in {"idle", "on_disconnected", "on_error"} /\ thr[t].k \in 0 .. Backlog
         /\ thr[t].l \in Maybe(Handles) /\ thr[t].ls \in Maybe(Sockets)
BY DEF Typed, ThreadTypes, Locals

\* The locals become r.
LEMMA MoveTo ==
  ASSUME Typed, NEW t \in Threads, NEW r \in Locals, thr' = [thr EXCEPT ![t] = r],
         r.pc = "idle" => r = Idle
  PROVE  Moved(t, r.pc, r.h, r.s, r.b, r.then, r.k, r.l, r.ls)
BY DEF Typed, ThreadTypes, Moved

LEMMA ReturnMoves ==
  ASSUME Typed, NEW t \in Threads, Return(t)
  PROVE  Ends(t)
<1>1. Moved(t, Idle.pc, Idle.h, Idle.s, Idle.b, Idle.then, Idle.k, Idle.l, Idle.ls)
  BY ConstantTypes, MoveTo DEF Return
<1> QED
  BY <1>1, IdleFields DEF Ends

LEMMA GotoMoves ==
  ASSUME Typed, NEW t \in Threads, NEW pc \in PCs \ {"idle"}, Goto(t, pc)
  PROVE  Walks(t, pc)
<1> DEFINE r == [thr[t] EXCEPT !.pc = pc]
<1>1. thr' = [thr EXCEPT ![t] = r]
  BY DEF Goto
<1>2. /\ r \in Locals /\ r.pc = pc /\ r.h = thr[t].h /\ r.s = thr[t].s /\ r.b = thr[t].b
      /\ r.then = thr[t].then /\ r.k = thr[t].k /\ r.l = thr[t].l /\ r.ls = thr[t].ls
  BY FieldTypes DEF Locals
<1> HIDE DEF r
<1> QED
  BY <1>1, <1>2, MoveTo DEF Walks

\* AddIndex takes index i, TcpDestroy starts to remove it.
LEMMA HandleMoves ==
  ASSUME Typed, NEW t \in Threads, NEW pc \in PCs \ {"idle"}, NEW i \in Handles,
         thr' = [thr EXCEPT ![t].pc = pc, ![t].h = i]
  PROVE  Moved(t, pc, i, thr[t].s, thr[t].b, thr[t].then, thr[t].k, thr[t].l, thr[t].ls)
<1> DEFINE r == [thr[t] EXCEPT !.pc = pc, !.h = i]
<1>1. thr' = [thr EXCEPT ![t] = r]
  BY DEF Typed, ThreadTypes
<1>2. /\ r \in Locals /\ r.pc = pc /\ r.h = i /\ r.s = thr[t].s /\ r.b = thr[t].b
      /\ r.then = thr[t].then /\ r.k = thr[t].k /\ r.l = thr[t].l /\ r.ls = thr[t].ls
  BY FieldTypes DEF Locals, Maybe
<1> HIDE DEF r
<1> QED
  BY <1>1, <1>2, MoveTo

\* TcpCreate made socket x.
LEMMA CreateMoves ==
  ASSUME Typed, NEW t \in Threads, NEW x \in Sockets,
         thr' = [thr EXCEPT ![t].pc = "add_index", ![t].s = x]
  PROVE  Moved(t, "add_index", thr[t].h, x, thr[t].b, thr[t].then, thr[t].k, thr[t].l, thr[t].ls)
<1> DEFINE r == [thr[t] EXCEPT !.pc = "add_index", !.s = x]
<1>1. thr' = [thr EXCEPT ![t] = r]
  BY DEF Typed, ThreadTypes
<1>2. /\ r \in Locals /\ r.pc = "add_index" /\ r.h = thr[t].h /\ r.s = x /\ r.b = thr[t].b
      /\ r.then = thr[t].then /\ r.k = thr[t].k /\ r.l = thr[t].l /\ r.ls = thr[t].ls
  BY FieldTypes DEF Locals, Maybe, PCs
<1> HIDE DEF r
<1> QED
  BY <1>1, <1>2, MoveTo

\* GetTcpSocket found socket x for handle y.
LEMMA FindMoves ==
  ASSUME Typed, NEW t \in Threads, NEW pc \in PCs \ {"idle"}, NEW y \in Handles, NEW x \in Sockets,
         thr' = [thr EXCEPT ![t].pc = pc, ![t].h = y, ![t].s = x]
  PROVE  Moved(t, pc, y, x, thr[t].b, thr[t].then, thr[t].k, thr[t].l, thr[t].ls)
<1> DEFINE r == [thr[t] EXCEPT !.pc = pc, !.h = y, !.s = x]
<1>1. thr' = [thr EXCEPT ![t] = r]
  BY DEF Typed, ThreadTypes
<1>2. /\ r \in Locals /\ r.pc = pc /\ r.h = y /\ r.s = x /\ r.b = thr[t].b
      /\ r.then = thr[t].then /\ r.k = thr[t].k /\ r.l = thr[t].l /\ r.ls = thr[t].ls
  BY FieldTypes DEF Locals, Maybe
<1> HIDE DEF r
<1> QED
  BY <1>1, <1>2, MoveTo

\* The loop of TcpListen goes on.
LEMMA LoopMoves ==
  ASSUME Typed, NEW t \in Threads, thr[t].pc # "idle", thr[t].k + 1 \in 0 .. Backlog,
         thr' = [thr EXCEPT ![t].k = @ + 1]
  PROVE  Moved(t, thr[t].pc, thr[t].h, thr[t].s, thr[t].b, thr[t].then, thr[t].k + 1, thr[t].l,
               thr[t].ls)
<1> DEFINE r == [thr[t] EXCEPT !.k = @ + 1]
<1>1. thr' = [thr EXCEPT ![t] = r]
  BY DEF Typed, ThreadTypes
<1>2. /\ r \in Locals /\ r.pc = thr[t].pc /\ r.h = thr[t].h /\ r.s = thr[t].s /\ r.b = thr[t].b
      /\ r.then = thr[t].then /\ r.k = thr[t].k + 1 /\ r.l = thr[t].l /\ r.ls = thr[t].ls
  BY FieldTypes DEF Locals
<1> HIDE DEF r
<1> QED
  BY <1>1, <1>2, MoveTo

\* A handler gives its buffer up, or reports that it has none to go on with.
LEMMA RemoveMoves ==
  ASSUME Typed, NEW t \in Threads, NEW then \in {"on_disconnected", "on_error"},
         Remove(t, then)
  PROVE  Moved(t, "remove", thr[t].h, thr[t].s, thr[t].b, then, thr[t].k, thr[t].l, thr[t].ls)
<1> DEFINE r == [thr[t] EXCEPT !.pc = "remove", !.then = then]
<1>1. thr' = [thr EXCEPT ![t] = r]
  BY DEF Typed, ThreadTypes, Remove
<1>2. /\ r \in Locals /\ r.pc = "remove" /\ r.h = thr[t].h /\ r.s = thr[t].s /\ r.b = thr[t].b
      /\ r.then = then /\ r.k = thr[t].k /\ r.l = thr[t].l /\ r.ls = thr[t].ls
  BY FieldTypes DEF Locals, PCs
<1> HIDE DEF r
<1> QED
  BY <1>1, <1>2, MoveTo

LEMMA DropMoves ==
  ASSUME Typed, NEW t \in Threads, NEW pc \in PCs \ {"idle"},
         thr' = [thr EXCEPT ![t].pc = pc, ![t].b = None]
  PROVE  Moved(t, pc, thr[t].h, thr[t].s, None, thr[t].then, thr[t].k, thr[t].l, thr[t].ls)
<1> DEFINE r == [thr[t] EXCEPT !.pc = pc, !.b = None]
<1>1. thr' = [thr EXCEPT ![t] = r]
  BY DEF Typed, ThreadTypes
<1>2. /\ r \in Locals /\ r.pc = pc /\ r.h = thr[t].h /\ r.s = thr[t].s /\ r.b = None
      /\ r.then = thr[t].then /\ r.k = thr[t].k /\ r.l = thr[t].l /\ r.ls = thr[t].ls
  BY FieldTypes DEF Locals, Maybe
<1> HIDE DEF r
<1> QED
  BY <1>1, <1>2, MoveTo

LEMMA FailMoves ==
  ASSUME Typed, NEW t \in Threads,
         thr' = [thr EXCEPT ![t].pc = "remove", ![t].then = "on_error", ![t].b = None]
  PROVE  Moved(t, "remove", thr[t].h, thr[t].s, None, "on_error", thr[t].k, thr[t].l, thr[t].ls)
<1> DEFINE r == [thr[t] EXCEPT !.pc = "remove", !.then = "on_error", !.b = None]
<1>1. thr' = [thr EXCEPT ![t] = r]
  BY DEF Typed, ThreadTypes
<1>2. /\ r \in Locals /\ r.pc = "remove" /\ r.h = thr[t].h /\ r.s = thr[t].s /\ r.b = None
      /\ r.then = "on_error" /\ r.k = thr[t].k /\ r.l = thr[t].l /\ r.ls = thr[t].ls
  BY FieldTypes DEF Locals, Maybe, PCs
<1> HIDE DEF r
<1> QED
  BY <1>1, <1>2, MoveTo

\* OnTcpAccept found the listener x and moved socket y out of buffer b.
LEMMA AcceptMoves ==
  ASSUME Typed, NEW t \in Threads, NEW g \in Handles, NEW x \in Sockets, NEW y \in Sockets,
         NEW b \in Buffers, NEW ok \in BOOLEAN,
         thr' = [thr EXCEPT ![t] = [Idle EXCEPT !.pc = "accept_next", !.l = g, !.ls = x,
                                      !.s = y, !.b = b, !.ok = ok]]
  PROVE  Moved(t, "accept_next", None, y, b, "idle", 0, g, x)
<1> DEFINE r == [Idle EXCEPT !.pc = "accept_next", !.l = g, !.ls = x, !.s = y, !.b = b, !.ok = ok]
<1>1. /\ r \in Locals /\ r.pc = "accept_next" /\ r.h = None /\ r.s = y /\ r.b = b
      /\ r.then = "idle" /\ r.k = 0 /\ r.l = g /\ r.ls = x
  BY ConstantTypes, IdleFields DEF Locals, Maybe, PCs
<1>2. thr' = [thr EXCEPT ![t] = r]
  OBVIOUS
<1> HIDE DEF r
<1>3. Moved(t, r.pc, r.h, r.s, r.b, r.then, r.k, r.l, r.ls)
  BY <1>1, <1>2, MoveTo, Zenon
<1> QED
  BY <1>1, <1>3

\* OnTcpRecv found the connection x, with data or closed.
LEMMA RecvMoves ==
  ASSUME Typed, NEW t \in Threads, NEW g \in Handles, NEW x \in Sockets, NEW b \in Buffers
  PROVE  /\ thr' = [thr EXCEPT ![t] = [[Idle EXCEPT !.h = g, !.s = x, !.b = b]
                                         EXCEPT !.pc = "on_received"]]
              => Moved(t, "on_received", g, x, b, "idle", 0, None, None)
         /\ thr' = [thr EXCEPT ![t] = [[Idle EXCEPT !.h = g, !.s = x, !.b = b]
                                         EXCEPT !.pc = "remove", !.then = "on_disconnected"]]
              => Moved(t, "remove", g, x, b, "on_disconnected", 0, None, None)
<1> DEFINE me == [Idle EXCEPT !.h = g, !.s = x, !.b = b]
           r  == [me EXCEPT !.pc = "on_received"]
           q  == [me EXCEPT !.pc = "remove", !.then = "on_disconnected"]
<1>1. /\ me \in Locals /\ me.h = g /\ me.s = x /\ me.b = b /\ me.then = "idle"
      /\ me.k = 0 /\ me.l = None /\ me.ls = None
  BY ConstantTypes, IdleFields DEF Locals, Maybe
<1> HIDE DEF me
<1>2. /\ r \in Locals /\ r.pc = "on_received" /\ r.h = g /\ r.s = x /\ r.b = b
      /\ r.then = "idle" /\ r.k = 0 /\ r.l = None /\ r.ls = None
  BY <1>1 DEF Locals, Maybe, PCs
<1>3. /\ q \in Locals /\ q.pc = "remove" /\ q.h = g /\ q.s = x /\ q.b = b
      /\ q.then = "on_disconnected" /\ q.k = 0 /\ q.l = None /\ q.ls = None
  BY <1>1 DEF Locals, Maybe, PCs
<1> HIDE DEF r, q
<1>4. thr' = [thr EXCEPT ![t] = r] => Moved(t, "on_received", g, x, b, "idle", 0, None, None)
  BY <1>2, MoveTo
<1>5. thr' = [thr EXCEPT ![t] = q]
        => Moved(t, "remove", g, x, b, "on_disconnected", 0, None, None)
  BY <1>3, MoveTo
<1> QED
  BY <1>4, <1>5 DEF me, r, q

-----------------------------------------------------------------------------
(* Steps of thread t, and of buffer q if it changes one, and their types.  *)

\* Nothing changes but the locals of t and buffer q (or no buffer, when q is t).
Only(t, q) ==
  /\ q \in Buffers \cup {t}
  /\ \A u \in Threads : u # t => thr'[u] = thr[u]
  /\ \A c \in Buffers : c # q => (c \in heap' <=> c \in heap) /\ buf'[c] = buf[c] /\ io'[c] = io[c]

\* No buffer changes but b.
Frame(b) ==
  \A c \in Buffers : c # b => (c \in heap' <=> c \in heap) /\ buf'[c] = buf[c] /\ io'[c] = io[c]

\* What buffer b is after the step.
Becomes(b, type, h, s, a, i) ==
  /\ b \in heap' /\ io'[b] = i
  /\ buf'[b].type = type /\ buf'[b].handle = h /\ buf'[b].sock = s /\ buf'[b].accept = a

LEMMA ThreadStep ==
  ASSUME Typed, issued \subseteq issued', NEW t \in Threads, NEW pc, NEW h, NEW s, NEW b, NEW then,
         NEW k, NEW l, NEW ls, Moved(t, pc, h, s, b, then, k, l, ls), LocalsOK(t)'
  PROVE  ThreadTypes'
<1>1. ASSUME NEW u \in Threads, u # t PROVE LocalsOK(u)'
  <2>1. thr'[u] = thr[u] /\ LocalsOK(u)
    BY <1>1 DEF Moved, Typed, ThreadTypes
  <2> QED
    BY <2>1 DEF LocalsOK, UserOK, WorkerOK, Holds, At, Maybe
<1> QED
  BY <1>1 DEF Moved, Typed, ThreadTypes, At

LEMMA SameThreads == ASSUME Typed, issued \subseteq issued', UNCHANGED thr PROVE ThreadTypes'
<1>1. ASSUME NEW u \in Threads PROVE LocalsOK(u)'
  BY DEF Typed, ThreadTypes, LocalsOK, UserOK, WorkerOK, Holds, At, Maybe
<1> QED
  BY <1>1 DEF Typed, ThreadTypes, At

LEMMA SameBuffers ==
  ASSUME Typed, issued \subseteq issued', UNCHANGED bufVars
  PROVE  BufferTypes' /\ \A b : Frame(b)
BY DEF Typed, BufferTypes, BufferOK, bufVars, Frame

LEMMA ReleaseStep ==
  ASSUME Typed, UNCHANGED issued, NEW b \in Buffers, NEW type \in Types, NEW h \in issued,
         NEW s \in Sockets, NEW a \in Maybe(Sockets), type = "accept" => a \in Sockets,
         Release(b, type, h, s, a)
  PROVE  BufferTypes' /\ Frame(b) /\ Becomes(b, type, h, s, a, "pending")
<1> DEFINE r == [type |-> type, handle |-> h, accept |-> a, sock |-> s]
<1>1. /\ r \in Operations /\ r.type = type /\ r.handle = h /\ r.accept = a /\ r.sock = s
      /\ buf' = [buf EXCEPT ![b] = r]
  BY DEF Typed, TableTypes, Operations, Release, Maybe
<1> HIDE DEF r
<1> QED
  BY <1>1 DEF Typed, BufferTypes, BufferOK, Release, Frame, Becomes

LEMMA DeleteStep ==
  ASSUME Typed, UNCHANGED issued, NEW b \in Buffers, Delete(b)
  PROVE  BufferTypes' /\ Frame(b) /\ b \notin heap' /\ io'[b] = "none"
BY ConstantTypes DEF Typed, BufferTypes, BufferOK, Delete, Frame

\* A handler takes buffer b over, or deletes it when its handle means no socket any more.
LEMMA TakeStep ==
  ASSUME Typed, UNCHANGED issued, NEW t \in Threads, NEW b \in Buffers, NEW locals,
         Take(t, b, locals), b \in heap
  PROVE  /\ BufferTypes' /\ Frame(b)
         /\ \/ table[buf[b].handle] = None /\ UNCHANGED thr /\ b \notin heap' /\ io'[b] = "none"
            \/ /\ table[buf[b].handle] # None /\ thr' = [thr EXCEPT ![t] = locals]
               /\ Becomes(b, buf[b].type, buf[b].handle, buf[b].sock, None, "none")
<1>1. CASE table[buf[b].handle] = None
  BY <1>1, DeleteStep DEF Take
<1>2. CASE table[buf[b].handle] # None
  <2> DEFINE r == [buf[b] EXCEPT !.accept = None]
  <2>1. /\ r \in Operations /\ r.type = buf[b].type /\ r.handle = buf[b].handle
        /\ r.sock = buf[b].sock /\ r.accept = None
    BY DEF Typed, BufferTypes, Operations, Maybe
  <2>2. buf' = [buf EXCEPT ![b] = r] /\ io' = [io EXCEPT ![b] = "none"] /\ heap' = heap
    BY <1>2 DEF Take
  <2> HIDE DEF r
  <2>3. BufferTypes' /\ Frame(b)
    BY <2>1, <2>2 DEF Typed, BufferTypes, BufferOK, Frame
  <2> QED
    BY <1>2, <2>1, <2>2, <2>3 DEF Take, Becomes, Typed, BufferTypes
<1> QED
  BY <1>1, <1>2

-----------------------------------------------------------------------------
(* Steps that keep the ownership of indexes and buffers.                   *)

\* Threads that own no index before and after, or the same.
LEMMA IndexFrame ==
  ASSUME IndexOwnership, UNCHANGED <<table, indexes>>, NEW t \in Threads,
         \A u \in Threads : u # t => thr'[u] = thr[u],
         \A h \in Handles : Owns(t, h)' <=> Owns(t, h)
  PROVE  IndexOwnership'
<1>1. \A u \in Threads, h \in Handles : Owns(u, h)' <=> Owns(u, h)
  BY DEF Owns, At
<1> QED
  BY <1>1 DEF IndexOwnership

\* Buffer q changes hands between the kernel and thread t, or the threads keep theirs.
LEMMA BufferStep ==
  ASSUME BufferOwnership, Typed, heap' \subseteq Buffers, NEW t \in Threads, NEW q, Only(t, q),
         t \in Users => thr'[t].b = None,
         IF q \in Buffers
         THEN /\ thr[t].b \in {None, q} /\ thr'[t].b \in {None, q}
              /\ \A w \in Workers : w # t => thr[w].b # q
              /\ IF q \in heap' THEN io'[q] = "none" <=> thr'[t].b = q
                                ELSE io'[q] = "none" /\ thr'[t].b # q
         ELSE thr'[t].b = thr[t].b
  PROVE  BufferOwnership'
<1> USE ConstantsOK DEF Threads
<1>0. t \in Users => thr[t].b = None
  BY DEF Typed, ThreadTypes, LocalsOK, UserOK
<1>1. ASSUME NEW b \in Buffers
      PROVE  /\ b \in heap' => (io'[b] = "none" <=> \E w \in Workers : thr'[w].b = b)
             /\ b \notin heap' => io'[b] = "none" /\ \A w \in Workers : thr'[w].b # b
  <2>1. CASE b = q
    BY <1>0, <1>1, <2>1 DEF BufferOwnership, Only
  <2>2. CASE b # q
    <3>1. (b \in heap' <=> b \in heap) /\ io'[b] = io[b]
      BY <1>1, <2>2 DEF Only
    <3>2. \A w \in Workers : thr'[w].b = b <=> thr[w].b = b
      BY <1>1, <2>2 DEF Only
    <3> QED
      BY <1>1, <3>1, <3>2 DEF BufferOwnership
  <2> QED
    BY <2>1, <2>2
<1>2. ASSUME NEW v \in Workers, NEW w \in Workers, thr'[v].b = thr'[w].b PROVE v = w \/ thr'[v].b = None
  BY <1>0, <1>2 DEF BufferOwnership, Only
<1> QED
  BY <1>1, <1>2 DEF BufferOwnership

\* A buffer that is in the hands of the kernel is in nobody else's, and the other way round.
LEMMA Held ==
  ASSUME BufferOwnership, Typed
  PROVE  /\ \A b \in Buffers : io[b] # "none" => b \in heap /\ \A t \in Threads : thr[t].b # b
         /\ \A t \in Threads : thr[t].b # None =>
              /\ thr[t].b \in heap /\ io[thr[t].b] = "none"
              /\ \A u \in Threads : thr[u].b = thr[t].b => u = t
         /\ \A b \in Buffers \ heap : io[b] = "none" /\ \A t \in Threads : thr[t].b # b
<1>1. \A t \in Threads \ Workers : thr[t].b = None
  BY DEF Typed, ThreadTypes, LocalsOK, UserOK, Threads
<1>2. \A t \in Threads : thr[t].b \in Maybe(Buffers)
  BY FieldTypes
<1> QED
  BY <1>1, <1>2, ConstantsOK DEF BufferOwnership, Maybe, Typed, BufferTypes

-----------------------------------------------------------------------------
(* Steps that keep what handles mean and whose sockets are.                *)

LEMMA ClaimStep ==
  ASSUME OneToOne, NEW t \in Threads, NEW q, Only(t, q),
         \A h \in Handles, s \in Sockets :
           Mine(t, h, s)' \/ Mine(q, h, s)' \/ table'[h] = s => Claimed(h, s)
  PROVE  OneToOne'
<1>1. ASSUME NEW h \in Handles, NEW s \in Sockets, NEW r \in Parties, Mine(r, h, s)', r \notin {t, q}
      PROVE  Mine(r, h, s)
  BY <1>1 DEF Mine, Only, Parties
<1>2. \A h \in Handles, s \in Sockets : Claimed(h, s)' => Claimed(h, s)
  BY <1>1 DEF Claimed
<1> QED
  BY <1>2 DEF OneToOne

LEMMA SoleStep ==
  ASSUME SoleInv, Typed, NEW t \in Threads, NEW q, Only(t, q),
         \A s \in Sockets : Refers(t, s)' \/ Refers(q, s)' =>
           \/ Refers(t, s) \/ Refers(q, s) \/ s \in FreeSockets
           \/ \E h \in Handles : table[h] = s,
         \A h \in Handles, s \in Sockets : table'[h] = s => table[h] = s \/ s = Sole(t),
         SoleOK(t)', SoleOK(q)'
  PROVE  SoleInv'
<1> SUFFICES ASSUME NEW r \in Parties, r \notin {t, q}, Sole(r)' # None PROVE SoleOK(r)'
  BY DEF SoleInv, SoleOK
<1>1. Sole(r)' = Sole(r) /\ (r \in Threads => thr'[r] = thr[r])
      /\ (r \notin Threads => r \in Buffers /\ buf'[r] = buf[r])
  BY DEF Sole, Only, Parties
<1>2. PICK x : x = Sole(r)
  OBVIOUS
<1>3. x \in Sockets /\ Refers(r, x)
  <2>1. CASE r \in Threads
    BY <1>1, <1>2, <2>1, FieldTypes DEF Sole, Refers, Maybe
  <2>2. CASE r \notin Threads
    BY <1>1, <1>2, <2>2 DEF Sole, Refers, Typed, BufferTypes, Operations, Maybe
  <2> QED
    BY <2>1, <2>2
<1>4. /\ \A h \in Handles : table[h] # x
      /\ \A p \in Parties \ {r} : ~Refers(p, x)
      /\ IF r \in Threads THEN thr[r].ls # x ELSE buf[r].sock # x
  BY <1>1, <1>2 DEF SoleInv, SoleOK
<1>5. x \notin FreeSockets
  BY <1>3 DEF FreeSockets, Referenced, Refers, Typed, BufferTypes
<1>6. t \in Parties /\ q \in Parties
  BY DEF Parties, Only
<1>7. Sole(t) # x
  <2>1. thr[t].s # x
    BY <1>4, <1>6 DEF Refers
  <2> QED
    BY <2>1, <1>3, ConstantsOK DEF Sole
<1>8. \A p \in Parties \ {r} : ~Refers(p, x)'
  <2>1. \A p \in Parties \ {r, t, q} : ~Refers(p, x)'
    BY <1>4 DEF Refers, Only, Parties
  <2> QED
    BY <2>1, <1>3, <1>4, <1>5, <1>6
<1>9. \A h \in Handles : table'[h] # x
  BY <1>3, <1>4, <1>7
<1> QED
  BY <1>1, <1>2, <1>4, <1>8, <1>9 DEF SoleOK

\* Thread t and buffer q refer to no more than before, and nothing enters the table.
LEMMA PlainStep ==
  ASSUME OneToOne, SoleInv, Typed, NEW t \in Threads, NEW q, Only(t, q),
         \A h \in Handles, s \in Sockets : Mine(t, h, s)' => Mine(t, h, s),
         \A s \in Sockets : Refers(t, s)' => Refers(t, s),
         thr'[t].ls \in {None, thr[t].ls},
         Sole(t)' \in {None, Sole(t)},
         \A h \in Handles : table'[h] \in {None, table[h]},
         \/ q = t
         \/ /\ q \in Buffers /\ Sole(q)' = None
            /\ \A h \in Handles, s \in Sockets :
                 Mine(q, h, s)' => Sole(t)' = None /\ Claimed(h, s)
            /\ \A s \in Sockets : Refers(q, s)' =>
                 Sole(t)' = None /\ (Refers(t, s) \/ Refers(q, s))
  PROVE  OneToOne' /\ SoleInv'
<1>0. None \notin Sockets /\ t \in Parties
  BY ConstantsOK DEF Parties
<1>1. OneToOne'
  <2>1. \A h \in Handles, s \in Sockets : Mine(t, h, s)' => Claimed(h, s)
    BY <1>0 DEF Claimed
  <2>2. \A h \in Handles, s \in Sockets : table'[h] = s => Claimed(h, s)
    BY <1>0 DEF Claimed
  <2> QED
    BY <2>1, <2>2, ClaimStep
<1>2. SoleOK(t)'
  <2> SUFFICES ASSUME Sole(t)' # None PROVE SoleOK(t)'
    BY DEF SoleOK
  <2>1. PICK x : x = Sole(t)
    OBVIOUS
  <2>2. Sole(t)' = x /\ x # None /\ x \in Sockets
    BY <2>1, FieldTypes DEF Sole, Maybe
  <2>3. /\ \A h \in Handles : table[h] # x
        /\ \A p \in Parties \ {t} : ~Refers(p, x)
        /\ thr[t].ls # x
    BY <1>0, <2>1, <2>2 DEF SoleInv, SoleOK
  <2>4. \A p \in Parties \ {t} : ~Refers(p, x)'
    <3>1. \A p \in Parties \ {t, q} : ~Refers(p, x)'
      BY <2>3 DEF Refers, Only, Parties
    <3>2. q = t \/ ~Refers(q, x)'
      BY <2>2
    <3> QED
      BY <3>1, <3>2
  <2> QED
    BY <2>2, <2>3, <2>4 DEF SoleOK
<1>3. SoleOK(q)'
  BY <1>2 DEF SoleOK
<1>4. \A h \in Handles, s \in Sockets : table'[h] = s => table[h] = s \/ s = Sole(t)
  BY <1>0
<1>5. \A s \in Sockets : Refers(t, s)' \/ Refers(q, s)' =>
           \/ Refers(t, s) \/ Refers(q, s) \/ s \in FreeSockets
           \/ \E h \in Handles : table[h] = s
  OBVIOUS
<1>6. SoleInv'
  BY <1>2, <1>3, <1>4, <1>5, SoleStep
<1> QED
  BY <1>1, <1>6

-----------------------------------------------------------------------------
(* Readers, and the steps that keep what is known of them.                 *)

CStep == [C!Next]_(C!vars)

\* Two threads that connect one socket may both read it: ReadersTakeOver's exception.
Joins(s) == \E u \in Users : At(u, "select") /\ At(u, "recv_new")' /\ thr[u].s = s
TakesOver ==
  \A s \in Sockets :
    Readers(s) # {} /\ ~(Readers(s)' \subseteq Readers(s)) => ~(Readers(s) \subseteq Readers(s)') \/ Joins(s)

\* User t's TcpConnect of socket s returns false.
Fails(t, s) ==
  t \in Users /\ (At(t, "select") \/ At(t, "recv_new")) /\ thr[t].s = s /\ At(t, "idle")'
LossTold ==
  \A h \in Handles, s \in Sockets :
    table[h] = s /\ table'[h] = s /\ Watchers(s) # {} /\ Watchers(s)' = {} => \E u \in Users : Fails(u, s)

\* What the action properties say of a step.
Promised == CStep /\ TakesOver /\ LossTold

Read(s) == \E r \in Parties : Reads(r) = s

ViewsOK ==
  /\ None \notin Sockets
  /\ \A b \in Buffers : b \notin Threads
  /\ \A r \in Parties : /\ Reads(r) \in Maybe(Sockets)
                        /\ Reads(r) # None => Refers(r, Reads(r)) /\ Reads(r) \notin FreeSockets
  /\ \A t \in Threads : Calling(t) \in {None, Reads(t)}
  /\ \A s \in Sockets : /\ s \in Open <=> state[s] = "accepted" /\ Read(s)
                        /\ Readers(s) # {} <=> Read(s)
                        /\ \A r : r \in Readers(s) <=> r \in Parties /\ Reads(r) = s

LEMMA NotFree ==
  ASSUME Typed, NEW s
  PROVE  /\ \A r \in Parties : Refers(r, s) => s \notin FreeSockets
         /\ \A h \in Handles : table[h] = s => s \notin FreeSockets
         /\ \A t \in Threads : thr[t].s = s \/ thr[t].ls = s => s \notin FreeSockets
BY DEF FreeSockets, Referenced, Refers, Parties

LEMMA ViewsAlways == Typed => ViewsOK
<1> SUFFICES ASSUME Typed PROVE ViewsOK
  OBVIOUS
<1>1. None \notin Sockets /\ \A b \in Buffers : b \notin Threads
  BY ConstantsOK
<1>2. ASSUME NEW t \in Threads
      PROVE  /\ Serves(t) \in Maybe(Sockets) /\ Calling(t) \in {None, Serves(t)}
             /\ Serves(t) # None => thr[t].s = Serves(t)
  <2>1. LocalsOK(t) /\ thr[t].s \in Maybe(Sockets)
    BY FieldTypes DEF Typed, ThreadTypes
  <2>2. t \in Users => thr[t].pc \in UserPCs
    BY <2>1 DEF LocalsOK, UserOK
  <2> QED
    BY <2>1, <2>2, ConstantsOK DEF Serves, Calling, Maybe, At, UserPCs, Threads
<1>3. ASSUME NEW b \in Buffers
      PROVE  RecvOf(b) \in Maybe(Sockets) /\ (RecvOf(b) # None => Refers(b, RecvOf(b)))
  BY <1>1, <1>3 DEF RecvOf, Refers, Typed, BufferTypes, BufferOK, Maybe
<1>4. \A r \in Parties : /\ Reads(r) \in Maybe(Sockets)
                         /\ Reads(r) # None => Refers(r, Reads(r))
  BY <1>2, <1>3 DEF Reads, Parties, Refers
<1>5. \A r \in Parties : Reads(r) # None => Reads(r) \notin FreeSockets
  BY <1>4, NotFree
<1>6. \A t \in Threads : Calling(t) \in {None, Reads(t)}
  BY <1>2 DEF Reads
<1>7. ASSUME NEW s \in Sockets
      PROVE  \A r : r \in Readers(s) <=> r \in Parties /\ Reads(r) = s
  <2>1. \A b \in heap : b \in Buffers
    BY DEF Typed, BufferTypes
  <2>2. \A b \in Buffers : b \in Readers(s) <=> RecvOf(b) = s
    BY <1>1 DEF Readers, RecvOf
  <2>3. \A t \in Threads : t \in Readers(s) <=> Serves(t) = s
    BY <1>1, <2>1 DEF Readers
  <2>4. \A r : r \in Readers(s) => r \in Parties
    BY <2>1 DEF Readers, Parties
  <2> QED
    BY <1>1, <2>2, <2>3, <2>4 DEF Reads, Parties
<1>8. \A s \in Sockets : Readers(s) # {} <=> Read(s)
  BY <1>7 DEF Read
<1> QED
  BY <1>1, <1>4, <1>5, <1>6, <1>7, <1>8 DEF ViewsOK, Open

LEMMA ViewsNext == Typed' => ViewsOK'
BY ViewsAlways, PTL

\* No socket that somebody refers to stops to be connected, and none is accepted.
StateKept ==
  \A s \in Sockets : /\ s \notin FreeSockets /\ Connected(s) => state'[s] = state[s]
                     /\ state'[s] = "accepted" => state[s] = "accepted"

\* What thread t enters into the table, if anything, is not missed by anybody.
TableKept(t) ==
  \A h \in Handles : table'[h] \notin {None, table[h]} =>
    /\ table'[h] = Reads(t)' \/ state'[table'[h]] # "accepted"
    /\ \A w \in Workers : w # t => thr[w].h # h \/ thr[w].pc \notin GonePCs

\* What thread t knows after the step.
KnowsOK(t) == (t \in Users => UserStateOK(t)) /\ (t \in Workers => GoneOK(t))

\* If thread t waits in select it waits on, or its TcpConnect returns false.
WaitKept(t) ==
  t \in Users /\ At(t, "select") => At(t, "idle")' \/ (At(t, "select")' /\ thr'[t].s = thr[t].s)

LEMMA OthersRead ==
  ASSUME NEW t \in Threads, NEW q, Only(t, q)
  PROVE  /\ t \in Parties /\ q \in Parties
         /\ \A r \in Parties : r \notin {t, q} => Reads(r)' = Reads(r)
         /\ \A u \in Threads : u # t => Calling(u)' = Calling(u)
<1>1. \A u \in Threads : u # t => Serves(u)' = Serves(u) /\ Calling(u)' = Calling(u)
  BY DEF Only, Serves, Calling, At
<1>2. \A c \in Buffers : c # q => RecvOf(c)' = RecvOf(c)
  BY DEF Only, RecvOf
<1> QED
  BY <1>1, <1>2 DEF Reads, Parties, Only

\* A socket that is read stays what it is, whoever reads it.
LEMMA ReadKept ==
  ASSUME Typed, ReadInv, StateKept, NEW r \in Parties, NEW s, s = Reads(r), s # None
  PROVE  s \in Sockets /\ Connected(s) /\ state'[s] = state[s]
<1>1. s \in Sockets /\ s \notin FreeSockets
  BY ViewsAlways DEF ViewsOK, Maybe
<1>2. Connected(s)
  BY DEF ReadInv
<1> QED
  BY <1>1, <1>2 DEF StateKept

\* Thread t and buffer q read what they read before, or less.
LEMMA ReadStep ==
  ASSUME Typed, ReadInv, NEW t \in Threads, NEW q, Only(t, q),
         q = t \/ Reads(t)' = None \/ Reads(q)' = None,
         \A p \in {t, q} : Reads(p)' \in {None, Reads(t), Reads(q)},
         StateKept
  PROVE  ReadInv'
<1>1. /\ t \in Parties /\ q \in Parties
      /\ \A r \in Parties : r \notin {t, q} => Reads(r)' = Reads(r)
  BY OthersRead
<1>2. ASSUME NEW r \in Parties, NEW x, x = Reads(r)', x # None
      PROVE  /\ \E p \in Parties : Reads(p) = x /\ (p = r \/ (r \in {t, q} /\ p \in {t, q}))
             /\ x \in Sockets /\ Connected(x) /\ state'[x] = state[x]
  <2>1. \E p \in Parties : Reads(p) = x /\ (p = r \/ (r \in {t, q} /\ p \in {t, q}))
    BY <1>1, <1>2
  <2> QED
    BY <1>2, <2>1, ReadKept
<1>3. OneReader'
  <2> SUFFICES ASSUME NEW p \in Parties, NEW o \in Parties, Reads(p)' = Reads(o)', Reads(p)' # None,
                      state'[Reads(p)'] = "accepted"
               PROVE  p = o
    BY DEF OneReader
  <2>1. PICK x : x = Reads(p)' /\ x = Reads(o)' /\ x # None /\ state[x] = "accepted"
    BY <1>2
  <2>2. CASE p \notin {t, q} /\ o \notin {t, q}
    BY <1>1, <2>1, <2>2 DEF ReadInv, OneReader
  <2>3. CASE p \in {t, q} /\ o \in {t, q}
    BY <2>3
  <2>4. CASE (p \in {t, q} /\ o \notin {t, q}) \/ (o \in {t, q} /\ p \notin {t, q})
    <3>1. PICK r \in {t, q} : Reads(r) = x
      BY <1>1, <1>2, <2>1, <2>4
    <3>2. PICK u \in {p, o} : u \notin {t, q} /\ Reads(u) = x
      BY <1>1, <2>1, <2>4
    <3>3. r = u
      BY <1>1, <2>1, <3>1, <3>2 DEF ReadInv, OneReader
    <3> QED
      BY <3>1, <3>2, <3>3
  <2> QED
    BY <2>2, <2>3, <2>4
<1>4. ASSUME NEW r \in Parties, Reads(r)' # None PROVE Connected(Reads(r))'
  <2>1. PICK x : x = Reads(r)'
    OBVIOUS
  <2>2. Connected(x) /\ state'[x] = state[x]
    BY <1>2, <1>4, <2>1
  <2> QED
    BY <2>1, <2>2 DEF Connected
<1> QED
  BY <1>3, <1>4 DEF ReadInv

LEMMA StateStep ==
  ASSUME Typed, StateInv, GoneInv, NEW t \in Threads,
         \A u \in Threads : u # t => thr'[u] = thr[u],
         StateKept, TableKept(t), KnowsOK(t)'
  PROVE  StateInv' /\ GoneInv'
<1>1. ASSUME NEW u \in Users, u # t PROVE UserStateOK(u)'
  <2>1. thr'[u] = thr[u] /\ UserStateOK(u)
    BY <1>1 DEF Threads, StateInv
  <2>2. /\ At(u, "recv_new") \/ At(u, "add_index") \/ At(u, "add_insert") => thr[u].s \in Sockets
        /\ thr[u].s \notin FreeSockets
    BY NotFree DEF Typed, ThreadTypes, LocalsOK, UserOK, At, Threads
  <2> QED
    BY <2>1, <2>2 DEF UserStateOK, StateKept, Connected, At
<1>2. ASSUME NEW w \in Workers, w # t PROVE GoneOK(w)'
  <2>1. thr'[w] = thr[w] /\ GoneOK(w)
    BY <1>2 DEF Threads, GoneInv
  <2>2. thr[w].pc \in GonePCs => thr[w].h \in Handles
    BY ConstantsOK DEF Typed, ThreadTypes, LocalsOK, NoHandlePCs, ServePCs, GonePCs, Threads
  <2> QED
    BY <1>2, <2>1, <2>2 DEF GoneOK, TableKept
<1> QED
  BY <1>1, <1>2 DEF KnowsOK, StateInv, GoneInv

\* A connection whose reader reads on, or that is in no entry, or new in one, is not deaf.
LEMMA DeafStep ==
  ASSUME Typed, Typed', AcceptedNeverDeaf, NEW t \in Threads, NEW q, Only(t, q),
         \A s \in Sockets : state'[s] = "accepted" => state[s] = "accepted" \/ s = Reads(t)',
         TableKept(t),
         \A p \in {t, q} : \/ Reads(p) \in {None, Reads(t)', Reads(q)'}
                           \/ state[Reads(p)] # "accepted"
                           \/ \A h \in Handles : table'[h] # Reads(p)
  PROVE  AcceptedNeverDeaf'
<1>1. ViewsOK /\ ViewsOK'
  BY ViewsAlways, ViewsNext
<1>2. /\ t \in Parties /\ q \in Parties
      /\ \A r \in Parties : r \notin {t, q} => Reads(r)' = Reads(r)
  BY OthersRead
<1> SUFFICES ASSUME NEW h \in Handles, table'[h] # None, state'[table'[h]] = "accepted"
             PROVE  Readers(table[h])' # {}
  BY DEF AcceptedNeverDeaf
<1>3. PICK s : s = table'[h]
  OBVIOUS
<1>4. s \in Sockets
  BY <1>3 DEF Typed, TableTypes, Maybe
<1>5. \E r \in Parties : Reads(r)' = s
  <2>1. CASE s = Reads(t)'
    BY <1>2, <2>1
  <2>2. CASE s # Reads(t)'
    <3>1. table[h] = s /\ state[s] = "accepted"
      BY <1>3, <1>4, <2>2 DEF TableKept
    <3>2. Readers(s) # {}
      BY <1>1, <1>4, <3>1 DEF AcceptedNeverDeaf, ViewsOK
    <3>3. PICK r \in Parties : Reads(r) = s
      BY <1>1, <1>4, <3>2 DEF ViewsOK
    <3>4. CASE r \notin {t, q}
      BY <1>2, <3>3, <3>4
    <3>5. CASE r \in {t, q}
      <4>1. s # None
        BY <1>1, <1>4 DEF ViewsOK
      <4> QED
        BY <1>2, <1>3, <3>1, <3>3, <3>5, <4>1
    <3> QED
      BY <3>4, <3>5
  <2> QED
    BY <2>1, <2>2
<1>6. Readers(s)' # {}
  BY <1>1, <1>4, <1>5 DEF ViewsOK
<1> QED
  BY <1>3, <1>6

\* A callback about an accepted connection that another thread makes goes on.
LEMMA OthersCall ==
  ASSUME Typed, ReadInv, NEW t \in Threads, NEW q, Only(t, q), StateKept
  PROVE  \A u \in Threads : u # t => CallingAccepted(u)' = CallingAccepted(u)
<1> SUFFICES ASSUME NEW u \in Threads, u # t PROVE CallingAccepted(u)' = CallingAccepted(u)
  OBVIOUS
<1>1. PICK x : x = Calling(u) /\ x = Calling(u)'
  BY OthersRead
<1>2. x # None => state'[x] = state[x]
  BY <1>1, ReadKept, ViewsAlways DEF ViewsOK, Parties
<1> QED
  BY <1>1, <1>2 DEF CallingAccepted

\* A socket that still has a reader, or lost its last one to a TcpConnect that fails, or
\* is in no entry: this is all that can happen to it.
LEMMA LossStep ==
  ASSUME Typed, Typed', NEW t \in Threads, NEW q, Only(t, q),
         WaitKept(t) \/ (t \in Users /\ Reads(t)' = thr[t].s),
         \A s \in Sockets : Read(s) => Read(s)' \/ Fails(t, s) \/ \A h \in Handles : table'[h] # s
  PROVE  LossTold
<1>1. ViewsOK /\ ViewsOK' /\ t \in Parties
  BY ViewsAlways, ViewsNext DEF Parties
<1> SUFFICES ASSUME NEW h \in Handles, NEW s \in Sockets, table'[h] = s,
                    Watchers(s) # {}, Watchers(s)' = {}
             PROVE  \E u \in Users : Fails(u, s)
  BY DEF LossTold
<1>2. /\ ~Read(s)' /\ \A u \in Users : ~(At(u, "select")' /\ thr'[u].s = s)
  BY <1>1 DEF Watchers, ViewsOK
<1>3. CASE Read(s)
  BY <1>2, <1>3 DEF Fails
<1>4. CASE \E u \in Users : At(u, "select") /\ thr[u].s = s
  <2>1. PICK u \in Users : At(u, "select") /\ thr[u].s = s
    BY <1>4
  <2>2. u = t
    BY <1>2, <2>1 DEF Only, At, Threads
  <2>3. Reads(t)' # s
    BY <1>1, <1>2 DEF Read
  <2> QED
    BY <1>2, <2>1, <2>2, <2>3 DEF WaitKept, Fails
<1> QED
  BY <1>1, <1>3, <1>4 DEF Watchers, ViewsOK

\* What thread t or buffer q reads anew, one of them read before.
LEMMA TakeOverStep ==
  ASSUME Typed, Typed', NEW t \in Threads, NEW q, Only(t, q),
         \A s \in Sockets, p \in {t, q} :
           Reads(p)' = s /\ Reads(p) # s =>
             (\E r \in {t, q} : Reads(r) = s /\ Reads(r)' # s) \/ ~Read(s) \/ Joins(s)
  PROVE  TakesOver
<1>1. ViewsOK /\ ViewsOK' /\ t \in Parties /\ q \in Parties
  BY OthersRead, ViewsAlways, ViewsNext
<1> SUFFICES ASSUME NEW s \in Sockets, Readers(s) # {}, NEW p, p \in Readers(s)', p \notin Readers(s)
             PROVE  ~(Readers(s) \subseteq Readers(s)') \/ Joins(s)
  BY DEF TakesOver
<1>2. Read(s) /\ p \in Parties /\ Reads(p)' = s /\ Reads(p) # s
  BY <1>1 DEF ViewsOK
<1>3. p \in {t, q}
  BY <1>2, OthersRead
<1>4. (\E r \in {t, q} : Reads(r) = s /\ Reads(r)' # s) \/ Joins(s)
  BY <1>2, <1>3
<1> QED
  BY <1>1, <1>4 DEF ViewsOK

\* Thread t and buffer q hand what they read to each other, and t begins a callback about it,
\* returns from one, or does neither.
LEMMA HandKeeps ==
  ASSUME Typed, Typed', Reading, NEW t \in Threads, NEW q, Only(t, q),
         q = t \/ Reads(t)' = None \/ Reads(q)' = None,
         {Reads(t)', Reads(q)'} \cup {None} = {Reads(t), Reads(q)} \cup {None},
         \/ Calling(t)' = Calling(t)
         \/ Calling(t) = None /\ Calling(t)' \in {Reads(t), Reads(q)}
         \/ Calling(t)' = None,
         StateKept, TableKept(t), WaitKept(t), KnowsOK(t)'
  PROVE  Reading' /\ Promised
<1>1. ViewsOK /\ ViewsOK' /\ ReadInv
  BY ViewsAlways, ViewsNext DEF Reading
<1>2. /\ t \in Parties /\ q \in Parties
      /\ \A r \in Parties : r \notin {t, q} => Reads(r)' = Reads(r)
      /\ \A u \in Threads : u # t => CallingAccepted(u)' = CallingAccepted(u)
  BY <1>1, OthersRead, OthersCall
<1>3. ReadInv'
  BY <1>1, ReadStep
<1>4. StateInv' /\ GoneInv'
  BY StateStep DEF Reading, Only
<1>5. AcceptedNeverDeaf'
  BY DeafStep DEF Reading, StateKept
<1>6. \A s \in Sockets : Read(s)' <=> Read(s)
  BY <1>1, <1>2 DEF Read, ViewsOK
<1>7. \A s \in Sockets : Read(s) => state'[s] = state[s]
  BY <1>1, ReadKept DEF Read, ViewsOK
<1>8. Open' = Open
  <2>1. \A s \in Sockets : s \in Open' <=> s \in Open
    BY <1>1, <1>6, <1>7 DEF ViewsOK
  <2> QED
    BY <2>1 DEF Open
<1>9. CStep
  <2>1. CASE CallingAccepted(t)' = CallingAccepted(t)
    BY <1>2, <1>8, <2>1 DEF CStep, C!vars
  <2>2. CASE CallingAccepted(t)' # CallingAccepted(t) /\ CallingAccepted(t)' # None
    <3>1. PICK s : s = CallingAccepted(t)' /\ s = Calling(t)' /\ state'[s] = "accepted" /\ s # None
      BY <2>2 DEF CallingAccepted
    <3>2. s \in Sockets /\ s \in Open
      BY <1>1, <1>8, <3>1 DEF ViewsOK, Parties, Maybe, Read
    <3>3. state[s] = "accepted" /\ Calling(t) = None
      BY <2>2, <3>1, <3>2 DEF StateKept, CallingAccepted
    <3>4. PICK p \in {t, q} : Reads(p) = s
      BY <3>1, <3>3
    <3>5. \A u \in Threads : u # t => CallingAccepted(u) # s
      <4> SUFFICES ASSUME NEW u \in Threads, u # t, CallingAccepted(u) = s PROVE FALSE
        OBVIOUS
      <4>1. Reads(u) = s /\ u \in Parties
        BY <1>1, <3>1 DEF CallingAccepted, ViewsOK, Parties
      <4>2. u = p
        BY <1>1, <1>2, <3>1, <3>3, <3>4, <4>1 DEF ReadInv, OneReader
      <4> QED
        BY <1>1, <4>2 DEF ViewsOK, Only
    <3>6. CallingAccepted(t) = None
      BY <3>3 DEF CallingAccepted
    <3>7. C!Quiet(s)
      BY <3>1, <3>5, <3>6 DEF C!Quiet
    <3> QED
      BY <1>2, <1>8, <3>1, <3>2, <3>6, <3>7 DEF CStep, C!Next, C!Begin
  <2>3. CASE CallingAccepted(t)' # CallingAccepted(t) /\ CallingAccepted(t)' = None
    BY <1>2, <1>8, <2>3 DEF CStep, C!Next, C!Return
  <2> QED
    BY <2>1, <2>2, <2>3
<1>10. LossTold
  BY <1>6, LossStep
<1>11. TakesOver
  <2>1. ASSUME NEW s \in Sockets, NEW p \in {t, q}, Reads(p)' = s, Reads(p) # s
        PROVE  \E r \in {t, q} : Reads(r) = s /\ Reads(r)' # s
    BY <1>1, <2>1 DEF ViewsOK
  <2> QED
    BY <2>1, TakeOverStep
<1> QED
  BY <1>3, <1>4, <1>5, <1>9, <1>10, <1>11 DEF Reading, Promised

\* Thread t and buffer q stop to read connection s, after its last callback or without one.
LEMMA EndKeeps ==
  ASSUME Typed, Typed', Reading, NEW t \in Threads, NEW q, Only(t, q), NEW s \in Sockets,
         Reads(t) = s \/ Reads(q) = s, {Reads(t), Reads(q)} \subseteq {None, s},
         Reads(t)' = None, Reads(q)' = None,
         Calling(t) = None \/ Calling(t) = s, Calling(t)' = None,
         (Fails(t, s) /\ state[s] # "accepted") \/ \A h \in Handles : table'[h] # s,
         StateKept, TableKept(t), WaitKept(t), KnowsOK(t)'
  PROVE  Reading' /\ Promised
<1>1. ViewsOK /\ ViewsOK' /\ ReadInv /\ s # None
  BY ViewsAlways, ViewsNext DEF Reading, ViewsOK
<1>2. /\ t \in Parties /\ q \in Parties
      /\ \A r \in Parties : r \notin {t, q} => Reads(r)' = Reads(r)
      /\ \A u \in Threads : u # t => CallingAccepted(u)' = CallingAccepted(u)
  BY <1>1, OthersRead, OthersCall
<1>3. ReadInv'
  BY <1>1, ReadStep
<1>4. StateInv' /\ GoneInv'
  BY StateStep DEF Reading, Only
<1>5. AcceptedNeverDeaf'
  BY DeafStep DEF Reading, StateKept
<1>6. \A x \in Sockets : /\ Read(x) => state'[x] = state[x]
                         /\ x # s => (Read(x)' <=> Read(x))
  <2>1. \A x \in Sockets : Read(x) => state'[x] = state[x]
    BY <1>1, ReadKept DEF Read, ViewsOK
  <2> QED
    BY <1>1, <1>2, <2>1 DEF Read, ViewsOK
<1>7. CallingAccepted(t)' = None /\ (CallingAccepted(t) = None \/ (CallingAccepted(t) = s /\ Calling(t) = s))
  BY DEF CallingAccepted
<1>8. ASSUME state[s] = "accepted" PROVE CStep
  <2>1. \A r \in Parties : Reads(r) = s => r \in {t, q}
    BY <1>1, <1>2, <1>8 DEF ReadInv, OneReader
  <2>2. s \in Open /\ ~Read(s)'
    BY <1>1, <1>2, <1>8, <2>1 DEF ViewsOK, Read
  <2>3. Open' = Open \ {s}
    <3>1. \A x \in Sockets : x \in Open' <=> x \in Open /\ x # s
      BY <1>1, <1>6, <2>2 DEF ViewsOK
    <3> QED
      BY <3>1 DEF Open
  <2>4. CASE CallingAccepted(t) = s
    BY <1>1, <1>2, <1>7, <2>3, <2>4 DEF CStep, C!Next, C!Last
  <2>5. CASE CallingAccepted(t) = None
    <3>1. \A u \in Threads : CallingAccepted(u) # s
      <4> SUFFICES ASSUME NEW u \in Threads, CallingAccepted(u) = s PROVE FALSE
        OBVIOUS
      <4>1. Reads(u) = s /\ u \in Parties
        BY <1>1 DEF CallingAccepted, ViewsOK, Parties
      <4> QED
        BY <1>1, <2>1, <2>5, <4>1 DEF ViewsOK, Only
    <3>2. C!Quiet(s)
      BY <3>1 DEF C!Quiet
    <3>3. [u \in Threads |-> CallingAccepted(u)]' = [u \in Threads |-> CallingAccepted(u)]
      BY <1>2, <1>7, <2>5
    <3> QED
      BY <2>2, <2>3, <3>2, <3>3 DEF CStep, C!Next, C!Lose
  <2> QED
    BY <1>7, <2>4, <2>5
<1>9. ASSUME state[s] # "accepted" PROVE CStep
  <2>1. state'[s] # "accepted"
    BY <1>9 DEF StateKept
  <2>2. Open' = Open
    <3>1. \A x \in Sockets : x \in Open' <=> x \in Open
      BY <1>1, <1>6, <1>9, <2>1 DEF ViewsOK
    <3> QED
      BY <3>1 DEF Open
  <2>3. CallingAccepted(t) = None
    BY <1>9 DEF CallingAccepted
  <2> QED
    BY <1>2, <1>7, <2>2, <2>3 DEF CStep, C!vars
<1>10. LossTold
  BY <1>6, LossStep
<1>11. TakesOver
  <2>1. \A x \in Sockets, p \in {t, q} : Reads(p)' # x
    BY <1>1 DEF ViewsOK
  <2> QED
    BY <2>1, TakeOverStep
<1> QED
  BY <1>3, <1>4, <1>5, <1>8, <1>9, <1>10, <1>11 DEF Reading, Promised

\* Thread t begins to read connection s: one it has accepted, which nobody else knows, or
\* one that it connected or waited for.
LEMMA StartKeeps ==
  ASSUME Typed, Typed', Reading, NEW t \in Threads, Only(t, t), NEW s \in Sockets,
         Reads(t)' = s, Reads(t) = None, Calling(t) = None, Calling(t)' = None,
         Connected(s)', UNCHANGED table,
         \A x \in Sockets : x # s => state'[x] = state[x],
         Read(s) => state'[s] = state[s] /\ Joins(s),
         \/ state'[s] = "connected" /\ state[s] # "accepted"
         \/ /\ ~Read(s)
            /\ \A u \in Users : u # t => thr[u].s # s \/ thr[u].pc \notin {"add_index", "add_insert"},
         t \in Users /\ At(t, "select") => thr[t].s = s,
         KnowsOK(t)'
  PROVE  Reading' /\ Promised
<1>0. TableKept(t) /\ s # None
  BY ConstantsOK DEF TableKept
<1>1. ViewsOK /\ ViewsOK' /\ ReadInv
  BY ViewsAlways, ViewsNext DEF Reading
<1>2. /\ t \in Parties
      /\ \A r \in Parties : r # t => Reads(r)' = Reads(r)
      /\ \A u \in Threads : u # t => Calling(u)' = Calling(u)
  BY OthersRead
<1>3. \A x \in Sockets : /\ Read(x) => state'[x] = state[x]
                         /\ Read(x)' <=> Read(x) \/ x = s
  BY <1>0, <1>1, <1>2 DEF Read, ViewsOK
<1>4. OneReader'
  <2> SUFFICES ASSUME NEW p \in Parties, NEW o \in Parties, NEW x, x = Reads(p)', x = Reads(o)',
                      x # None, state'[x] = "accepted"
               PROVE  p = o
    BY DEF OneReader
  <2>1. x \in Sockets
    BY <1>1 DEF ViewsOK, Maybe
  <2>2. CASE p # t /\ o # t
    <3>1. Reads(p) = x /\ Reads(o) = x
      BY <1>2, <2>2
    <3>2. state[x] = "accepted"
      BY <1>3, <2>1, <3>1 DEF Read
    <3> QED
      BY <1>1, <3>1, <3>2 DEF ReadInv, OneReader
  <2>3. CASE p = t \/ o = t
    <3>1. x = s /\ ~Read(s)
      BY <2>3
    <3> QED
      BY <1>2, <2>3, <3>1 DEF Read
  <2> QED
    BY <2>2, <2>3
<1>5. \A r \in Parties : Reads(r)' # None => Connected(Reads(r))'
  <2>1. ASSUME NEW r \in Parties, r # t, NEW x, x = Reads(r)', x # None
        PROVE  Connected(x)'
    <3>1. Reads(r) = x /\ x \in Sockets
      BY <1>1, <1>2, <2>1 DEF ViewsOK, Maybe
    <3>2. Connected(x) /\ state'[x] = state[x]
      BY <1>1, <1>3, <2>1, <3>1 DEF ReadInv, Read
    <3> QED
      BY <3>2 DEF Connected
  <2>2. Connected(Reads(t))'
    BY DEF Connected
  <2> QED
    BY <2>1, <2>2 DEF Connected
<1>6. ASSUME NEW u \in Users, u # t PROVE UserStateOK(u)'
  <2>1. thr'[u] = thr[u] /\ UserStateOK(u) /\ u \in Threads
    BY <1>6 DEF Only, Threads, Reading, StateInv
  <2>2. thr[u].pc \in {"recv_new", "add_index", "add_insert"} => thr[u].s \in Sockets
    BY <1>6, <2>1 DEF Typed, ThreadTypes, LocalsOK, UserOK
  <2>3. At(u, "recv_new") => Reads(u) = thr[u].s /\ u \in Parties
    BY <2>1 DEF Reads, Serves, Parties
  <2>4. At(u, "recv_new") => state'[thr[u].s] = state[thr[u].s]
    BY <1>3, <2>2, <2>3 DEF Read, At
  <2>5. At(u, "add_index") \/ At(u, "add_insert") =>
          state'[thr[u].s] = state[thr[u].s] \/ state'[thr[u].s] = "connected"
    BY <1>6, <2>2 DEF At
  <2> QED
    BY <2>1, <2>4, <2>5 DEF UserStateOK, At
<1>7. \A w \in Workers : w # t => GoneOK(w)'
  BY DEF Reading, GoneInv, GoneOK, Only, Threads
<1>8. StateInv' /\ GoneInv'
  BY <1>6, <1>7 DEF KnowsOK, StateInv, GoneInv
<1>9. AcceptedNeverDeaf'
  BY <1>0, DeafStep DEF Reading
<1>10. \A u \in Threads : CallingAccepted(u)' = CallingAccepted(u)
  <2> SUFFICES ASSUME NEW u \in Threads PROVE CallingAccepted(u)' = CallingAccepted(u)
    OBVIOUS
  <2>1. PICK x : x = Calling(u) /\ x = Calling(u)'
    BY <1>2
  <2>2. x # None => x \in Sockets /\ Read(x)
    <3>1. u \in Parties /\ (x # None => Reads(u) = x)
      BY <1>1, <2>1 DEF ViewsOK, Parties
    <3>2. Reads(u) \in Maybe(Sockets)
      BY <1>1, <3>1 DEF ViewsOK
    <3> QED
      BY <3>1, <3>2 DEF Read, Maybe
  <2>3. x # None => state'[x] = state[x]
    BY <1>3, <2>2
  <2> QED
    BY <2>1, <2>3 DEF CallingAccepted
<1>11. CStep
  <2>1. CASE state'[s] = "accepted"
    <3>1. Open' = Open \cup {s} /\ s \notin Open
      <4>1. \A x \in Sockets : x \in Open' <=> x \in Open \/ x = s
        BY <1>1, <1>3, <2>1 DEF ViewsOK
      <4>2. s \notin Open
        BY <1>1, <2>1 DEF ViewsOK
      <4> QED
        BY <4>1, <4>2 DEF Open
    <3> QED
      BY <1>10, <3>1 DEF CStep, C!Next, C!Open
  <2>2. CASE state'[s] # "accepted"
    <3>1. Open' = Open
      <4>1. \A x \in Sockets : x \in Open' <=> x \in Open
        BY <1>1, <1>3, <2>2 DEF ViewsOK
      <4> QED
        BY <4>1 DEF Open
    <3> QED
      BY <1>10, <3>1 DEF CStep, C!vars
  <2> QED
    BY <2>1, <2>2
<1>12. LossTold
  <2>1. WaitKept(t) \/ (t \in Users /\ Reads(t)' = thr[t].s)
    BY DEF WaitKept
  <2> QED
    BY <1>3, <2>1, LossStep
<1>13. TakesOver
  BY <1>1, TakeOverStep DEF ViewsOK
<1> QED
  BY <1>1, <1>4, <1>5, <1>8, <1>9, <1>11, <1>12, <1>13 DEF Reading, ReadInv, Promised

\* A step of the kernel: nobody moves.
LEMMA StillKeeps ==
  ASSUME Typed, Typed', Reading, UNCHANGED <<thr, table, heap, buf>>, StateKept,
         \A b \in Buffers : io'[b] = "none" <=> io[b] = "none"
  PROVE  Reading' /\ Promised
<1>1. ViewsOK /\ ViewsOK' /\ ReadInv
  BY ViewsAlways, ViewsNext DEF Reading
<1>2. \A r \in Parties : Reads(r)' = Reads(r)
  BY DEF Reads, Serves, RecvOf, At, Parties
<1>3. ASSUME NEW x \in Sockets PROVE (Read(x)' <=> Read(x)) /\ (Read(x) => state'[x] = state[x])
  BY <1>1, <1>2, ReadKept DEF Read, ViewsOK
<1>4. ReadInv'
  <2>1. OneReader'
    <3> SUFFICES ASSUME NEW p \in Parties, NEW o \in Parties, NEW x, x = Reads(p)', x = Reads(o)',
                        x # None, state'[x] = "accepted"
                 PROVE  p = o
      BY DEF OneReader
    <3>1. state[x] = "accepted"
      BY <1>1, <1>2 DEF ViewsOK, Maybe, StateKept
    <3> QED
      BY <1>1, <1>2, <3>1 DEF ReadInv, OneReader
  <2>2. ASSUME NEW r \in Parties, Reads(r)' # None PROVE Connected(Reads(r))'
    BY <1>1, <1>2, <2>2, ReadKept DEF Connected
  <2> QED
    BY <2>1, <2>2 DEF ReadInv
<1>5. ASSUME NEW u \in Users PROVE UserStateOK(u)'
  <2>1. /\ thr[u].pc \in {"recv_new", "add_index", "add_insert"} => thr[u].s \in Sockets
        /\ thr[u].s \notin FreeSockets
    BY NotFree DEF Typed, ThreadTypes, LocalsOK, UserOK, Threads
  <2> QED
    BY <2>1 DEF Reading, StateInv, UserStateOK, StateKept, Connected, At
<1>6. GoneInv'
  BY DEF Reading, GoneInv, GoneOK
<1>7. \A s \in Sockets : Readers(s) # {} => Readers(s)' # {}
  BY <1>1, <1>3 DEF ViewsOK
<1>8. AcceptedNeverDeaf'
  BY <1>7 DEF Reading, AcceptedNeverDeaf, StateKept, Typed, TableTypes, Maybe
<1>9. Open' = Open
  <2>1. \A s \in Sockets : s \in Open' <=> s \in Open
    BY <1>1, <1>3 DEF ViewsOK
  <2> QED
    BY <2>1 DEF Open
<1>10. ASSUME NEW u \in Threads PROVE CallingAccepted(u)' = CallingAccepted(u)
  <2>1. PICK x : x = Calling(u) /\ x = Calling(u)'
    BY DEF Calling
  <2>2. u \in Parties /\ (x # None => Reads(u) = x)
    BY <1>1, <2>1 DEF ViewsOK, Parties
  <2>3. x # None => state'[x] = state[x]
    BY <1>1, <2>2, ReadKept
  <2> QED
    BY <2>1, <2>3 DEF CallingAccepted
<1>11. CStep
  BY <1>9, <1>10 DEF CStep, C!vars
<1>12. \A s \in Sockets : \A r : r \in Readers(s)' <=> r \in Readers(s)
  BY <1>1, <1>2 DEF ViewsOK
<1>13. TakesOver
  BY <1>12 DEF TakesOver
<1>14. LossTold
  BY <1>12 DEF LossTold, Watchers, At
<1> QED
  BY <1>4, <1>5, <1>6, <1>8, <1>11, <1>13, <1>14 DEF Reading, StateInv, Promised

-----------------------------------------------------------------------------
(* The kinds of step: what is left to show of each action is what it does  *)
(* to its index, and what it reads.                                        *)

\* Thread t refers to no more than before.
Drops(t, pc, h, s, l, ls) ==
  /\ s \in {None, thr[t].s} /\ (h = thr[t].h \/ s = None)
  /\ ls \in {None, thr[t].ls} /\ (l = thr[t].l \/ ls = None)
  /\ pc \in PrivatePCs => thr[t].pc \in PrivatePCs /\ s = thr[t].s

Owned(t, q) == BufferOwnership' /\ OneToOne' /\ SoleInv' /\ Only(t, q)

LEMMA DropsLess ==
  ASSUME NEW t \in Threads, NEW pc, NEW h, NEW s, NEW b, NEW then, NEW k, NEW l, NEW ls,
         Moved(t, pc, h, s, b, then, k, l, ls), Drops(t, pc, h, s, l, ls)
  PROVE  /\ \A x \in Handles, y \in Sockets : Mine(t, x, y)' => Mine(t, x, y)
         /\ \A y \in Sockets : Refers(t, y)' => Refers(t, y)
         /\ thr'[t].ls \in {None, thr[t].ls}
         /\ Sole(t)' \in {None, Sole(t)}
<1>1. None \notin Sockets
  BY ConstantsOK
<1>2. \A x \in Handles, y \in Sockets : Mine(t, x, y)' => Mine(t, x, y)
  BY <1>1 DEF Moved, Drops, Mine
<1>3. \A y \in Sockets : Refers(t, y)' => Refers(t, y)
  BY <1>1 DEF Moved, Drops, Refers
<1>4. Sole(t)' \in {None, Sole(t)}
  BY DEF Moved, Drops, Sole
<1> QED
  BY <1>2, <1>3, <1>4 DEF Moved, Drops

\* No buffer changes, and nothing enters the table.
LEMMA WalkStep ==
  ASSUME IInv, NEW t \in Threads, NEW pc, NEW h, NEW s, NEW b, NEW then, NEW k, NEW l, NEW ls,
         Moved(t, pc, h, s, b, then, k, l, ls), Drops(t, pc, h, s, l, ls), b = thr[t].b,
         UNCHANGED bufVars, \A x \in Handles : table'[x] \in {None, table[x]}
  PROVE  Owned(t, t)
<1>1. Only(t, t)
  BY DEF Only, Moved, bufVars
<1>2. heap' \subseteq Buffers
  BY DEF bufVars, IInv, Typed, BufferTypes
<1>3. thr'[t].b = thr[t].b /\ (t \in Users => thr'[t].b = None)
  BY DEF Moved, IInv, Typed, ThreadTypes, LocalsOK, UserOK
<1>4. t \notin Buffers
  BY ConstantsOK
<1>5. BufferOwnership'
  BY <1>1, <1>2, <1>3, <1>4, BufferStep DEF IInv
<1>6. OneToOne' /\ SoleInv'
  BY <1>1, DropsLess, PlainStep DEF IInv
<1> QED
  BY <1>1, <1>5, <1>6 DEF Owned

\* Thread t gives up buffer q, one of its own or a new one: it deletes it or the kernel takes it.
LEMMA GiveStep ==
  ASSUME IInv, NEW t \in Threads, NEW pc, NEW h, NEW s, NEW then, NEW k, NEW l, NEW ls,
         Moved(t, pc, h, s, None, then, k, l, ls), Drops(t, pc, h, s, l, ls),
         NEW q \in Buffers, thr[t].b = q \/ (thr[t].b = None /\ q \notin heap),
         BufferTypes', Frame(q), UNCHANGED table,
         \/ q \notin heap' /\ io'[q] = "none"
         \/ /\ \E type \in Types : Becomes(q, type, thr[t].h, thr[t].s, None, "pending")
            /\ pc \notin PrivatePCs
  PROVE  Owned(t, q)
<1>1. Only(t, q)
  BY DEF Only, Moved, Frame
<1>2. heap' \subseteq Buffers
  BY DEF BufferTypes
<1>3. thr'[t].b = None /\ None \notin Buffers /\ t \in Parties /\ q \notin Threads
  BY ConstantsOK DEF Moved, Parties
<1>4. \A w \in Workers : w # t => thr[w].b # q
  BY <1>3, Held DEF IInv, Threads
<1>5. BufferOwnership'
  BY <1>1, <1>2, <1>3, <1>4, BufferStep DEF IInv, Becomes
<1>6. Sole(q)' = None
  BY <1>3 DEF Sole, Becomes
<1>7. ASSUME Sole(t)' # None PROVE q \notin heap'
  BY <1>7 DEF Sole, Moved
<1>8. \A x \in Handles, y \in Sockets : Mine(q, x, y)' => Sole(t)' = None /\ Claimed(x, y)
  <2>1. \A x \in Handles, y \in Sockets : Mine(q, x, y)' => Mine(t, x, y)
    BY <1>3 DEF Mine, Becomes
  <2>2. \A x \in Handles, y \in Sockets : Mine(q, x, y)' => Sole(t)' = None
    BY <1>3, <1>7 DEF Mine
  <2> QED
    BY <1>3, <2>1, <2>2 DEF Claimed
<1>9. \A y \in Sockets : Refers(q, y)' => Sole(t)' = None /\ (Refers(t, y) \/ Refers(q, y))
  <2>1. \A y \in Sockets : Refers(q, y)' => Refers(t, y)
    BY <1>3, ConstantsOK DEF Refers, Becomes
  <2>2. \A y \in Sockets : Refers(q, y)' => Sole(t)' = None
    BY <1>3, <1>7 DEF Refers
  <2> QED
    BY <2>1, <2>2
<1>10. OneToOne' /\ SoleInv'
  <2>1. \A x \in Handles : table'[x] \in {None, table[x]}
    OBVIOUS
  <2> QED
    BY <1>1, <1>6, <1>8, <1>9, <2>1, DropsLess, PlainStep DEF IInv
<1> QED
  BY <1>1, <1>5, <1>10 DEF Owned

\* A handler finds no socket for its buffer, or needs none, and deletes it.
LEMMA LoseStep ==
  ASSUME IInv, NEW t \in Workers, NEW q \in Buffers, io[q] # "none", UNCHANGED <<table, thr>>,
         BufferTypes', Frame(q), q \notin heap', io'[q] = "none", thr[t].b = None
  PROVE  Owned(t, q)
<1>0. t \in Threads /\ t \notin Users
  BY ConstantsOK DEF Threads
<1>1. Only(t, q)
  BY <1>0 DEF Only, Frame
<1>2. heap' \subseteq Buffers
  BY DEF BufferTypes
<1>3. \A w \in Threads : thr[w].b # q
  BY Held DEF IInv
<1>4. BufferOwnership'
  BY <1>0, <1>1, <1>2, <1>3, BufferStep DEF IInv, Threads
<1>5. q \notin Threads
  BY ConstantsOK
<1>6. /\ Sole(q)' = None /\ \A x \in Sockets : ~Refers(q, x)'
      /\ \A x \in Handles, y \in Sockets : ~Mine(q, x, y)'
  BY <1>5 DEF Sole, Refers, Mine
<1>7. /\ Sole(t)' = Sole(t) /\ \A x \in Sockets : Refers(t, x)' <=> Refers(t, x)
      /\ \A x \in Handles, y \in Sockets : Mine(t, x, y)' <=> Mine(t, x, y)
  BY <1>0 DEF Sole, Refers, Mine
<1>8. OneToOne' /\ SoleInv'
  <2>1. \A x \in Handles : table'[x] \in {None, table[x]}
    OBVIOUS
  <2> QED
    BY <1>0, <1>1, <1>6, <1>7, <2>1, PlainStep DEF IInv
<1> QED
  BY <1>1, <1>4, <1>8 DEF Owned

\* The kernel takes the next accept of the listener x with handle g, with a new socket.
LEMMA ArmStep ==
  ASSUME IInv, NEW t \in Threads, NEW pc, NEW h, NEW s, NEW then, NEW k, NEW l, NEW ls,
         Moved(t, pc, h, s, None, then, k, l, ls), Drops(t, pc, h, s, l, ls),
         NEW q \in Buffers, thr[t].b = q \/ (thr[t].b = None /\ q \notin heap),
         BufferTypes', Frame(q), UNCHANGED table,
         NEW g \in Handles, NEW x \in Sockets, NEW a \in FreeSockets, Mine(t, g, x), Sole(t) # x,
         Becomes(q, "accept", g, x, a, "pending")
  PROVE  Owned(t, q)
<1>1. Only(t, q)
  BY DEF Only, Moved, Frame
<1>2. heap' \subseteq Buffers
  BY DEF BufferTypes
<1>3. /\ thr'[t].b = None /\ None \notin Buffers /\ t \in Parties /\ q \notin Threads /\ q \in Parties
      /\ None \notin Sockets /\ a \in Sockets
  BY ConstantsOK DEF Moved, Parties, FreeSockets
<1>4. \A w \in Workers : w # t => thr[w].b # q
  BY <1>3, Held DEF IInv, Threads
<1>5. BufferOwnership'
  BY <1>1, <1>2, <1>3, <1>4, BufferStep DEF IInv, Becomes
<1>6. OneToOne'
  <2>1. \A i \in Handles, y \in Sockets : Mine(q, i, y)' => Mine(t, i, y)
    BY <1>3 DEF Mine, Becomes
  <2>2. \A i \in Handles, y \in Sockets :
          Mine(t, i, y)' \/ Mine(q, i, y)' \/ table'[i] = y => Claimed(i, y)
    BY <1>3, <2>1, DropsLess DEF Claimed
  <2> QED
    BY <1>1, <2>2, ClaimStep DEF IInv
<1>7. a # x /\ ~Refers(t, a) /\ (\A i \in Handles : table[i] # a)
  <2>1. Refers(t, x)
    BY <1>3 DEF Refers, Mine
  <2> QED
    BY <1>3, <2>1, NotFree DEF IInv
<1>8. \A y \in Sockets : /\ Refers(q, y)' => y = a \/ y = x
                         /\ Refers(t, y)' => Refers(t, y)
  <2>1. \A y \in Sockets : Refers(q, y)' => y = a \/ y = x
    BY <1>3 DEF Refers, Becomes
  <2> QED
    BY <2>1, DropsLess
<1>9. SoleOK(q)'
  <2>1. Sole(q)' = a /\ buf'[q].sock # a
    BY <1>3, <1>7 DEF Sole, Becomes
  <2>2. ASSUME NEW p \in Parties \ {q} PROVE ~Refers(p, a)'
    <3>1. CASE p = t
      BY <1>3, <1>7, <1>8, <3>1
    <3>2. CASE p # t
      <4>1. ~Refers(p, a)
        BY <1>3, NotFree DEF IInv
      <4> QED
        BY <1>1, <2>2, <3>2, <4>1 DEF Refers, Only, Parties
    <3> QED
      BY <3>1, <3>2
  <2> QED
    BY <1>3, <1>7, <2>1, <2>2 DEF SoleOK
<1>10. SoleOK(t)'
  <2> SUFFICES ASSUME Sole(t)' # None PROVE SoleOK(t)'
    BY DEF SoleOK
  <2>1. PICK y : y = Sole(t)
    OBVIOUS
  <2>2. Sole(t)' = y /\ y # None /\ y \in Sockets /\ Refers(t, y)
    <3>1. Sole(t)' = y /\ y # None
      BY <2>1, DropsLess
    <3>2. y = thr[t].s
      BY <2>1, <3>1 DEF Sole
    <3> QED
      BY <3>1, <3>2, FieldTypes DEF Maybe, Refers, IInv
  <2>3. /\ \A i \in Handles : table[i] # y
        /\ \A p \in Parties \ {t} : ~Refers(p, y)
        /\ thr[t].ls # y
    BY <1>3, <2>1, <2>2 DEF SoleInv, SoleOK, IInv
  <2>4. y # a /\ y # x
    BY <1>7, <2>1, <2>2
  <2>5. \A p \in Parties \ {t} : ~Refers(p, y)'
    <3>1. \A p \in Parties \ {t, q} : ~Refers(p, y)'
      BY <1>1, <2>3 DEF Refers, Only, Parties
    <3> QED
      BY <1>8, <2>2, <2>4, <3>1
  <2>6. thr'[t].ls # y
    BY <1>3, <2>2, <2>3, DropsLess
  <2> QED
    BY <2>2, <2>3, <2>5, <2>6 DEF SoleOK
<1>11. SoleInv'
  <2>1. Refers(t, x)
    BY <1>3 DEF Refers, Mine
  <2>2. \A y \in Sockets : Refers(t, y)' \/ Refers(q, y)' =>
           \/ Refers(t, y) \/ Refers(q, y) \/ y \in FreeSockets
           \/ \E i \in Handles : table[i] = y
    BY <1>8, <2>1
  <2> QED
    BY <1>1, <1>9, <1>10, <2>2, SoleStep DEF IInv
<1> QED
  BY <1>1, <1>5, <1>6, <1>11 DEF Owned

-----------------------------------------------------------------------------
(* AddTcpSocket and RemoveTcpSocket.                                       *)

Kept == IInv' /\ Promised

LEMMA ThreadFacts ==
  ASSUME IInv, NEW t \in Threads
  PROVE  /\ Typed /\ LocalsOK(t) /\ SoleOK(t) /\ t \in Parties /\ None \notin Sockets
         /\ t \in Users <=> t \notin Workers
         /\ t \notin Buffers
         /\ t \in Users => UserOK(t) /\ UserStateOK(t)
         /\ t \in Workers => WorkerOK(t) /\ GoneOK(t)
         /\ Reads(t) = Serves(t)
<1>1. LocalsOK(t) /\ SoleOK(t) /\ t \in Parties
  BY DEF IInv, Typed, ThreadTypes, SoleInv, Parties
<1>2. (t \in Users <=> t \notin Workers) /\ t \notin Buffers /\ None \notin Sockets
  BY ConstantsOK DEF Threads
<1> QED
  BY <1>1, <1>2 DEF IInv, LocalsOK, Reading, StateInv, GoneInv, Reads

\* What thread t reads and calls back about, by where it is.
LEMMA ServesByPC ==
  ASSUME NEW t \in Threads
  PROVE  /\ t \in Users => Serves(t) = IF At(t, "recv_new") THEN thr[t].s ELSE None
         /\ t \in Workers => Serves(t) = IF thr[t].pc \in {"idle", "listen", "arm", "connect", "select",
                                                            "send"} \cup ServePCs
                                         THEN None ELSE IF thr[t].pc \in PCs THEN thr[t].s ELSE None
         /\ Calling(t) = IF thr[t].pc \in {"on_accepted", "on_received", "on_disconnected", "on_error"}
                         THEN thr[t].s ELSE None
<1>1. t \in Users => t \notin Workers
  BY ConstantsOK
<1> QED
  BY <1>1 DEF Serves, Calling, ServePCs, PCs, At

LEMMA ServesByPCNext ==
  ASSUME NEW t \in Threads
  PROVE  /\ t \in Users => Serves(t)' = IF At(t, "recv_new")' THEN thr'[t].s ELSE None
         /\ t \in Workers => Serves(t)' = IF thr'[t].pc \in {"idle", "listen", "arm", "connect", "select",
                                                            "send"} \cup ServePCs
                                         THEN None ELSE IF thr'[t].pc \in PCs THEN thr'[t].s ELSE None
         /\ Calling(t)' = IF thr'[t].pc \in {"on_accepted", "on_received", "on_disconnected", "on_error"}
                         THEN thr'[t].s ELSE None
         /\ Reads(t)' = Serves(t)'
<1>1. t \in Users => t \notin Workers
  BY ConstantsOK
<1> QED
  BY <1>1 DEF Serves, Calling, ServePCs, PCs, At, Reads

LEMMA SameState == ASSUME Typed, UNCHANGED state PROVE StateTypes' /\ StateKept
BY DEF Typed, StateTypes, StateKept

LEMMA SameTable == ASSUME NEW t, UNCHANGED table PROVE TableKept(t)
BY DEF TableKept

\* An index the indexer never gave means nothing yet.
LEMMA NewIndex ==
  ASSUME IInv, NEW i \in Handles \ issued
  PROVE  /\ i \notin indexes /\ table[i] = None /\ \A t \in Threads : ~Owns(t, i)
         /\ \A s \in Sockets : ~Claimed(i, s)
<1>1. i \notin indexes /\ table[i] = None
  BY DEF IInv, Typed, TableTypes
<1>2. \A t \in Threads : thr[t].h # i /\ thr[t].l # i
  BY ConstantsOK DEF IInv, Typed, ThreadTypes, LocalsOK, Maybe
<1>3. \A b \in heap : buf[b].handle # i
  BY DEF IInv, Typed, BufferTypes, BufferOK
<1> QED
  BY <1>1, <1>2, <1>3, ConstantsOK DEF Owns, Claimed, Mine

LEMMA AddIndexKeeps == ASSUME IInv, NEW t \in Threads, AddIndex(t) PROVE Kept
<1> USE DEF At
<1>0. /\ LocalsOK(t) /\ thr[t].pc = "add_index" /\ thr[t].s \in Sockets /\ thr[t].h = None
      /\ UNCHANGED <<table, told, state>> /\ UNCHANGED bufVars
      /\ Sole(t) = thr[t].s
  BY ThreadFacts DEF AddIndex, UserOK, WorkerOK, LocalsOK, NoHandlePCs, Sole, PrivatePCs
<1>1. StateTypes' /\ StateKept /\ TableKept(t)
  BY <1>0, SameState, SameTable DEF IInv
<1>2. CASE \E i \in Handles \ issued :
             /\ indexes' = indexes \cup {i}
             /\ issued' = issued \cup {i}
             /\ thr' = [thr EXCEPT ![t].pc = "add_insert", ![t].h = i]
  <2>1. PICK i \in Handles \ issued :
               /\ indexes' = indexes \cup {i}
               /\ issued' = issued \cup {i}
               /\ thr' = [thr EXCEPT ![t].pc = "add_insert", ![t].h = i]
    BY <1>2
  <2>2. Moved(t, "add_insert", i, thr[t].s, thr[t].b, thr[t].then, thr[t].k, thr[t].l, thr[t].ls)
    BY <2>1, HandleMoves DEF PCs, IInv
  <2>3. LocalsOK(t)'
    BY <1>0, <2>1, <2>2, ThreadFacts
    DEF Moved, LocalsOK, UserOK, WorkerOK, Holds, UserPCs, WorkerPCs, PCs, NoHandlePCs, ServePCs, Maybe
  <2>4. Typed'
    <3>1. TableTypes'
      BY <1>0, <2>1 DEF IInv, Typed, TableTypes
    <3>2. ThreadTypes' /\ BufferTypes'
      BY <1>0, <2>1, <2>2, <2>3, ThreadStep, SameBuffers DEF IInv
    <3> QED
      BY <1>1, <3>1, <3>2 DEF Typed
  <2>5. Only(t, t)
    BY <1>0, <2>2 DEF Only, Moved, bufVars
  <2>6. IndexOwnership'
    <3>1. \A u \in Threads : u # t => \A h \in Handles : Owns(u, h)' <=> Owns(u, h)
      BY <2>2 DEF Owns, Moved
    <3>2. \A h \in Handles : (Owns(t, h)' <=> h = i) /\ ~Owns(t, h)
      BY <1>0, <2>2 DEF Owns, Moved
    <3> QED
      BY <1>0, <2>1, <3>1, <3>2, NewIndex DEF IndexOwnership, IInv
  <2>7. BufferOwnership'
    <3>1. thr'[t].b = thr[t].b /\ (t \in Users => thr'[t].b = None) /\ heap' \subseteq Buffers
      BY <1>0, <2>2, ThreadFacts DEF Moved, UserOK, bufVars, IInv, Typed, BufferTypes
    <3> QED
      BY <2>5, <3>1, ThreadFacts, BufferStep DEF IInv
  <2>8. /\ \A x \in Handles : table[x] # thr[t].s
        /\ \A p \in Parties \ {t} : ~Refers(p, thr[t].s)
        /\ thr[t].ls # thr[t].s
    BY <1>0, ThreadFacts DEF SoleOK
  <2>9. OneToOne'
    <3>1. ASSUME NEW x \in Handles, NEW y \in Sockets, Claimed(x, y)'
          PROVE  Claimed(x, y) \/ (x = i /\ y = thr[t].s)
      <4>1. \A r \in Parties : r # t /\ Mine(r, x, y)' => Mine(r, x, y)
        BY <2>5 DEF Mine, Only, Parties
      <4>2. Mine(t, x, y)' => Mine(t, x, y) \/ (x = i /\ y = thr[t].s)
        BY <2>2 DEF Mine, Moved
      <4> QED
        BY <1>0, <3>1, <4>1, <4>2, ThreadFacts DEF Claimed
    <3>2. \A x \in Handles : ~Claimed(x, thr[t].s)
      <4>1. \A x \in Handles, r \in Parties : ~Mine(r, x, thr[t].s)
        BY <1>0, <2>8, ConstantsOK DEF Mine, Refers
      <4> QED
        BY <2>8, <4>1 DEF Claimed
    <3> QED
      BY <3>1, <3>2, NewIndex DEF OneToOne, IInv
  <2>10. SoleInv'
    <3>1. \A y \in Sockets : Refers(t, y)' => Refers(t, y)
      BY <2>2 DEF Refers, Moved
    <3>2. SoleOK(t)'
      <4>1. PICK y : y = thr[t].s
        OBVIOUS
      <4>2. Sole(t)' = y /\ thr'[t].ls # y
        BY <2>2, <2>8, <4>1 DEF Sole, Moved, PrivatePCs
      <4>3. \A p \in Parties \ {t} : ~Refers(p, y)'
        BY <2>5, <2>8, <4>1 DEF Refers, Only, Parties
      <4> QED
        BY <1>0, <2>8, <4>1, <4>2, <4>3 DEF SoleOK
    <3> QED
      BY <1>0, <2>5, <3>1, <3>2, SoleStep DEF IInv
  <2>11. Reading' /\ Promised
    <3>1. Reads(t)' = Reads(t) /\ Calling(t)' = None /\ WaitKept(t)
      BY <1>0, <2>2, ThreadFacts, ServesByPC, ServesByPCNext DEF Moved, PCs, ServePCs, WaitKept
    <3>2. KnowsOK(t)'
      BY <1>0, <2>2, ThreadFacts DEF KnowsOK, UserStateOK, GoneOK, GonePCs, Moved
    <3> QED
      BY <1>1, <2>4, <2>5, <3>1, <3>2, HandKeeps DEF IInv
  <2> QED
    BY <2>4, <2>6, <2>7, <2>9, <2>10, <2>11 DEF Kept, IInv
<1>3. CASE Handles = issued /\ Return(t) /\ UNCHANGED <<indexes, issued>>
  <2>1. Ends(t)
    BY <1>3, ReturnMoves DEF IInv
  <2>2. Owned(t, t)
    <3>1. Drops(t, "idle", None, None, None, None) /\ thr[t].b = None
      BY <1>0, ThreadFacts DEF Drops, PrivatePCs, ServePCs, UserOK, WorkerOK, Holds
    <3> QED
      BY <1>0, <2>1, <3>1, WalkStep DEF Ends
  <2>3. LocalsOK(t)'
    BY <2>1, ThreadFacts, ConstantsOK
    DEF Ends, Moved, LocalsOK, UserOK, WorkerOK, Holds, UserPCs, WorkerPCs, PCs, NoHandlePCs, Maybe
  <2>4. Typed'
    <3>1. TableTypes'
      BY <1>0, <1>3 DEF IInv, Typed, TableTypes
    <3>2. ThreadTypes' /\ BufferTypes'
      BY <1>0, <1>3, <2>1, <2>3, ThreadStep, SameBuffers DEF IInv, Ends
    <3> QED
      BY <1>1, <3>1, <3>2 DEF Typed
  <2>5. IndexOwnership'
    <3>1. \A h \in Handles : Owns(t, h)' <=> Owns(t, h)
      BY <1>0, <2>1 DEF Owns, Ends, Moved
    <3> QED
      BY <1>0, <1>3, <2>1, <3>1, IndexFrame DEF IInv, Ends, Moved
  <2>6. KnowsOK(t)' /\ WaitKept(t) /\ Calling(t) = None /\ Calling(t)' = None /\ Reads(t)' = None
    BY <1>0, <2>1, ThreadFacts, ServesByPC, ServesByPCNext
    DEF KnowsOK, UserStateOK, GoneOK, GonePCs, Ends, Moved, WaitKept, ServePCs
  <2>7. Reading' /\ Promised
    <3>1. CASE t \in Users
      <4>1. Reads(t) = None
        BY <1>0, <3>1, ThreadFacts, ServesByPC
      <4> QED
        BY <1>1, <2>2, <2>4, <2>6, <4>1, HandKeeps DEF IInv, Owned
    <3>2. CASE t \in Workers
      <4>1. Reads(t) = thr[t].s
        BY <1>0, <3>2, ThreadFacts, ServesByPC DEF ServePCs, PCs
      <4>2. \A x \in Handles : table'[x] # thr[t].s
        BY <1>0, ThreadFacts DEF SoleOK
      <4> QED
        BY <1>0, <1>1, <2>2, <2>4, <2>6, <4>1, <4>2, EndKeeps DEF IInv, Owned
    <3> QED
      BY <3>1, <3>2 DEF Threads
  <2> QED
    BY <2>2, <2>4, <2>5, <2>7 DEF Kept, IInv, Owned
<1> QED
  BY <1>2, <1>3 DEF AddIndex

LEMMA WalkTypes ==
  ASSUME IInv, NEW t \in Threads, NEW pc, NEW h, NEW s, NEW b, NEW then, NEW k, NEW l, NEW ls,
         Moved(t, pc, h, s, b, then, k, l, ls), LocalsOK(t)',
         UNCHANGED <<issued, bufVars>>, TableTypes', StateTypes'
  PROVE  Typed'
<1>1. ThreadTypes'
  BY ThreadStep DEF IInv
<1>2. BufferTypes'
  BY SameBuffers DEF IInv
<1> QED
  BY <1>1, <1>2 DEF Typed

LEMMA AddInsertKeeps == ASSUME IInv, NEW t \in Threads, AddInsert(t) PROVE Kept
<1> USE DEF At
<1>0. /\ LocalsOK(t) /\ thr[t].pc = "add_insert" /\ thr[t].s \in Sockets /\ thr[t].h \in Handles
      /\ thr[t].b = None
      /\ UNCHANGED <<indexes, issued, state>> /\ UNCHANGED bufVars
  BY ThreadFacts
  DEF AddInsert, UserOK, WorkerOK, LocalsOK, NoHandlePCs, ServePCs, Holds
<1>1. PICK h, s : h = thr[t].h /\ s = thr[t].s
  OBVIOUS
<1>2. h \in Handles /\ s \in Sockets /\ s # None /\ s = Sole(t) /\ Mine(t, h, s) /\ h \in issued
      /\ h # None
  BY <1>0, <1>1, ConstantsOK DEF Sole, PrivatePCs, Mine, LocalsOK, Maybe
<1>3. /\ \A x \in Handles : table[x] # s
      /\ \A p \in Parties \ {t} : ~Refers(p, s)
      /\ thr[t].ls # s
  BY <1>2, ThreadFacts DEF SoleOK
<1>4. Owns(t, h) /\ table[h] = None
  BY <1>0, <1>1, <1>2 DEF Owns, IInv, IndexOwnership
<1>5. table' = [table EXCEPT ![h] = s]
  BY <1>1, <1>4 DEF AddInsert
<1>6. StateTypes' /\ StateKept
  BY <1>0, SameState DEF IInv
<1>7. PICK pc : /\ pc \in {"idle", "on_accepted"} /\ (t \in Users <=> pc = "idle")
                /\ thr'[t].pc = pc /\ thr'[t].b = None
                /\ IF pc = "idle" THEN Ends(t) ELSE Walks(t, "on_accepted")
  <2>1. CASE t \in Users
    <3>1. Ends(t)
      BY <2>1, ReturnMoves DEF AddInsert, IInv
    <3> QED
      BY <2>1, <3>1 DEF Ends, Moved
  <2>2. CASE t \notin Users
    <3>1. Walks(t, "on_accepted")
      BY <2>2, GotoMoves DEF AddInsert, IInv, PCs
    <3> QED
      BY <1>0, <2>2, <3>1 DEF Walks, Moved
  <2> QED
    BY <2>1, <2>2
<1>8. LocalsOK(t)' /\ Only(t, t) /\ ThreadTypes' /\ TableTypes'
  <2>1. LocalsOK(t)'
    BY <1>0, <1>7, ThreadFacts, ConstantsOK
    DEF Ends, Walks, Moved, LocalsOK, UserOK, WorkerOK, Holds, UserPCs, WorkerPCs, PCs, NoHandlePCs,
        ServePCs, Maybe
  <2>2. Only(t, t)
    BY <1>0, <1>7 DEF Only, Ends, Walks, Moved, bufVars
  <2>3. ThreadTypes'
    BY <1>0, <1>7, <2>1, ThreadStep DEF IInv, Ends, Walks
  <2>4. TableTypes'
    BY <1>0, <1>1, <1>2, <1>5 DEF AddInsert, IInv, Typed, TableTypes, Maybe
  <2> QED
    BY <2>1, <2>2, <2>3, <2>4
<1>9. Typed'
  BY <1>0, <1>6, <1>8, SameBuffers DEF IInv, Typed
<1>10. IndexOwnership'
  <2>1. \A u \in Threads : u # t => \A x \in Handles : Owns(u, x)' <=> Owns(u, x)
    BY <1>8 DEF Owns, Only
  <2>2. \A x \in Handles : ~Owns(t, x)' /\ (Owns(t, x) => x = h)
    BY <1>1, <1>7 DEF Owns
  <2>3. \A x \in Handles : table'[x] = IF x = h THEN s ELSE table[x]
    BY <1>5 DEF IInv, Typed, TableTypes
  <2> QED
    BY <1>0, <1>2, <1>4, <2>1, <2>2, <2>3 DEF IndexOwnership, IInv
<1>11. BufferOwnership'
  <2>1. thr'[t].b = thr[t].b /\ (t \in Users => thr'[t].b = None) /\ heap' \subseteq Buffers
    BY <1>0, <1>7, <1>9 DEF Typed, BufferTypes
  <2> QED
    BY <1>8, <2>1, ThreadFacts, BufferStep DEF IInv
<1>12. \A x \in Handles, y \in Sockets : table'[x] = y => table[x] = y \/ (x = h /\ y = s)
  BY <1>5 DEF IInv, Typed, TableTypes
<1>13. OneToOne'
  <2>1. \A x \in Handles, y \in Sockets : Mine(t, x, y)' => Mine(t, x, y)
    BY <1>7, ConstantsOK DEF Mine, Ends, Walks, Moved
  <2>2. \A x \in Handles, y \in Sockets :
          Mine(t, x, y)' \/ Mine(t, x, y)' \/ table'[x] = y => Claimed(x, y)
    BY <1>2, <1>12, <2>1, ThreadFacts DEF Claimed
  <2> QED
    BY <1>8, <2>2, ClaimStep DEF IInv
<1>14. SoleInv'
  <2>1. \A y \in Sockets : Refers(t, y)' => Refers(t, y)
    BY <1>7, ConstantsOK DEF Refers, Ends, Walks, Moved
  <2>2. SoleOK(t)'
    <3>1. Sole(t)' = None
      BY <1>7 DEF Sole, PrivatePCs, ServePCs
    <3> QED
      BY <3>1 DEF SoleOK
  <2> QED
    BY <1>2, <1>8, <1>12, <2>1, <2>2, SoleStep DEF IInv
<1>15. \A x \in Handles : table'[x] \notin {None, table[x]} =>
         /\ table'[x] = s
         /\ \A w \in Workers : w # t => thr[w].h # x \/ thr[w].pc \notin GonePCs
  <2>1. \A x \in Handles : table'[x] \notin {None, table[x]} => x = h /\ table'[x] = s
    BY <1>5 DEF IInv, Typed, TableTypes
  <2>2. ASSUME NEW w \in Workers, w # t, thr[w].h = h, thr[w].pc \in GonePCs PROVE FALSE
    <3>1. w \in Threads /\ w \in Parties
      BY DEF Threads, Parties
    <3>2. thr[w].s \in Sockets
      BY <2>2, <3>1, ThreadFacts DEF WorkerOK, GonePCs
    <3>3. Claimed(h, thr[w].s) /\ Claimed(h, s)
      BY <1>2, <2>2, <3>1, ThreadFacts DEF Claimed, Mine
    <3>4. thr[w].s = s
      BY <1>2, <3>2, <3>3 DEF IInv, OneToOne
    <3> QED
      BY <1>3, <2>2, <3>1, <3>4 DEF Refers
  <2> QED
    BY <2>1, <2>2
<1>16. Reading' /\ Promised
  <2>1. CASE t \in Users
    <3>1. thr'[t].pc = "idle" /\ state'[s] # "accepted"
      BY <1>0, <1>1, <1>7, <2>1, ThreadFacts DEF UserStateOK
    <3>2. Reads(t)' = None /\ Reads(t) = None /\ Calling(t) = None /\ Calling(t)' = None
      BY <1>0, <2>1, <3>1, ThreadFacts, ServesByPC, ServesByPCNext
    <3>3. WaitKept(t) /\ KnowsOK(t)' /\ TableKept(t)
      BY <1>15, <2>1, <3>1, ThreadFacts DEF WaitKept, KnowsOK, UserStateOK, TableKept
    <3> QED
      BY <1>6, <1>8, <1>9, <3>2, <3>3, HandKeeps DEF IInv
  <2>2. CASE t \in Workers
    <3>1. thr'[t].pc = "on_accepted" /\ thr'[t].s = s
      BY <1>1, <1>7, <2>2, ThreadFacts DEF Walks, Moved
    <3>2. Reads(t)' = s /\ Reads(t) = s /\ Calling(t) = None /\ Calling(t)' = s
      BY <1>0, <1>1, <2>2, <3>1, ThreadFacts, ServesByPC, ServesByPCNext DEF ServePCs, PCs
    <3>3. WaitKept(t) /\ KnowsOK(t)' /\ TableKept(t)
      BY <1>15, <2>2, <3>1, <3>2, ThreadFacts DEF WaitKept, KnowsOK, GoneOK, GonePCs, TableKept
    <3> QED
      BY <1>6, <1>8, <1>9, <3>2, <3>3, HandKeeps DEF IInv
  <2> QED
    BY <2>1, <2>2 DEF Threads
<1> QED
  BY <1>9, <1>10, <1>11, <1>13, <1>14, <1>16 DEF Kept, IInv

\* What follows a removal: a call ends, a handler goes on to its callback.
LEMMA AfterRemoveMoves ==
  ASSUME IInv, NEW t \in Threads, At(t, "remove") \/ At(t, "destroy_index"), AfterRemove(t)
  PROVE  \/ t \in Users /\ Ends(t)
         \/ t \in Workers /\ thr[t].then \in {"on_disconnected", "on_error"} /\ Walks(t, thr[t].then)
<1>1. CASE t \in Users
  BY <1>1, ThreadFacts, ReturnMoves DEF AfterRemove, UserOK
<1>2. CASE t \in Workers
  <2>1. thr[t].then \in {"on_disconnected", "on_error"}
    BY <1>2, ThreadFacts, FieldTypes DEF WorkerOK
  <2> QED
    BY <1>2, <2>1, ThreadFacts, GotoMoves DEF AfterRemove, PCs
<1> QED
  BY <1>1, <1>2 DEF Threads

\* The end of RemoveTcpSocket: the entry is gone, and the index with it or before.
LEMMA AfterRemoveKeeps ==
  ASSUME IInv, NEW t \in Threads, At(t, "remove") \/ At(t, "destroy_index"), AfterRemove(t),
         table[thr[t].h] = None, UNCHANGED <<table, issued, told, state, bufVars>>,
         TableTypes'
  PROVE  Typed' /\ Owned(t, t) /\ Reading' /\ Promised /\ \A h \in Handles : ~Owns(t, h)'
<1> USE DEF At
<1>1. StateTypes' /\ StateKept /\ TableKept(t)
  BY SameState, SameTable DEF IInv
<1>2. CASE t \in Users /\ Ends(t)
  <2>1. thr[t].s = None /\ thr[t].b = None
    BY <1>2, ThreadFacts DEF UserOK
  <2>2. Owned(t, t)
    <3>1. Drops(t, "idle", None, None, None, None)
      BY DEF Drops, PrivatePCs, ServePCs
    <3> QED
      BY <1>2, <2>1, <3>1, WalkStep DEF Ends
  <2>3. LocalsOK(t)'
    BY <1>2, ThreadFacts, ConstantsOK
    DEF Ends, Moved, LocalsOK, UserOK, UserPCs, NoHandlePCs, Maybe
  <2>4. Typed'
    BY <1>1, <1>2, <2>3, WalkTypes DEF Ends
  <2>5. /\ KnowsOK(t)' /\ WaitKept(t) /\ Calling(t) = None /\ Calling(t)' = None
        /\ Reads(t) = None /\ Reads(t)' = None
    BY <1>2, ThreadFacts, ServesByPC, ServesByPCNext
    DEF KnowsOK, UserStateOK, GoneOK, GonePCs, Ends, Moved, WaitKept
  <2>6. Reading' /\ Promised
    BY <1>1, <2>2, <2>4, <2>5, HandKeeps DEF IInv, Owned
  <2> QED
    BY <1>2, <2>2, <2>4, <2>6 DEF Owns, Ends, Moved
<1>3. CASE t \in Workers /\ thr[t].then \in {"on_disconnected", "on_error"} /\ Walks(t, thr[t].then)
  <2>1. PICK pc \in {"on_disconnected", "on_error"} : pc = thr[t].then /\ Walks(t, pc)
    BY <1>3
  <2>2. Owned(t, t)
    <3>1. Drops(t, pc, thr[t].h, thr[t].s, thr[t].l, thr[t].ls)
      BY <2>1 DEF Drops, PrivatePCs, ServePCs
    <3> QED
      BY <2>1, <3>1, WalkStep DEF Walks
  <2>3. LocalsOK(t)'
    BY <1>3, <2>1, ThreadFacts
    DEF Walks, Moved, LocalsOK, WorkerOK, Holds, WorkerPCs, PCs, NoHandlePCs, ServePCs
  <2>4. Typed'
    BY <1>1, <2>1, <2>3, WalkTypes DEF Walks
  <2>5. /\ KnowsOK(t)' /\ WaitKept(t) /\ Calling(t) = None /\ Calling(t)' = thr[t].s
        /\ Reads(t) = thr[t].s /\ Reads(t)' = thr[t].s
    BY <1>3, <2>1, ThreadFacts, ServesByPC, ServesByPCNext
    DEF KnowsOK, GoneOK, GonePCs, Walks, Moved, WaitKept, ServePCs, PCs
  <2>6. Reading' /\ Promised
    BY <1>1, <2>2, <2>4, <2>5, HandKeeps DEF IInv, Owned
  <2> QED
    BY <2>1, <2>2, <2>4, <2>6 DEF Owns, Walks, Moved
<1> QED
  BY <1>2, <1>3, AfterRemoveMoves

LEMMA RemoveEraseKeeps == ASSUME IInv, NEW t \in Threads, RemoveErase(t) PROVE Kept
<1> USE DEF At
<1>0. /\ LocalsOK(t) /\ thr[t].pc = "remove" /\ thr[t].h \in Handles
      /\ UNCHANGED <<indexes, issued, told, state>> /\ UNCHANGED bufVars
  BY ThreadFacts DEF RemoveErase, LocalsOK, NoHandlePCs, ServePCs
<1>1. PICK h \in Handles : h = thr[t].h
  BY <1>0
<1>2. CASE table[h] = None
  <2>1. UNCHANGED table /\ AfterRemove(t)
    BY <1>1, <1>2 DEF RemoveErase
  <2>2. TableTypes'
    BY <1>0, <2>1 DEF IInv, Typed, TableTypes
  <2>3. Typed' /\ Owned(t, t) /\ Reading' /\ Promised /\ \A x \in Handles : ~Owns(t, x)'
    BY <1>0, <1>1, <1>2, <2>1, <2>2, AfterRemoveKeeps
  <2>4. IndexOwnership'
    <3>1. \A x \in Handles : Owns(t, x)' <=> Owns(t, x)
      BY <1>0, <2>3 DEF Owns
    <3> QED
      BY <1>0, <2>1, <2>3, <3>1, IndexFrame DEF IInv, Owned, Only
  <2> QED
    BY <2>3, <2>4 DEF Kept, IInv, Owned
<1>3. CASE table[h] # None
  <2>1. table' = [table EXCEPT ![h] = None] /\ Goto(t, "destroy_index")
    BY <1>1, <1>3 DEF RemoveErase
  <2>2. Walks(t, "destroy_index")
    BY <2>1, GotoMoves DEF IInv, PCs
  <2>3. \A x \in Handles : table'[x] = IF x = h THEN None ELSE table[x]
    BY <2>1 DEF IInv, Typed, TableTypes
  <2>4. Owned(t, t)
    <3>1. Drops(t, "destroy_index", thr[t].h, thr[t].s, thr[t].l, thr[t].ls)
      BY DEF Drops, PrivatePCs, ServePCs
    <3> QED
      BY <1>0, <2>2, <2>3, <3>1, WalkStep DEF Walks
  <2>5. LocalsOK(t)'
    BY <1>0, <2>2, ThreadFacts
    DEF Walks, Moved, LocalsOK, UserOK, WorkerOK, Holds, UserPCs, WorkerPCs, PCs, NoHandlePCs, ServePCs
  <2>6. Typed'
    <3>1. TableTypes'
      BY <1>0, <2>1, <2>3 DEF IInv, Typed, TableTypes, Maybe
    <3> QED
      BY <1>0, <2>2, <2>5, <3>1, WalkTypes, SameState DEF Walks, IInv
  <2>7. IndexOwnership'
    <3>1. \A u \in Threads : u # t => \A x \in Handles : Owns(u, x)' <=> Owns(u, x)
      BY <2>4 DEF Owns, Owned, Only
    <3>2. \A x \in Handles : (Owns(t, x)' <=> x = h) /\ ~Owns(t, x)
      BY <1>0, <1>1, <2>2 DEF Owns, Walks, Moved
    <3> QED
      BY <1>0, <1>3, <2>3, <3>1, <3>2 DEF IndexOwnership, IInv
  <2>8. /\ StateKept /\ TableKept(t)
    BY <1>0, <2>3, SameState DEF TableKept, IInv
  <2>9. /\ WaitKept(t) /\ Calling(t) = None /\ Calling(t)' = None /\ Reads(t)' = Reads(t)
    BY <1>0, <2>2, ThreadFacts, ServesByPC, ServesByPCNext
    DEF Walks, Moved, WaitKept, ServePCs, PCs
  <2>10. KnowsOK(t)'
    BY <1>1, <2>2, <2>3, ThreadFacts DEF KnowsOK, UserStateOK, GoneOK, Walks, Moved
  <2>11. Reading' /\ Promised
    BY <2>4, <2>6, <2>8, <2>9, <2>10, HandKeeps DEF IInv, Owned
  <2> QED
    BY <2>4, <2>6, <2>7, <2>11 DEF Kept, IInv, Owned
<1> QED
  BY <1>2, <1>3

LEMMA RemoveIndexKeeps == ASSUME IInv, NEW t \in Threads, RemoveIndex(t) PROVE Kept
<1> USE DEF At
<1>0. /\ LocalsOK(t) /\ thr[t].pc = "destroy_index" /\ thr[t].h \in Handles
      /\ UNCHANGED <<table, issued, told, state>> /\ UNCHANGED bufVars
      /\ indexes' = indexes \ {thr[t].h} /\ AfterRemove(t)
  BY ThreadFacts DEF RemoveIndex, LocalsOK, NoHandlePCs, ServePCs
<1>1. PICK h \in Handles : h = thr[t].h
  BY <1>0
<1>2. Owns(t, h) /\ table[h] = None
  BY <1>0, <1>1 DEF Owns, IInv, IndexOwnership
<1>3. TableTypes'
  BY <1>0 DEF IInv, Typed, TableTypes
<1>4. Typed' /\ Owned(t, t) /\ Reading' /\ Promised /\ \A x \in Handles : ~Owns(t, x)'
  BY <1>0, <1>1, <1>2, <1>3, AfterRemoveKeeps
<1>5. IndexOwnership'
  <2>1. \A u \in Threads : u # t => \A x \in Handles : Owns(u, x)' <=> Owns(u, x)
    BY <1>4 DEF Owns, Owned, Only
  <2>2. \A x \in Handles : Owns(t, x) => x = h
    BY <1>1 DEF Owns
  <2> QED
    BY <1>0, <1>1, <1>2, <1>4, <2>1, <2>2 DEF IndexOwnership, IInv
<1> QED
  BY <1>4, <1>5 DEF Kept, IInv, Owned

-----------------------------------------------------------------------------
(* The interface.                                                          *)

\* The table, the indexes and the buffers are left alone.
LEMMA CalmStep ==
  ASSUME IInv, NEW t \in Threads, NEW pc, NEW h, NEW s, NEW b, NEW then, NEW k, NEW l, NEW ls,
         Moved(t, pc, h, s, b, then, k, l, ls), Drops(t, pc, h, s, l, ls), b = thr[t].b,
         UNCHANGED <<table, indexes, issued, bufVars>>, told' \subseteq issued, StateTypes',
         LocalsOK(t)', {thr[t].pc, pc} \cap {"add_insert", "destroy_index"} = {}
  PROVE  Typed' /\ IndexOwnership' /\ Owned(t, t) /\ TableKept(t)
<1>1. TableTypes'
  BY DEF IInv, Typed, TableTypes
<1>2. Typed'
  BY <1>1, WalkTypes
<1>3. \A x \in Handles : Owns(t, x)' <=> Owns(t, x)
  BY DEF Owns, At, Moved
<1>4. IndexOwnership'
  BY <1>3, IndexFrame DEF IInv, Moved
<1>5. Owned(t, t)
  BY WalkStep
<1> QED
  BY <1>2, <1>4, <1>5, SameTable

\* ... and the sockets, and thread t goes on or ends without a word.
LEMMA CalmKeeps ==
  ASSUME IInv, NEW t \in Threads, NEW pc, NEW h, NEW s, NEW b, NEW then, NEW k, NEW l, NEW ls,
         Moved(t, pc, h, s, b, then, k, l, ls), Drops(t, pc, h, s, l, ls), b = thr[t].b,
         UNCHANGED <<table, indexes, issued, bufVars>>, told' \subseteq issued, StateTypes', StateKept,
         LocalsOK(t)', {thr[t].pc, pc} \cap {"add_insert", "destroy_index"} = {},
         Reads(t)' = Reads(t), Calling(t)' \in {None, Calling(t)}, WaitKept(t), KnowsOK(t)'
  PROVE  Kept
<1>1. Typed' /\ IndexOwnership' /\ Owned(t, t) /\ TableKept(t)
  BY CalmStep
<1>2. Reading' /\ Promised
  BY <1>1, HandKeeps DEF IInv, Owned
<1> QED
  BY <1>1, <1>2 DEF Kept, IInv, Owned

\* A user's call ends, with nothing changed but perhaps the socket's state.
LEMMA UserEnds ==
  ASSUME IInv, NEW t \in Users, Return(t), thr[t].pc \notin {"add_insert", "destroy_index", "recv_new"},
         UNCHANGED <<tableVars, bufVars, state>>
  PROVE  Kept
<1> USE DEF At
<1>0. t \in Threads
  BY DEF Threads
<1>1. Ends(t) /\ thr[t].b = None
  BY <1>0, ReturnMoves, ThreadFacts DEF IInv, UserOK
<1>2. LocalsOK(t)'
  BY <1>0, <1>1, ThreadFacts, ConstantsOK
  DEF Ends, Moved, LocalsOK, UserOK, UserPCs, NoHandlePCs, Maybe
<1>3. Drops(t, "idle", None, None, None, None)
  BY DEF Drops, PrivatePCs, ServePCs
<1>4. StateTypes' /\ StateKept /\ told' \subseteq issued
  BY SameState DEF IInv, Typed, TableTypes, tableVars
<1>5. /\ Reads(t)' = Reads(t) /\ Calling(t)' = None /\ WaitKept(t) /\ KnowsOK(t)'
  BY <1>0, <1>1, ThreadFacts, ServesByPC, ServesByPCNext
  DEF Ends, Moved, WaitKept, KnowsOK, UserStateOK
<1>6. {thr[t].pc, "idle"} \cap {"add_insert", "destroy_index"} = {}
  OBVIOUS
<1> QED
  BY <1>0, <1>1, <1>2, <1>3, <1>4, <1>5, <1>6, CalmKeeps DEF Ends, tableVars

LEMMA TcpCreateKeeps == ASSUME IInv, NEW t \in Users, TcpCreate(t) PROVE Kept
<1> USE DEF At
<1>0. /\ t \in Threads /\ thr[t] = Idle /\ thr[t].pc = "idle"
      /\ UNCHANGED <<tableVars, bufVars>> /\ LocalsOK(t) /\ UserOK(t)
  BY ThreadFacts DEF Threads, TcpCreate, IInv, Typed, ThreadTypes
<1>1. PICK s \in FreeSockets : /\ state' = [state EXCEPT ![s] = "new"]
                               /\ thr' = [thr EXCEPT ![t].pc = "add_index", ![t].s = s]
  BY DEF TcpCreate
<1>2. s \in Sockets /\ s # None
  BY ConstantsOK DEF FreeSockets
<1>3. Moved(t, "add_index", None, s, None, "idle", 0, None, None)
  BY <1>0, <1>1, <1>2, CreateMoves, IdleFields DEF IInv
<1>4. Only(t, t)
  BY <1>0, <1>3 DEF Only, Moved, bufVars
<1>5. Typed'
  <2>1. LocalsOK(t)'
    BY <1>0, <1>2, <1>3, ConstantsOK
    DEF Moved, LocalsOK, UserOK, UserPCs, NoHandlePCs, Maybe, tableVars
  <2>2. TableTypes' /\ StateTypes'
    BY <1>0, <1>1, <1>2 DEF IInv, Typed, TableTypes, StateTypes, States, tableVars
  <2> QED
    BY <1>0, <1>3, <2>1, <2>2, WalkTypes DEF tableVars
<1>6. IndexOwnership'
  <2>1. \A x \in Handles : Owns(t, x)' <=> Owns(t, x)
    BY <1>0, <1>3 DEF Owns, Moved
  <2> QED
    BY <1>0, <1>3, <2>1, IndexFrame DEF IInv, Moved, tableVars
<1>7. BufferOwnership'
  <2>1. thr'[t].b = thr[t].b /\ (t \in Users => thr'[t].b = None) /\ heap' \subseteq Buffers
    BY <1>0, <1>3, <1>5, IdleFields DEF Typed, BufferTypes, Moved
  <2> QED
    BY <1>0, <1>4, <2>1, ThreadFacts, BufferStep DEF IInv
<1>8. OneToOne'
  <2>1. \A x \in Handles, y \in Sockets : ~Mine(t, x, y)'
    BY <1>0, <1>3, ConstantsOK DEF Mine, Moved
  <2>2. \A x \in Handles, y \in Sockets : table'[x] = y => Claimed(x, y)
    BY <1>0 DEF Claimed, tableVars
  <2> QED
    BY <1>0, <1>4, <2>1, <2>2, ClaimStep DEF IInv
<1>9. SoleInv'
  <2>1. \A y \in Sockets : Refers(t, y)' => y = s
    BY <1>0, <1>3, ConstantsOK DEF Refers, Moved
  <2>2. SoleOK(t)'
    <3>1. Sole(t)' = s /\ thr'[t].ls # s
      BY <1>0, <1>2, <1>3 DEF Sole, Moved, PrivatePCs
    <3>2. \A p \in Parties \ {t} : ~Refers(p, s)'
      <4>1. \A p \in Parties : ~Refers(p, s)
        BY NotFree DEF IInv
      <4> QED
        BY <1>4, <4>1 DEF Refers, Only, Parties
    <3>3. \A x \in Handles : table'[x] # s
      BY <1>0, <1>1, NotFree DEF IInv, tableVars
    <3> QED
      BY <1>0, <3>1, <3>2, <3>3 DEF SoleOK
  <2>3. \A y \in Sockets : Refers(t, y)' \/ Refers(t, y)' =>
           \/ Refers(t, y) \/ Refers(t, y) \/ y \in FreeSockets
           \/ \E h \in Handles : table[h] = y
    BY <2>1
  <2> QED
    BY <1>0, <1>4, <2>2, <2>3, SoleStep DEF IInv, tableVars
<1>10. Reading' /\ Promised
  <2>1. StateKept
    BY <1>1, <1>2 DEF StateKept, IInv, Typed, StateTypes
  <2>2. TableKept(t)
    BY <1>0, SameTable DEF tableVars
  <2>3. /\ Reads(t)' = Reads(t) /\ Calling(t)' = Calling(t) /\ WaitKept(t)
    BY <1>0, <1>3, ThreadFacts, ServesByPC, ServesByPCNext DEF Moved, WaitKept
  <2>4. KnowsOK(t)'
    <3>1. state'[s] = "new" /\ thr'[t].s = s /\ thr'[t].pc = "add_index" /\ t \notin Workers
      BY <1>0, <1>1, <1>2, <1>3, ThreadFacts DEF Moved, IInv, Typed, StateTypes
    <3> QED
      BY <3>1 DEF KnowsOK, UserStateOK
  <2> QED
    BY <1>0, <1>4, <1>5, <2>1, <2>2, <2>3, <2>4, HandKeeps DEF IInv
<1> QED
  BY <1>5, <1>6, <1>7, <1>8, <1>9, <1>10 DEF Kept, IInv

LEMMA TcpDestroyKeeps ==
  ASSUME IInv, NEW t \in Users, NEW h \in told, TcpDestroy(t, h)
  PROVE  Kept
<1> USE DEF At
<1>0. /\ t \in Threads /\ thr[t] = Idle /\ thr[t].pc = "idle" /\ h \in Handles /\ h \in issued
      /\ UNCHANGED <<tableVars, state, bufVars>> /\ LocalsOK(t) /\ UserOK(t)
  BY ThreadFacts DEF Threads, TcpDestroy, IInv, Typed, ThreadTypes, TableTypes
<1>1. Moved(t, "remove", h, None, None, "idle", 0, None, None)
  BY <1>0, HandleMoves, IdleFields DEF IInv, TcpDestroy, PCs
<1>2. LocalsOK(t)'
  BY <1>0, <1>1, ConstantsOK
  DEF Moved, LocalsOK, UserOK, UserPCs, NoHandlePCs, ServePCs, Maybe, tableVars
<1>3. Drops(t, "remove", h, None, None, None)
  BY DEF Drops, PrivatePCs, ServePCs
<1>4. StateTypes' /\ StateKept /\ told' \subseteq issued
  BY <1>0, SameState DEF IInv, Typed, TableTypes, tableVars
<1>5. /\ Reads(t)' = Reads(t) /\ Calling(t)' = None /\ WaitKept(t) /\ KnowsOK(t)'
  BY <1>0, <1>1, ThreadFacts, ServesByPC, ServesByPCNext
  DEF Moved, WaitKept, KnowsOK, UserStateOK
<1>6. {thr[t].pc, "remove"} \cap {"add_insert", "destroy_index"} = {} /\ thr[t].b = None
  BY <1>0, IdleFields
<1> QED
  BY <1>0, <1>1, <1>2, <1>3, <1>4, <1>5, <1>6, CalmKeeps DEF tableVars

\* A call that found its socket refers to it as others may, and reads nothing.
LEMMA FindKeeps ==
  ASSUME IInv, NEW t \in Users, NEW h \in told, NEW call \in {"listen", "send", "connect"},
         GetTcpSocket(t, call, h)
  PROVE  Kept
<1> USE DEF At
<1>0. /\ t \in Threads /\ thr[t] = Idle /\ thr[t].pc = "idle" /\ h \in Handles /\ h \in issued
      /\ UNCHANGED <<tableVars, state, bufVars>> /\ LocalsOK(t) /\ UserOK(t)
      /\ thr' = [thr EXCEPT ![t].pc = call, ![t].h = h, ![t].s = table[h]]
  BY ThreadFacts DEF Threads, GetTcpSocket, IInv, Typed, ThreadTypes, TableTypes
<1>1. PICK s \in Sockets : s = table[h]
  BY <1>0 DEF GetTcpSocket, IInv, Typed, TableTypes, Maybe
<1>2. Moved(t, call, h, s, None, "idle", 0, None, None)
  BY <1>0, <1>1, FindMoves, IdleFields DEF IInv, PCs
<1>3. Only(t, t)
  BY <1>0, <1>2 DEF Only, Moved, bufVars
<1>4. StateTypes' /\ StateKept /\ TableKept(t)
  BY <1>0, SameState, SameTable DEF IInv, tableVars
<1>5. Typed'
  <2>1. LocalsOK(t)'
    BY <1>0, <1>2, ConstantsOK
    DEF Moved, LocalsOK, UserOK, UserPCs, NoHandlePCs, ServePCs, Maybe, tableVars
  <2>2. TableTypes'
    BY <1>0 DEF IInv, Typed, TableTypes, tableVars
  <2> QED
    BY <1>0, <1>2, <1>4, <2>1, <2>2, WalkTypes DEF tableVars
<1>6. IndexOwnership'
  <2>1. \A x \in Handles : Owns(t, x)' <=> Owns(t, x)
    BY <1>0, <1>2 DEF Owns, Moved
  <2> QED
    BY <1>0, <1>2, <2>1, IndexFrame DEF IInv, Moved, tableVars
<1>7. BufferOwnership'
  <2>1. thr'[t].b = thr[t].b /\ (t \in Users => thr'[t].b = None) /\ heap' \subseteq Buffers
    BY <1>0, <1>2, <1>5, IdleFields DEF Typed, BufferTypes, Moved
  <2> QED
    BY <1>0, <1>3, <2>1, ThreadFacts, BufferStep DEF IInv
<1>8. OneToOne'
  <2>1. \A x \in Handles, y \in Sockets : Mine(t, x, y)' \/ table'[x] = y => table[x] = y
    BY <1>0, <1>1, <1>2, ConstantsOK DEF Mine, Moved, tableVars
  <2>2. \A x \in Handles, y \in Sockets :
          Mine(t, x, y)' \/ Mine(t, x, y)' \/ table'[x] = y => Claimed(x, y)
    BY <2>1 DEF Claimed
  <2> QED
    BY <1>0, <1>3, <2>2, ClaimStep DEF IInv
<1>9. SoleInv'
  <2>1. \A y \in Sockets : Refers(t, y)' => y = s
    BY <1>0, <1>2, ConstantsOK DEF Refers, Moved
  <2>2. SoleOK(t)'
    BY <1>0, <1>2 DEF SoleOK, Sole, Moved, PrivatePCs, ServePCs
  <2>3. \A y \in Sockets : Refers(t, y)' \/ Refers(t, y)' =>
           \/ Refers(t, y) \/ Refers(t, y) \/ y \in FreeSockets
           \/ \E x \in Handles : table[x] = y
    BY <1>0, <1>1, <2>1
  <2>4. \A x \in Handles, y \in Sockets : table'[x] = y => table[x] = y \/ y = Sole(t)
    BY <1>0 DEF tableVars
  <2> QED
    BY <1>0, <1>3, <2>2, <2>3, <2>4, SoleStep DEF IInv
<1>10. Reads(t)' = None /\ Reads(t) = None /\ Calling(t)' = Calling(t)
  BY <1>0, <1>2, ThreadFacts, ServesByPC, ServesByPCNext DEF Moved
<1>11. KnowsOK(t)' /\ t \notin Workers
  BY <1>0, <1>2, ThreadFacts DEF KnowsOK, UserStateOK, Moved
<1>12. WaitKept(t)
  BY <1>0 DEF WaitKept
<1>13. Reading' /\ Promised
  BY <1>0, <1>3, <1>4, <1>5, <1>10, <1>11, <1>12, HandKeeps DEF IInv
<1> QED
  BY <1>5, <1>6, <1>7, <1>8, <1>9, <1>13 DEF Kept, IInv

\* Where users alone are: a call that has found its socket.
LEMMA Caller ==
  ASSUME IInv, NEW t \in Threads, thr[t].pc \in {"listen", "arm", "connect", "select", "send"}
  PROVE  /\ t \in Users /\ t \notin Workers /\ UserOK(t) /\ thr[t].b = None
         /\ thr[t].h \in Handles /\ thr[t].h \in issued /\ thr[t].s \in Sockets
         /\ Mine(t, thr[t].h, thr[t].s) /\ Sole(t) = None
         /\ Reads(t) = None /\ Calling(t) = None
<1>1. t \in Users /\ t \notin Workers
  BY ThreadFacts DEF WorkerOK, WorkerPCs
<1>2. UserOK(t) /\ thr[t].b = None /\ thr[t].s \in Sockets
  BY <1>1, ThreadFacts DEF UserOK
<1>3. thr[t].h \in Handles /\ thr[t].h \in issued
  BY ThreadFacts, ConstantsOK DEF LocalsOK, NoHandlePCs, ServePCs, Maybe
<1>4. Mine(t, thr[t].h, thr[t].s) /\ Sole(t) = None
  BY DEF Mine, Sole, PrivatePCs, ServePCs
<1>5. Reads(t) = None /\ Calling(t) = None
  BY <1>1, ThreadFacts, ServesByPC DEF At
<1> QED
  BY <1>1, <1>2, <1>3, <1>4, <1>5

LEMMA ListenKeeps == ASSUME IInv, NEW t \in Threads, Listen(t) PROVE Kept
<1> USE DEF At
<1>0. /\ thr[t].pc = "listen" /\ UNCHANGED <<tableVars, bufVars>>
      /\ t \in Users /\ t \notin Workers /\ UserOK(t) /\ LocalsOK(t)
      /\ Reads(t) = None /\ Calling(t) = None
  BY Caller, ThreadFacts DEF Listen
<1>1. PICK s \in Sockets : s = thr[t].s
  BY <1>0, Caller
<1>2. CASE Return(t) /\ UNCHANGED state
  BY <1>0, <1>2, UserEnds
<1>3. CASE /\ state[s] \in {"new", "listening"} /\ state' = [state EXCEPT ![s] = "listening"]
           /\ Goto(t, "arm")
  <2>1. Walks(t, "arm")
    BY <1>3, GotoMoves DEF IInv, PCs
  <2>2. StateTypes' /\ StateKept
    BY <1>3 DEF IInv, Typed, StateTypes, States, StateKept, Connected
  <2>3. LocalsOK(t)'
    BY <1>0, <2>1
    DEF Walks, Moved, LocalsOK, UserOK, UserPCs, NoHandlePCs, ServePCs, Maybe, tableVars
  <2>4. Drops(t, "arm", thr[t].h, thr[t].s, thr[t].l, thr[t].ls)
    BY DEF Drops, PrivatePCs, ServePCs
  <2>5. told' \subseteq issued
    BY <1>0 DEF tableVars, IInv, Typed, TableTypes
  <2>6. Reads(t)' = None /\ Calling(t)' = None /\ WaitKept(t) /\ KnowsOK(t)'
    BY <1>0, <2>1, ServesByPCNext DEF Walks, Moved, WaitKept, KnowsOK, UserStateOK
  <2>7. {thr[t].pc, "arm"} \cap {"add_insert", "destroy_index"} = {}
    BY <1>0
  <2> QED
    BY <1>0, <2>1, <2>2, <2>3, <2>4, <2>5, <2>6, <2>7, CalmKeeps DEF Walks, tableVars
<1> QED
  BY <1>1, <1>2, <1>3 DEF Listen

\* Steps about a buffer leave the table and the indexes alone.
LEMMA BufferTyped ==
  ASSUME IInv, NEW t \in Threads, NEW pc, NEW h, NEW s, NEW b, NEW then, NEW k, NEW l, NEW ls,
         Moved(t, pc, h, s, b, then, k, l, ls), LocalsOK(t)', BufferTypes', StateTypes',
         UNCHANGED tableVars, {thr[t].pc, pc} \cap {"add_insert", "destroy_index"} = {}
  PROVE  Typed' /\ IndexOwnership' /\ TableKept(t)
<1>1. ThreadTypes'
  BY ThreadStep DEF IInv, tableVars
<1>2. TableTypes'
  BY DEF IInv, Typed, TableTypes, tableVars
<1>3. \A x \in Handles : Owns(t, x)' <=> Owns(t, x)
  BY DEF Owns, At, Moved
<1>4. IndexOwnership'
  BY <1>3, IndexFrame DEF IInv, Moved, tableVars
<1> QED
  BY <1>1, <1>2, <1>4, SameTable DEF Typed, tableVars

\* A buffer of its own, or a new one, is no receive yet.
LEMMA NotReading ==
  ASSUME IInv, NEW t \in Threads, NEW q \in Buffers,
         thr[t].b = q \/ (thr[t].b = None /\ q \notin heap)
  PROVE  Reads(q) = None /\ q \notin Threads /\ (q \in heap => io[q] = "none")
<1>1. q \notin Threads /\ q # None
  BY ConstantsOK
<1>2. q \in heap => io[q] = "none"
  BY <1>1, Held DEF IInv
<1> QED
  BY <1>1, <1>2 DEF Reads, RecvOf

\* The next accept of a listener goes to the kernel.
LEMMA ArmKeeps ==
  ASSUME IInv, NEW t \in Threads, NEW pc, NEW h, NEW s, NEW then, NEW k, NEW l, NEW ls,
         Moved(t, pc, h, s, None, then, k, l, ls), Drops(t, pc, h, s, l, ls), LocalsOK(t)',
         NEW q \in Buffers, thr[t].b = q \/ (thr[t].b = None /\ q \notin heap),
         NEW g \in Handles, g \in issued, NEW x \in Sockets, Mine(t, g, x), Sole(t) # x,
         AsyncTcpAccept(q, g, x), UNCHANGED tableVars,
         {thr[t].pc, pc} \cap {"add_insert", "destroy_index"} = {},
         Reads(t) = None, Reads(t)' = None, Calling(t)' = Calling(t),
         WaitKept(t), pc \notin {"recv_new", "add_index"} \cup GonePCs
  PROVE  Kept
<1>1. PICK a \in FreeSockets : /\ state' = [state EXCEPT ![a] = "new"]
                               /\ Release(q, "accept", g, x, a)
  BY DEF AsyncTcpAccept
<1>2. a \in Sockets
  BY DEF FreeSockets
<1>3. BufferTypes' /\ Frame(q) /\ Becomes(q, "accept", g, x, a, "pending")
  BY <1>1, <1>2, ReleaseStep DEF Types, Maybe, IInv, tableVars
<1>4. StateTypes' /\ StateKept
  BY <1>1, <1>2 DEF IInv, Typed, StateTypes, States, StateKept
<1>5. Typed' /\ IndexOwnership' /\ TableKept(t)
  BY <1>3, <1>4, BufferTyped
<1>6. Owned(t, q)
  BY <1>1, <1>3, ArmStep DEF tableVars
<1>7. Reads(q) = None /\ Reads(q)' = None
  BY <1>3, NotReading DEF Reads, RecvOf, Becomes
<1>8. KnowsOK(t)'
  BY DEF KnowsOK, UserStateOK, GoneOK, At, Moved
<1>9. Reading' /\ Promised
  BY <1>4, <1>5, <1>6, <1>7, <1>8, HandKeeps DEF IInv, Owned
<1> QED
  BY <1>5, <1>6, <1>9 DEF Kept, IInv, Owned

LEMMA ArmAcceptKeeps == ASSUME IInv, NEW t \in Threads, ArmAccept(t) PROVE Kept
<1> USE DEF At
<1>0. /\ thr[t].pc = "arm" /\ UNCHANGED tableVars
      /\ t \in Users /\ t \notin Workers /\ UserOK(t) /\ LocalsOK(t) /\ thr[t].b = None
      /\ Reads(t) = None /\ Calling(t) = None /\ Sole(t) = None
  BY Caller, ThreadFacts DEF ArmAccept
<1>1. PICK h \in Handles, s \in Sockets :
        h = thr[t].h /\ s = thr[t].s /\ h \in issued /\ Mine(t, h, s)
  BY <1>0, Caller
<1>2. CASE Return(t) /\ UNCHANGED <<state, bufVars>>
  BY <1>0, <1>2, UserEnds
<1>3. CASE \E q \in Buffers \ heap : AsyncTcpAccept(q, h, s)
  <2>1. PICK q \in Buffers \ heap : AsyncTcpAccept(q, h, s)
    BY <1>3
  <2>2. Sole(t) # s
    BY <1>0, ThreadFacts
  <2>3. CASE Return(t)
    <3>1. Moved(t, "idle", None, None, None, "idle", 0, None, None)
      BY <2>3, ReturnMoves DEF IInv, Ends
    <3>2. LocalsOK(t)'
      BY <1>0, <3>1, ThreadFacts, ConstantsOK
      DEF Moved, LocalsOK, UserOK, UserPCs, NoHandlePCs, Maybe
    <3>3. Drops(t, "idle", None, None, None, None)
      BY DEF Drops, PrivatePCs, ServePCs
    <3>4. /\ Reads(t)' = None /\ Calling(t)' = None /\ WaitKept(t)
          /\ "idle" \notin {"recv_new", "add_index"} \cup GonePCs
          /\ {thr[t].pc, "idle"} \cap {"add_insert", "destroy_index"} = {}
      BY <1>0, <3>1, ServesByPCNext DEF Moved, WaitKept, GonePCs
    <3> QED
      BY <1>0, <1>1, <2>1, <2>2, <3>1, <3>2, <3>3, <3>4, ArmKeeps
  <2>4. CASE thr' = [thr EXCEPT ![t].k = @ + 1] /\ thr[t].k + 1 # Backlog
    <3>1. thr[t].k + 1 \in 0 .. Backlog /\ thr[t].k + 1 < Backlog
      <4>1. thr[t].k \in 0 .. Backlog /\ thr[t].k < Backlog
        BY <1>0, FieldTypes DEF UserOK, IInv
      <4> QED
        BY <2>4, <4>1, ConstantsOK
    <3>2. Moved(t, "arm", thr[t].h, thr[t].s, None, thr[t].then, thr[t].k + 1, thr[t].l, thr[t].ls)
      BY <1>0, <2>4, <3>1, LoopMoves DEF IInv
    <3>3. LocalsOK(t)'
      BY <1>0, <3>1, <3>2
      DEF Moved, LocalsOK, UserOK, UserPCs, NoHandlePCs, ServePCs, Maybe, tableVars
    <3>4. Drops(t, "arm", thr[t].h, thr[t].s, thr[t].l, thr[t].ls)
      BY DEF Drops, PrivatePCs, ServePCs
    <3>5. /\ Reads(t)' = None /\ Calling(t)' = None /\ WaitKept(t)
          /\ "arm" \notin {"recv_new", "add_index"} \cup GonePCs
          /\ {thr[t].pc, "arm"} \cap {"add_insert", "destroy_index"} = {}
      BY <1>0, <3>2, ServesByPCNext DEF Moved, WaitKept, GonePCs
    <3> QED
      BY <1>0, <1>1, <2>1, <2>2, <3>2, <3>3, <3>4, <3>5, ArmKeeps
  <2> QED
    BY <1>1, <1>2, <2>3, <2>4 DEF ArmAccept
<1> QED
  BY <1>1, <1>2, <1>3 DEF ArmAccept

\* No other user has yet to insert the socket a user connects.
LEMMA Inserted ==
  ASSUME IInv, NEW t \in Users, At(t, "connect") \/ At(t, "select"), NEW s \in Sockets, s = thr[t].s
  PROVE  \A u \in Users : u # t => thr[u].s # s \/ thr[u].pc \notin {"add_index", "add_insert"}
<1> SUFFICES ASSUME NEW u \in Users, u # t, thr[u].s = s, thr[u].pc \in {"add_index", "add_insert"}
             PROVE  FALSE
  OBVIOUS
<1>1. t \in Parties /\ u \in Threads /\ Refers(t, s) /\ u \in Parties /\ s # None /\ t \in Threads
  BY ConstantsOK DEF Parties, Threads, Refers
<1>2. Sole(u) = s
  BY <1>1 DEF Sole, PrivatePCs
<1> QED
  BY <1>1, <1>2 DEF IInv, SoleInv, SoleOK

\* The socket a user connects is connected, by it or by another, and it starts to read.
LEMMA ConnectedKeeps ==
  ASSUME IInv, NEW t \in Users, NEW s \in Sockets, s = thr[t].s,
         \/ At(t, "connect") /\ ~Read(s)
         \/ At(t, "select") /\ state[s] = "connected",
         state[s] # "accepted", state' = [state EXCEPT ![s] = "connected"],
         UNCHANGED <<tableVars, bufVars>>, Goto(t, "recv_new")
  PROVE  Kept
<1> USE DEF At
<1>0. /\ t \in Threads /\ thr[t].pc \in {"connect", "select"} /\ t \notin Workers /\ LocalsOK(t)
      /\ UserOK(t) /\ Reads(t) = None /\ Calling(t) = None /\ s # None
  BY Caller, ThreadFacts, ConstantsOK DEF Threads
<1>1. Walks(t, "recv_new")
  BY <1>0, GotoMoves DEF IInv, PCs
<1>2. StateTypes'
  BY DEF IInv, Typed, StateTypes, States
<1>3. LocalsOK(t)'
  BY <1>0, <1>1
  DEF Walks, Moved, LocalsOK, UserOK, UserPCs, NoHandlePCs, ServePCs, Maybe, tableVars
<1>4. Drops(t, "recv_new", thr[t].h, thr[t].s, thr[t].l, thr[t].ls)
  BY DEF Drops, PrivatePCs, ServePCs
<1>5. told' \subseteq issued /\ UNCHANGED <<table, indexes, issued, bufVars>>
  BY DEF tableVars, IInv, Typed, TableTypes
<1>6. {thr[t].pc, "recv_new"} \cap {"add_insert", "destroy_index"} = {}
  BY <1>0
<1>7. Typed' /\ IndexOwnership' /\ Owned(t, t)
  BY <1>0, <1>1, <1>2, <1>3, <1>4, <1>5, <1>6, CalmStep DEF Walks
<1>8. thr'[t].s = s /\ thr'[t].pc = "recv_new"
  BY <1>1 DEF Walks, Moved
<1>9. Reads(t)' = s /\ Calling(t)' = None
  BY <1>0, <1>8, ServesByPCNext
<1>10. state'[s] = "connected" /\ \A x \in Sockets : x # s => state'[x] = state[x]
  BY DEF IInv, Typed, StateTypes
<1>11. KnowsOK(t)' /\ Connected(s)'
  BY <1>0, <1>8, <1>10 DEF KnowsOK, UserStateOK, Connected
<1>12. Read(s) => state'[s] = state[s] /\ Joins(s)
  BY <1>8, <1>10 DEF Joins
<1>13. Reading' /\ Promised
  BY <1>0, <1>5, <1>7, <1>9, <1>10, <1>11, <1>12, StartKeeps DEF IInv, Owned
<1> QED
  BY <1>7, <1>13 DEF Kept, IInv, Owned

LEMMA ConnectKeeps == ASSUME IInv, NEW t \in Threads, Connect(t) PROVE Kept
<1> USE DEF At
<1>0. /\ thr[t].pc = "connect" /\ UNCHANGED <<tableVars, bufVars>>
      /\ t \in Users /\ t \notin Workers /\ UserOK(t) /\ LocalsOK(t)
      /\ Reads(t) = None /\ Calling(t) = None
  BY Caller, ThreadFacts DEF Connect
<1>1. PICK s \in Sockets : s = thr[t].s
  BY <1>0, Caller
<1>2. CASE Return(t) /\ UNCHANGED state
  BY <1>0, <1>2, UserEnds
<1>3. CASE /\ state[s] = "new" /\ state' = [state EXCEPT ![s] = "connected"]
           /\ Goto(t, "recv_new")
  <2>1. ~Read(s)
    BY <1>3, ThreadFacts DEF IInv, Reading, ReadInv, Connected, Read
  <2> QED
    BY <1>0, <1>1, <1>3, <2>1, ConnectedKeeps
<1>4. CASE /\ state[s] = "new" /\ state' = [state EXCEPT ![s] = "connecting"]
           /\ Goto(t, "select")
  <2>1. Walks(t, "select")
    BY <1>4, GotoMoves DEF IInv, PCs
  <2>2. StateTypes' /\ StateKept
    BY <1>4 DEF IInv, Typed, StateTypes, States, StateKept, Connected
  <2>3. LocalsOK(t)'
    BY <1>0, <2>1
    DEF Walks, Moved, LocalsOK, UserOK, UserPCs, NoHandlePCs, ServePCs, Maybe, tableVars
  <2>4. Drops(t, "select", thr[t].h, thr[t].s, thr[t].l, thr[t].ls)
    BY DEF Drops, PrivatePCs, ServePCs
  <2>5. told' \subseteq issued
    BY <1>0 DEF tableVars, IInv, Typed, TableTypes
  <2>6. Reads(t)' = None /\ Calling(t)' = None /\ WaitKept(t) /\ KnowsOK(t)'
    BY <1>0, <2>1, ServesByPCNext DEF Walks, Moved, WaitKept, KnowsOK, UserStateOK
  <2>7. {thr[t].pc, "select"} \cap {"add_insert", "destroy_index"} = {}
    BY <1>0
  <2> QED
    BY <1>0, <2>1, <2>2, <2>3, <2>4, <2>5, <2>6, <2>7, CalmKeeps DEF Walks, tableVars
<1> QED
  BY <1>1, <1>2, <1>3, <1>4 DEF Connect

LEMMA SelectKeeps == ASSUME IInv, NEW t \in Threads, Select(t) PROVE Kept
<1> USE DEF At
<1>0. /\ thr[t].pc = "select" /\ UNCHANGED <<tableVars, bufVars>> /\ UNCHANGED state
      /\ t \in Users
  BY Caller DEF Select
<1>1. PICK s \in Sockets : s = thr[t].s
  BY <1>0, Caller
<1>2. CASE state[s] = "connected"
  <2>1. Goto(t, "recv_new")
    BY <1>1, <1>2 DEF Select
  <2>2. state' = [state EXCEPT ![s] = "connected"]
    BY <1>0, <1>2 DEF IInv, Typed, StateTypes
  <2> QED
    BY <1>0, <1>1, <1>2, <2>1, <2>2, ConnectedKeeps
<1>3. CASE state[s] # "connected"
  <2>1. Return(t)
    BY <1>1, <1>3 DEF Select
  <2> QED
    BY <1>0, <2>1, UserEnds
<1> QED
  BY <1>2, <1>3

\* Thread t gives up buffer q; the sockets and the table are left alone.
LEMMA GiveTyped ==
  ASSUME IInv, NEW t \in Threads, NEW pc, NEW h, NEW s, NEW then, NEW k, NEW l, NEW ls,
         Moved(t, pc, h, s, None, then, k, l, ls), Drops(t, pc, h, s, l, ls), LocalsOK(t)',
         NEW q \in Buffers, thr[t].b = q \/ (thr[t].b = None /\ q \notin heap),
         BufferTypes', Frame(q), UNCHANGED <<tableVars, state>>,
         {thr[t].pc, pc} \cap {"add_insert", "destroy_index"} = {},
         \/ q \notin heap' /\ io'[q] = "none"
         \/ /\ \E type \in Types : Becomes(q, type, thr[t].h, thr[t].s, None, "pending")
            /\ pc \notin PrivatePCs
  PROVE  /\ Typed' /\ IndexOwnership' /\ Owned(t, q) /\ TableKept(t) /\ StateKept
         /\ Reads(q) = None
<1>1. StateTypes' /\ StateKept
  BY SameState DEF IInv
<1>2. Typed' /\ IndexOwnership' /\ TableKept(t)
  BY <1>1, BufferTyped
<1>3. Owned(t, q)
  BY GiveStep DEF tableVars
<1> QED
  BY <1>1, <1>2, <1>3, NotReading

LEMMA SendKeeps == ASSUME IInv, NEW t \in Threads, Send(t) PROVE Kept
<1> USE DEF At
<1>0. /\ thr[t].pc = "send" /\ UNCHANGED <<tableVars, state>> /\ Return(t)
      /\ t \in Users /\ t \notin Workers /\ UserOK(t) /\ LocalsOK(t) /\ thr[t].b = None
      /\ Reads(t) = None /\ Calling(t) = None
  BY Caller, ThreadFacts DEF Send
<1>1. PICK h \in Handles, s \in Sockets : h = thr[t].h /\ s = thr[t].s /\ h \in issued
  BY <1>0, Caller
<1>2. CASE UNCHANGED bufVars
  BY <1>0, <1>2, UserEnds
<1>3. CASE \E q \in Buffers \ heap : Release(q, "send", h, s, None)
  <2>1. PICK q \in Buffers \ heap : Release(q, "send", h, s, None)
    BY <1>3
  <2>2. BufferTypes' /\ Frame(q) /\ Becomes(q, "send", h, s, None, "pending")
    BY <1>0, <1>1, <2>1, ReleaseStep DEF Types, Maybe, IInv, tableVars
  <2>3. Moved(t, "idle", None, None, None, "idle", 0, None, None)
    BY <1>0, ReturnMoves DEF IInv, Ends
  <2>4. LocalsOK(t)'
    BY <1>0, <2>3, ThreadFacts, ConstantsOK
    DEF Moved, LocalsOK, UserOK, UserPCs, NoHandlePCs, Maybe
  <2>5. Drops(t, "idle", None, None, None, None)
    BY DEF Drops, PrivatePCs, ServePCs
  <2>6. /\ Reads(t)' = None /\ Calling(t)' = None /\ WaitKept(t) /\ KnowsOK(t)'
        /\ {thr[t].pc, "idle"} \cap {"add_insert", "destroy_index"} = {}
        /\ "idle" \notin PrivatePCs
    BY <1>0, <2>3, ServesByPCNext
    DEF Moved, WaitKept, KnowsOK, UserStateOK, PrivatePCs, ServePCs
  <2>7. \E type \in Types : Becomes(q, type, thr[t].h, thr[t].s, None, "pending")
    BY <1>1, <2>2 DEF Types
  <2>8. Typed' /\ IndexOwnership' /\ Owned(t, q) /\ TableKept(t) /\ StateKept /\ Reads(q) = None
    BY <1>0, <2>1, <2>2, <2>3, <2>4, <2>5, <2>6, <2>7, GiveTyped
  <2>9. Reads(q)' = None
    BY <1>0, <2>1, <2>2, NotReading DEF Reads, RecvOf, Becomes
  <2>10. Reading' /\ Promised
    BY <1>0, <2>6, <2>8, <2>9, HandKeeps DEF IInv, Owned
  <2> QED
    BY <2>8, <2>10 DEF Kept, IInv, Owned
<1> QED
  BY <1>1, <1>2, <1>3 DEF Send

\* A thread that reads a connection arms its receive and ends.
LEMMA RecvKeeps ==
  ASSUME IInv, NEW t \in Threads, NEW q \in Buffers,
         thr[t].b = q \/ (thr[t].b = None /\ q \notin heap),
         AsyncTcpRecv(q, thr[t].h, thr[t].s), Return(t), UNCHANGED <<tableVars, state>>,
         thr[t].pc \in {"recv_new", "rearm"}
  PROVE  Kept
<1> USE DEF At
<1>0. /\ LocalsOK(t) /\ (t \in Users \/ t \in Workers)
      /\ thr[t].h \in Handles /\ thr[t].h \in issued /\ thr[t].s \in Sockets
  BY ThreadFacts, ConstantsOK
  DEF Threads, LocalsOK, UserOK, UserPCs, WorkerOK, NoHandlePCs, ServePCs, Maybe
<1>1. PICK h \in Handles, s \in Sockets : h = thr[t].h /\ s = thr[t].s /\ h \in issued
  BY <1>0
<1>2. Reads(t) = s /\ Calling(t) = None /\ s # None
  <2>1. CASE t \in Users
    BY <1>1, <2>1, ThreadFacts, ServesByPC DEF UserOK, UserPCs
  <2>2. CASE t \in Workers
    BY <1>1, <2>2, ThreadFacts, ServesByPC DEF PCs, ServePCs
  <2> QED
    BY <1>0, <2>1, <2>2
<1>3. BufferTypes' /\ Frame(q) /\ Becomes(q, "recv", h, s, None, "pending")
  <2>1. Release(q, "recv", h, s, None)
    BY <1>1 DEF AsyncTcpRecv
  <2> QED
    BY <1>1, <2>1, ReleaseStep DEF Types, Maybe, IInv, tableVars
<1>4. Moved(t, "idle", None, None, None, "idle", 0, None, None)
  BY ReturnMoves DEF IInv, Ends
<1>5. LocalsOK(t)'
  BY <1>0, <1>4, ThreadFacts, ConstantsOK
  DEF Moved, LocalsOK, UserOK, UserPCs, WorkerOK, WorkerPCs, PCs, Holds, NoHandlePCs, Maybe
<1>6. Drops(t, "idle", None, None, None, None)
  BY DEF Drops, PrivatePCs, ServePCs
<1>7. /\ Reads(t)' = None /\ Calling(t)' = None /\ WaitKept(t) /\ KnowsOK(t)'
      /\ {thr[t].pc, "idle"} \cap {"add_insert", "destroy_index"} = {}
      /\ "idle" \notin PrivatePCs
  BY <1>0, <1>4, ServesByPCNext
  DEF Moved, WaitKept, KnowsOK, UserStateOK, GoneOK, GonePCs, PrivatePCs, ServePCs
<1>8. \E type \in Types : Becomes(q, type, thr[t].h, thr[t].s, None, "pending")
  BY <1>1, <1>3 DEF Types
<1>9. Typed' /\ IndexOwnership' /\ Owned(t, q) /\ TableKept(t) /\ StateKept /\ Reads(q) = None
  BY <1>3, <1>4, <1>5, <1>6, <1>7, <1>8, GiveTyped
<1>10. Reads(q)' = s
  BY <1>3, NotReading DEF Reads, RecvOf, Becomes
<1>11. Reading' /\ Promised
  BY <1>2, <1>7, <1>9, <1>10, HandKeeps DEF IInv, Owned
<1> QED
  BY <1>9, <1>11 DEF Kept, IInv, Owned

LEMMA RecvNewKeeps == ASSUME IInv, NEW t \in Threads, RecvNew(t) PROVE Kept
<1> USE DEF At
<1>0. /\ thr[t].pc = "recv_new" /\ UNCHANGED <<tableVars, state>> /\ LocalsOK(t)
      /\ thr[t].b = None /\ thr[t].s \in Sockets /\ thr[t].h \in Handles
  BY ThreadFacts DEF RecvNew, Threads, LocalsOK, UserOK, WorkerOK, Holds, NoHandlePCs, ServePCs
<1>1. PICK s \in Sockets : s = thr[t].s
  BY <1>0
<1>2. CASE (\E q \in Buffers \ heap : AsyncTcpRecv(q, thr[t].h, thr[t].s)) /\ Return(t)
  BY <1>0, <1>2, RecvKeeps
<1>3. CASE UNCHANGED bufVars /\ t \in Users /\ Return(t)
  <2>1. t \notin Workers /\ Reads(t) = s /\ Calling(t) = None /\ state[s] = "connected"
    BY <1>0, <1>1, <1>3, ThreadFacts, ServesByPC DEF UserStateOK
  <2>2. Moved(t, "idle", None, None, None, "idle", 0, None, None)
    BY <1>3, ReturnMoves DEF IInv, Ends
  <2>3. LocalsOK(t)'
    BY <1>0, <1>3, <2>2, ThreadFacts, ConstantsOK
    DEF Moved, LocalsOK, UserOK, UserPCs, NoHandlePCs, Maybe
  <2>4. Drops(t, "idle", None, None, None, None)
    BY DEF Drops, PrivatePCs, ServePCs
  <2>5. StateTypes' /\ StateKept /\ told' \subseteq issued
    BY <1>0, SameState DEF IInv, Typed, TableTypes, tableVars
  <2>6. /\ Reads(t)' = None /\ Calling(t)' = None /\ WaitKept(t) /\ KnowsOK(t)'
        /\ {thr[t].pc, "idle"} \cap {"add_insert", "destroy_index"} = {}
    BY <1>0, <1>3, <2>1, <2>2, ServesByPCNext DEF Moved, WaitKept, KnowsOK, UserStateOK
  <2>7. Typed' /\ IndexOwnership' /\ Owned(t, t) /\ TableKept(t)
    BY <1>0, <1>3, <2>2, <2>3, <2>4, <2>5, <2>6, CalmStep DEF tableVars
  <2>8. Fails(t, s) /\ state[s] # "accepted"
    BY <1>0, <1>1, <1>3, <2>1, <2>2 DEF Fails, Moved
  <2>9. Reading' /\ Promised
    BY <2>1, <2>5, <2>6, <2>7, <2>8, EndKeeps DEF IInv, Owned
  <2> QED
    BY <2>7, <2>9 DEF Kept, IInv, Owned
<1>4. CASE UNCHANGED bufVars /\ t \in Workers /\ Remove(t, "on_error")
  <2>1. t \notin Users /\ Reads(t) = s /\ Calling(t) = None /\ WorkerOK(t)
    BY <1>0, <1>1, <1>4, ThreadFacts, ServesByPC DEF PCs, ServePCs
  <2>2. Moved(t, "remove", thr[t].h, thr[t].s, thr[t].b, "on_error", thr[t].k, thr[t].l, thr[t].ls)
    BY <1>4, RemoveMoves DEF IInv
  <2>3. LocalsOK(t)'
    BY <1>0, <2>1, <2>2
    DEF Moved, LocalsOK, WorkerOK, WorkerPCs, PCs, Holds, NoHandlePCs, ServePCs, Maybe, tableVars
  <2>4. Drops(t, "remove", thr[t].h, thr[t].s, thr[t].l, thr[t].ls)
    BY DEF Drops, PrivatePCs, ServePCs
  <2>5. StateTypes' /\ StateKept /\ told' \subseteq issued
    BY <1>0, SameState DEF IInv, Typed, TableTypes, tableVars
  <2>6. thr'[t].pc = "remove" /\ thr'[t].s = s
    BY <1>1, <2>2 DEF Moved
  <2>7. /\ Reads(t)' = s /\ Calling(t)' = None /\ WaitKept(t) /\ KnowsOK(t)'
        /\ {thr[t].pc, "remove"} \cap {"add_insert", "destroy_index"} = {}
    BY <1>0, <1>4, <2>1, <2>6, ServesByPCNext
    DEF WaitKept, KnowsOK, GoneOK, GonePCs, PCs, ServePCs
  <2> QED
    BY <1>0, <1>4, <2>1, <2>2, <2>3, <2>4, <2>5, <2>7, CalmKeeps DEF tableVars
<1> QED
  BY <1>2, <1>3, <1>4 DEF RecvNew, Threads

-----------------------------------------------------------------------------
(* The handlers, after they took their buffer.                             *)

LEMMA Handler ==
  ASSUME IInv, NEW t \in Threads,
         thr[t].pc \in ServePCs \cup {"on_accepted", "on_received", "rearm", "on_disconnected",
                                      "on_error"}
  PROVE  /\ t \in Workers /\ t \notin Users /\ WorkerOK(t) /\ LocalsOK(t) /\ thr[t].s \in Sockets
         /\ thr[t].pc \in PCs
<1>1. t \notin Users
  BY ThreadFacts DEF UserOK, UserPCs, ServePCs
<1>2. t \in Workers
  BY <1>1, ThreadFacts
<1> QED
  BY <1>1, <1>2, ThreadFacts, FieldTypes DEF WorkerOK, ServePCs

LEMMA AcceptNextKeeps == ASSUME IInv, NEW t \in Threads, AcceptNext(t) PROVE Kept
<1> USE DEF At
<1>0. /\ thr[t].pc = "accept_next" /\ UNCHANGED tableVars
      /\ t \in Workers /\ t \notin Users /\ WorkerOK(t) /\ LocalsOK(t)
  BY Handler DEF AcceptNext, ServePCs
<1>1. PICK q \in Buffers, g \in Handles, x \in Sockets, s \in Sockets :
        /\ q = thr[t].b /\ g = thr[t].l /\ x = thr[t].ls /\ s = thr[t].s /\ g \in issued
  BY <1>0, Handler, ConstantsOK DEF WorkerOK, Holds, LocalsOK, Maybe, ServePCs
<1>2. Mine(t, g, x) /\ Sole(t) = s /\ s # x
  <2>1. Sole(t) = s /\ s # None
    BY <1>0, <1>1, ConstantsOK DEF Sole, PrivatePCs, ServePCs
  <2>2. SoleOK(t)
    BY ThreadFacts
  <2> QED
    BY <1>1, <2>1, <2>2 DEF SoleOK, Mine
<1>3. Reads(t) = None /\ Calling(t) = None
  BY <1>0, ThreadFacts, ServesByPC DEF ServePCs
<1>4. CASE /\ AsyncTcpAccept(q, g, x)
           /\ thr' = [thr EXCEPT ![t].pc = "set_accepted", ![t].b = None]
  <2>1. Moved(t, "set_accepted", thr[t].h, thr[t].s, None, thr[t].then, thr[t].k, thr[t].l, thr[t].ls)
    BY <1>4, DropMoves DEF IInv, PCs
  <2>2. LocalsOK(t)'
    BY <1>0, <2>1, Handler
    DEF Moved, LocalsOK, WorkerOK, WorkerPCs, PCs, Holds, NoHandlePCs, ServePCs, Maybe, tableVars
  <2>3. Drops(t, "set_accepted", thr[t].h, thr[t].s, thr[t].l, thr[t].ls)
    BY <1>0 DEF Drops, PrivatePCs, ServePCs
  <2>4. /\ Reads(t)' = None /\ Calling(t)' = None /\ WaitKept(t)
        /\ "set_accepted" \notin {"recv_new", "add_index"} \cup GonePCs
        /\ {thr[t].pc, "set_accepted"} \cap {"add_insert", "destroy_index"} = {}
    BY <1>0, <2>1, ServesByPCNext DEF Moved, WaitKept, GonePCs, ServePCs
  <2> QED
    BY <1>0, <1>1, <1>2, <1>3, <1>4, <2>1, <2>2, <2>3, <2>4, ArmKeeps
<1>5. CASE /\ Delete(q) /\ UNCHANGED state
           /\ thr' = [thr EXCEPT ![t].pc = "listen_error", ![t].b = None]
  <2>1. Moved(t, "listen_error", thr[t].h, thr[t].s, None, thr[t].then, thr[t].k, thr[t].l, thr[t].ls)
    BY <1>5, DropMoves DEF IInv, PCs
  <2>2. LocalsOK(t)'
    BY <1>0, <2>1, Handler
    DEF Moved, LocalsOK, WorkerOK, WorkerPCs, PCs, Holds, NoHandlePCs, ServePCs, Maybe, tableVars
  <2>3. Drops(t, "listen_error", thr[t].h, thr[t].s, thr[t].l, thr[t].ls)
    BY <1>0 DEF Drops, PrivatePCs, ServePCs
  <2>4. /\ Reads(t)' = None /\ Calling(t)' = None /\ WaitKept(t) /\ KnowsOK(t)'
        /\ {thr[t].pc, "listen_error"} \cap {"add_insert", "destroy_index"} = {}
    BY <1>0, <2>1, ServesByPCNext DEF Moved, WaitKept, KnowsOK, GoneOK, GonePCs, ServePCs
  <2>5. BufferTypes' /\ Frame(q) /\ q \notin heap' /\ io'[q] = "none"
    BY <1>0, <1>5, DeleteStep DEF IInv, tableVars
  <2>6. Typed' /\ IndexOwnership' /\ Owned(t, q) /\ TableKept(t) /\ StateKept /\ Reads(q) = None
    BY <1>0, <1>1, <1>5, <2>1, <2>2, <2>3, <2>4, <2>5, GiveTyped
  <2>7. Reads(q)' = None
    BY <1>1, <2>5, NotReading DEF Reads, RecvOf
  <2>8. Reading' /\ Promised
    BY <1>3, <2>4, <2>6, <2>7, HandKeeps DEF IInv, Owned
  <2> QED
    BY <2>6, <2>8 DEF Kept, IInv, Owned
<1> QED
  BY <1>1, <1>4, <1>5 DEF AcceptNext

LEMMA OnListenErrorKeeps == ASSUME IInv, NEW t \in Threads, OnListenError(t) PROVE Kept
<1> USE DEF At
<1>0. /\ thr[t].pc = "listen_error" /\ UNCHANGED <<tableVars, state, bufVars>>
      /\ t \in Workers /\ t \notin Users /\ WorkerOK(t) /\ LocalsOK(t)
  BY Handler DEF OnListenError, ServePCs
<1>1. Walks(t, "set_accepted")
  BY GotoMoves DEF OnListenError, IInv, PCs
<1>2. LocalsOK(t)'
  BY <1>0, <1>1
  DEF Walks, Moved, LocalsOK, WorkerOK, WorkerPCs, PCs, Holds, NoHandlePCs, ServePCs, Maybe, tableVars
<1>3. Drops(t, "set_accepted", thr[t].h, thr[t].s, thr[t].l, thr[t].ls)
  BY <1>0 DEF Drops, PrivatePCs, ServePCs
<1>4. StateTypes' /\ StateKept /\ told' \subseteq issued
  BY <1>0, SameState DEF IInv, Typed, TableTypes, tableVars
<1>5. Reads(t) = None /\ Calling(t) = None
  BY <1>0, ThreadFacts, ServesByPC DEF ServePCs
<1>6. /\ Reads(t)' = None /\ Calling(t)' = None /\ WaitKept(t) /\ KnowsOK(t)'
      /\ {thr[t].pc, "set_accepted"} \cap {"add_insert", "destroy_index"} = {}
  BY <1>0, <1>1, ServesByPCNext DEF Walks, Moved, WaitKept, KnowsOK, GoneOK, GonePCs, ServePCs
<1> QED
  BY <1>0, <1>1, <1>2, <1>3, <1>4, <1>5, <1>6, CalmKeeps DEF Walks, tableVars

LEMMA SetAcceptedKeeps == ASSUME IInv, NEW t \in Threads, SetAccepted(t) PROVE Kept
<1> USE DEF At
<1>0. /\ thr[t].pc = "set_accepted" /\ UNCHANGED <<tableVars, bufVars>>
      /\ t \in Workers /\ t \notin Users /\ WorkerOK(t) /\ LocalsOK(t) /\ thr[t].b = None
  BY Handler DEF SetAccepted, ServePCs, WorkerOK, Holds
<1>1. PICK s \in Sockets : s = thr[t].s /\ s # None
  BY <1>0, Handler, ConstantsOK DEF ServePCs
<1>2. told' \subseteq issued /\ UNCHANGED <<table, indexes, issued, bufVars>>
  BY <1>0 DEF IInv, Typed, TableTypes, tableVars
<1>3. Reads(t) = None /\ Calling(t) = None
  BY <1>0, ThreadFacts, ServesByPC DEF ServePCs
<1>4. CASE Return(t) /\ UNCHANGED state
  <2>1. Moved(t, "idle", None, None, None, "idle", 0, None, None)
    BY <1>4, ReturnMoves DEF IInv, Ends
  <2>2. LocalsOK(t)'
    BY <1>0, <2>1, ConstantsOK DEF Moved, LocalsOK, WorkerOK, WorkerPCs, PCs, Holds, NoHandlePCs, Maybe
  <2>3. Drops(t, "idle", None, None, None, None)
    BY DEF Drops, PrivatePCs, ServePCs
  <2>4. StateTypes' /\ StateKept
    BY <1>4, SameState DEF IInv
  <2>5. /\ Reads(t)' = None /\ Calling(t)' = None /\ WaitKept(t) /\ KnowsOK(t)'
        /\ {thr[t].pc, "idle"} \cap {"add_insert", "destroy_index"} = {}
    BY <1>0, <2>1, ServesByPCNext DEF Moved, WaitKept, KnowsOK, GoneOK, GonePCs, ServePCs
  <2> QED
    BY <1>0, <1>2, <1>3, <2>1, <2>2, <2>3, <2>4, <2>5, CalmKeeps
<1>5. CASE state' = [state EXCEPT ![s] = "accepted"] /\ Goto(t, "add_index")
  <2>1. Walks(t, "add_index")
    BY <1>5, GotoMoves DEF IInv, PCs
  <2>2. LocalsOK(t)'
    BY <1>0, <1>2, <2>1
    DEF Walks, Moved, LocalsOK, WorkerOK, WorkerPCs, PCs, Holds, NoHandlePCs, ServePCs, Maybe
  <2>3. Drops(t, "add_index", thr[t].h, thr[t].s, thr[t].l, thr[t].ls)
    BY <1>0 DEF Drops, PrivatePCs, ServePCs
  <2>4. StateTypes' /\ state'[s] = "accepted" /\ \A x \in Sockets : x # s => state'[x] = state[x]
    BY <1>5 DEF IInv, Typed, StateTypes, States
  <2>5. {thr[t].pc, "add_index"} \cap {"add_insert", "destroy_index"} = {}
    BY <1>0
  <2>6. Typed' /\ IndexOwnership' /\ Owned(t, t)
    BY <1>0, <1>2, <2>1, <2>2, <2>3, <2>4, <2>5, CalmStep DEF Walks
  <2>7. thr'[t].pc = "add_index" /\ thr'[t].s = s
    BY <1>1, <2>1 DEF Walks, Moved
  <2>8. Reads(t)' = s /\ Calling(t)' = None /\ KnowsOK(t)' /\ Connected(s)'
    BY <1>0, <2>4, <2>7, ServesByPCNext DEF KnowsOK, GoneOK, GonePCs, ServePCs, PCs, Connected
  <2>9. \A p \in Parties \ {t} : ~Refers(p, s)
    <3>1. Sole(t) = s
      BY <1>0, <1>1 DEF Sole, PrivatePCs, ServePCs
    <3> QED
      BY <1>1, <3>1, ThreadFacts DEF SoleOK
  <2>10. ~Read(s)
    BY <1>1, <1>3, <2>9, ViewsAlways DEF IInv, ViewsOK, Read
  <2>11. \A u \in Users : u # t => thr[u].s # s
    BY <2>9 DEF Refers, Parties, Threads
  <2>12. Reading' /\ Promised
    BY <1>0, <1>2, <1>3, <2>4, <2>6, <2>8, <2>10, <2>11, StartKeeps DEF IInv, Owned
  <2> QED
    BY <2>6, <2>12 DEF Kept, IInv, Owned
<1> QED
  BY <1>1, <1>4, <1>5 DEF SetAccepted

\* What a worker between its buffer and the end of its handler reads, and calls back about.
LEMMA HandlerReads ==
  ASSUME IInv, NEW t \in Threads,
         thr[t].pc \in {"on_accepted", "on_received", "rearm", "on_disconnected", "on_error"}
  PROVE  /\ Reads(t) = thr[t].s /\ Calling(t) \in {None, thr[t].s}
         /\ thr[t].h \in Handles /\ thr[t].h \in issued /\ thr[t].s # None
<1>1. t \in Workers /\ thr[t].s \in Sockets
  BY Handler
<1>2. Reads(t) = thr[t].s /\ Calling(t) \in {None, thr[t].s}
  BY <1>1, ThreadFacts, ServesByPC DEF PCs, ServePCs
<1>3. thr[t].h \in Handles /\ thr[t].h \in issued /\ thr[t].s # None
  BY <1>1, ThreadFacts, ConstantsOK DEF LocalsOK, NoHandlePCs, ServePCs, Maybe
<1> QED
  BY <1>2, <1>3

LEMMA OnTcpAcceptedKeeps == ASSUME IInv, NEW t \in Threads, OnTcpAccepted(t) PROVE Kept
<1> USE DEF At
<1>0. /\ thr[t].pc = "on_accepted" /\ UNCHANGED <<table, indexes, issued, state, bufVars>>
      /\ t \in Workers /\ t \notin Users /\ WorkerOK(t) /\ LocalsOK(t) /\ thr[t].s \in Sockets
      /\ Reads(t) = thr[t].s /\ thr[t].h \in issued /\ told' = told \cup {thr[t].h}
  BY Handler, HandlerReads DEF OnTcpAccepted
<1>1. Walks(t, "recv_new")
  BY GotoMoves DEF OnTcpAccepted, IInv, PCs
<1>2. LocalsOK(t)'
  BY <1>0, <1>1
  DEF Walks, Moved, LocalsOK, WorkerOK, WorkerPCs, PCs, Holds, NoHandlePCs, ServePCs, Maybe
<1>3. Drops(t, "recv_new", thr[t].h, thr[t].s, thr[t].l, thr[t].ls)
  BY DEF Drops, PrivatePCs, ServePCs
<1>4. StateTypes' /\ StateKept /\ told' \subseteq issued
  BY <1>0, SameState DEF IInv, Typed, TableTypes
<1>5. thr'[t].pc = "recv_new" /\ thr'[t].s = thr[t].s
  BY <1>1 DEF Walks, Moved
<1>6. /\ Reads(t)' = Reads(t) /\ Calling(t)' = None /\ WaitKept(t) /\ KnowsOK(t)'
      /\ {thr[t].pc, "recv_new"} \cap {"add_insert", "destroy_index"} = {}
  BY <1>0, <1>5, ServesByPCNext DEF WaitKept, KnowsOK, GoneOK, GonePCs, PCs, ServePCs
<1> QED
  BY <1>0, <1>1, <1>2, <1>3, <1>4, <1>6, CalmKeeps DEF Walks

LEMMA OnTcpReceivedKeeps == ASSUME IInv, NEW t \in Threads, OnTcpReceived(t) PROVE Kept
<1> USE DEF At
<1>0. /\ thr[t].pc = "on_received" /\ UNCHANGED <<tableVars, state, bufVars>>
      /\ t \in Workers /\ t \notin Users /\ WorkerOK(t) /\ LocalsOK(t) /\ thr[t].s \in Sockets
      /\ Reads(t) = thr[t].s
  BY Handler, HandlerReads DEF OnTcpReceived
<1>1. Walks(t, "rearm")
  BY GotoMoves DEF OnTcpReceived, IInv, PCs
<1>2. LocalsOK(t)'
  BY <1>0, <1>1
  DEF Walks, Moved, LocalsOK, WorkerOK, WorkerPCs, PCs, Holds, NoHandlePCs, ServePCs, Maybe, tableVars
<1>3. Drops(t, "rearm", thr[t].h, thr[t].s, thr[t].l, thr[t].ls)
  BY DEF Drops, PrivatePCs, ServePCs
<1>4. StateTypes' /\ StateKept /\ told' \subseteq issued
  BY <1>0, SameState DEF IInv, Typed, TableTypes, tableVars
<1>5. thr'[t].pc = "rearm" /\ thr'[t].s = thr[t].s
  BY <1>1 DEF Walks, Moved
<1>6. /\ Reads(t)' = Reads(t) /\ Calling(t)' = None /\ WaitKept(t) /\ KnowsOK(t)'
      /\ {thr[t].pc, "rearm"} \cap {"add_insert", "destroy_index"} = {}
  BY <1>0, <1>5, ServesByPCNext DEF WaitKept, KnowsOK, GoneOK, GonePCs, PCs, ServePCs
<1> QED
  BY <1>0, <1>1, <1>2, <1>3, <1>4, <1>6, CalmKeeps DEF Walks, tableVars

LEMMA RearmKeeps == ASSUME IInv, NEW t \in Threads, Rearm(t) PROVE Kept
<1> USE DEF At
<1>0. /\ thr[t].pc = "rearm" /\ UNCHANGED <<tableVars, state>>
      /\ t \in Workers /\ t \notin Users /\ WorkerOK(t) /\ LocalsOK(t) /\ thr[t].s \in Sockets
      /\ Reads(t) = thr[t].s
  BY Handler, HandlerReads DEF Rearm
<1>1. PICK q \in Buffers : q = thr[t].b
  BY <1>0 DEF WorkerOK, Holds
<1>2. CASE AsyncTcpRecv(q, thr[t].h, thr[t].s) /\ Return(t)
  BY <1>0, <1>1, <1>2, RecvKeeps
<1>3. CASE /\ Delete(q)
           /\ thr' = [thr EXCEPT ![t].pc = "remove", ![t].then = "on_error", ![t].b = None]
  <2>1. Moved(t, "remove", thr[t].h, thr[t].s, None, "on_error", thr[t].k, thr[t].l, thr[t].ls)
    BY <1>3, FailMoves DEF IInv
  <2>2. LocalsOK(t)'
    BY <1>0, <2>1
    DEF Moved, LocalsOK, WorkerOK, WorkerPCs, PCs, Holds, NoHandlePCs, ServePCs, Maybe, tableVars
  <2>3. Drops(t, "remove", thr[t].h, thr[t].s, thr[t].l, thr[t].ls)
    BY DEF Drops, PrivatePCs, ServePCs
  <2>4. thr'[t].pc = "remove" /\ thr'[t].s = thr[t].s
    BY <2>1 DEF Moved
  <2>5. /\ Reads(t)' = Reads(t) /\ Calling(t)' = None /\ WaitKept(t) /\ KnowsOK(t)'
        /\ {thr[t].pc, "remove"} \cap {"add_insert", "destroy_index"} = {}
    BY <1>0, <2>4, ServesByPCNext DEF WaitKept, KnowsOK, GoneOK, GonePCs, PCs, ServePCs
  <2>6. BufferTypes' /\ Frame(q) /\ q \notin heap' /\ io'[q] = "none"
    BY <1>0, <1>3, DeleteStep DEF IInv, tableVars
  <2>7. Typed' /\ IndexOwnership' /\ Owned(t, q) /\ TableKept(t) /\ StateKept /\ Reads(q) = None
    BY <1>0, <1>1, <2>1, <2>2, <2>3, <2>5, <2>6, GiveTyped
  <2>8. Reads(q)' = None
    BY <1>1, <2>6, NotReading DEF Reads, RecvOf
  <2>9. Reading' /\ Promised
    BY <2>5, <2>7, <2>8, HandKeeps DEF IInv, Owned
  <2> QED
    BY <2>7, <2>9 DEF Kept, IInv, Owned
<1> QED
  BY <1>1, <1>2, <1>3 DEF Rearm

\* The connection of a handler that reports its end is in no entry.
LEMMA GoneEverywhere ==
  ASSUME IInv, NEW t \in Threads, thr[t].pc \in {"on_disconnected", "on_error"}
  PROVE  \A x \in Handles : table[x] # thr[t].s
<1>1. t \in Workers /\ thr[t].s \in Sockets /\ thr[t].h \in Handles /\ thr[t].s # None
  BY Handler, HandlerReads
<1>2. table[thr[t].h] = None
  BY <1>1, ThreadFacts DEF GoneOK, GonePCs
<1> SUFFICES ASSUME NEW x \in Handles, table[x] = thr[t].s PROVE FALSE
  OBVIOUS
<1>3. Claimed(x, thr[t].s) /\ Claimed(thr[t].h, thr[t].s)
  BY ThreadFacts DEF Claimed, Mine
<1>4. x = thr[t].h
  BY <1>1, <1>3 DEF IInv, OneToOne
<1> QED
  BY <1>1, <1>2, <1>4

LEMMA OnTcpDisconnectedKeeps == ASSUME IInv, NEW t \in Threads, OnTcpDisconnected(t) PROVE Kept
<1> USE DEF At
<1>0. /\ thr[t].pc = "on_disconnected" /\ UNCHANGED <<tableVars, state>> /\ Return(t)
      /\ t \in Workers /\ t \notin Users /\ WorkerOK(t) /\ LocalsOK(t) /\ thr[t].s \in Sockets
      /\ Reads(t) = thr[t].s /\ Calling(t) \in {None, thr[t].s} /\ Delete(thr[t].b)
      /\ UNCHANGED table
  BY Handler, HandlerReads DEF OnTcpDisconnected, tableVars
<1>1. PICK q \in Buffers, s \in Sockets : q = thr[t].b /\ s = thr[t].s
  BY <1>0 DEF WorkerOK, Holds
<1>2. Moved(t, "idle", None, None, None, "idle", 0, None, None)
  BY <1>0, ReturnMoves DEF IInv, Ends
<1>3. LocalsOK(t)'
  BY <1>0, <1>2, ConstantsOK DEF Moved, LocalsOK, WorkerOK, WorkerPCs, PCs, Holds, NoHandlePCs, Maybe
<1>4. Drops(t, "idle", None, None, None, None)
  BY DEF Drops, PrivatePCs, ServePCs
<1>5. /\ Reads(t)' = None /\ Calling(t)' = None /\ WaitKept(t) /\ KnowsOK(t)'
      /\ {thr[t].pc, "idle"} \cap {"add_insert", "destroy_index"} = {}
  BY <1>0, <1>2, ServesByPCNext DEF Moved, WaitKept, KnowsOK, GoneOK, GonePCs
<1>6. BufferTypes' /\ Frame(q) /\ q \notin heap' /\ io'[q] = "none"
  BY <1>0, <1>1, DeleteStep DEF IInv, tableVars
<1>7. Typed' /\ IndexOwnership' /\ Owned(t, q) /\ TableKept(t) /\ StateKept /\ Reads(q) = None
  BY <1>0, <1>1, <1>2, <1>3, <1>4, <1>5, <1>6, GiveTyped
<1>8. Reads(q)' = None
  BY <1>1, <1>6, NotReading DEF Reads, RecvOf
<1>9. \A x \in Handles : table'[x] # s
  BY <1>0, <1>1, GoneEverywhere
<1>10. Reading' /\ Promised
  BY <1>0, <1>1, <1>5, <1>7, <1>8, <1>9, EndKeeps DEF IInv, Owned
<1> QED
  BY <1>7, <1>10 DEF Kept, IInv, Owned

LEMMA OnTcpErrorKeeps == ASSUME IInv, NEW t \in Threads, OnTcpError(t) PROVE Kept
<1> USE DEF At
<1>0. /\ thr[t].pc = "on_error" /\ UNCHANGED <<tableVars, state, bufVars>> /\ Return(t)
      /\ t \in Workers /\ t \notin Users /\ WorkerOK(t) /\ LocalsOK(t)
      /\ Reads(t) = thr[t].s /\ Calling(t) \in {None, thr[t].s} /\ UNCHANGED table
  BY Handler, HandlerReads DEF OnTcpError, tableVars
<1>1. PICK s \in Sockets : s = thr[t].s
  BY <1>0, Handler
<1>2. Moved(t, "idle", None, None, None, "idle", 0, None, None) /\ thr[t].b = None
  BY <1>0, ReturnMoves DEF IInv, Ends, WorkerOK, Holds
<1>3. LocalsOK(t)'
  BY <1>0, <1>2, ConstantsOK DEF Moved, LocalsOK, WorkerOK, WorkerPCs, PCs, Holds, NoHandlePCs, Maybe
<1>4. Drops(t, "idle", None, None, None, None)
  BY DEF Drops, PrivatePCs, ServePCs
<1>5. StateTypes' /\ StateKept /\ told' \subseteq issued
  BY <1>0, SameState DEF IInv, Typed, TableTypes, tableVars
<1>6. /\ Reads(t)' = None /\ Calling(t)' = None /\ WaitKept(t) /\ KnowsOK(t)'
      /\ {thr[t].pc, "idle"} \cap {"add_insert", "destroy_index"} = {}
  BY <1>0, <1>2, ServesByPCNext DEF Moved, WaitKept, KnowsOK, GoneOK, GonePCs
<1>7. Typed' /\ IndexOwnership' /\ Owned(t, t) /\ TableKept(t)
  BY <1>0, <1>2, <1>3, <1>4, <1>5, <1>6, CalmStep DEF tableVars
<1>8. \A x \in Handles : table'[x] # s
  BY <1>0, <1>1, GoneEverywhere
<1>9. Reading' /\ Promised
  BY <1>0, <1>1, <1>5, <1>6, <1>7, <1>8, EndKeeps DEF IInv, Owned
<1> QED
  BY <1>7, <1>9 DEF Kept, IInv, Owned

-----------------------------------------------------------------------------
(* The handlers, up to their first callback.                               *)

\* A worker that takes a completion is idle, and nobody else has the buffer.
LEMMA Taker ==
  ASSUME IInv, NEW t \in Workers, NEW q \in Buffers, NEW type, Completed(t, q, type)
  PROVE  /\ t \in Threads /\ t \notin Users /\ thr[t] = Idle /\ thr[t].pc = "idle" /\ thr[t].b = None
         /\ q \in heap /\ io[q] # "none" /\ q \notin Threads /\ q \in Parties /\ buf[q].type = type
         /\ \A u \in Threads : thr[u].b # q
         /\ buf[q].handle \in Handles /\ buf[q].handle \in issued /\ buf[q].sock \in Sockets
         /\ type = "accept" => buf[q].accept \in Sockets
         /\ Mine(q, buf[q].handle, buf[q].sock) /\ Refers(q, buf[q].sock)
         /\ table[buf[q].handle] # None => table[buf[q].handle] = buf[q].sock
         /\ Reads(t) = None /\ Calling(t) = None
         /\ Reads(q) = IF type = "recv" THEN buf[q].sock ELSE None
<1> USE DEF At
<1>1. /\ t \in Threads /\ t \notin Users /\ thr[t].pc = "idle" /\ q \notin Threads /\ q \in Parties
      /\ io[q] # "none" /\ buf[q].type = type
  BY ConstantsOK DEF Threads, Completed, Parties
<1>2. thr[t] = Idle /\ thr[t].b = None
  BY <1>1, IdleFields DEF IInv, Typed, ThreadTypes
<1>3. q \in heap /\ \A u \in Threads : thr[u].b # q
  BY <1>1, Held DEF IInv
<1>4. /\ buf[q].handle \in issued /\ buf[q].sock \in Sockets
      /\ type = "accept" => buf[q].accept \in Sockets
  BY <1>1, <1>3 DEF IInv, Typed, BufferTypes, BufferOK
<1>5. buf[q].handle \in Handles
  BY <1>4 DEF IInv, Typed, TableTypes
<1>6. Mine(q, buf[q].handle, buf[q].sock) /\ Refers(q, buf[q].sock)
  BY <1>1, <1>3 DEF Mine, Refers
<1>7. table[buf[q].handle] # None => table[buf[q].handle] = buf[q].sock
  <2> SUFFICES ASSUME table[buf[q].handle] # None PROVE table[buf[q].handle] = buf[q].sock
    OBVIOUS
  <2>1. PICK x : x = table[buf[q].handle]
    OBVIOUS
  <2>2. x \in Sockets
    BY <1>5, <2>1 DEF IInv, Typed, TableTypes, Maybe
  <2>3. Claimed(buf[q].handle, x) /\ Claimed(buf[q].handle, buf[q].sock)
    BY <1>1, <1>6, <2>1 DEF Claimed
  <2> QED
    BY <1>4, <1>5, <2>1, <2>2, <2>3 DEF IInv, OneToOne
<1>8. Reads(t) = None /\ Calling(t) = None
  BY <1>1, ThreadFacts, ServesByPC DEF PCs
<1>9. Reads(q) = IF type = "recv" THEN buf[q].sock ELSE None
  BY <1>1, <1>3 DEF Reads, RecvOf
<1> QED
  BY <1>1, <1>2, <1>3, <1>4, <1>5, <1>6, <1>7, <1>8, <1>9

\* A handler deletes the buffer it took.
LEMMA LoseTyped ==
  ASSUME IInv, NEW t \in Workers, NEW q \in Buffers, NEW type, Completed(t, q, type),
         Delete(q), UNCHANGED <<tableVars, state, thr>>
  PROVE  /\ Typed' /\ IndexOwnership' /\ Owned(t, q) /\ TableKept(t) /\ StateKept
         /\ Reads(t)' = None /\ Calling(t)' = None /\ Reads(q)' = None
         /\ WaitKept(t) /\ KnowsOK(t)' /\ UNCHANGED table
<1> USE DEF At
<1>1. /\ t \in Threads /\ t \notin Users /\ thr[t].pc = "idle" /\ thr[t].b = None /\ io[q] # "none"
      /\ q \notin Threads /\ UNCHANGED <<table, indexes, issued, told>>
  BY Taker DEF tableVars
<1>2. BufferTypes' /\ Frame(q) /\ q \notin heap' /\ io'[q] = "none"
  BY <1>1, DeleteStep DEF IInv
<1>3. StateTypes' /\ StateKept
  BY SameState DEF IInv
<1>4. ThreadTypes'
  BY <1>1, SameThreads DEF IInv
<1>5. TableTypes'
  BY <1>1 DEF IInv, Typed, TableTypes
<1>6. IndexOwnership'
  BY <1>1 DEF IInv, IndexOwnership, Owns
<1>7. Owned(t, q)
  BY <1>1, <1>2, LoseStep
<1>8. Reads(t)' = None /\ Calling(t)' = None
  BY <1>1, ServesByPCNext
<1>9. Reads(q)' = None
  BY <1>1, <1>2 DEF Reads, RecvOf
<1>10. WaitKept(t) /\ KnowsOK(t)'
  BY <1>1 DEF WaitKept, KnowsOK, GoneOK, GonePCs
<1> QED
  BY <1>1, <1>2, <1>3, <1>4, <1>5, <1>6, <1>7, <1>8, <1>9, <1>10, SameTable DEF Typed

\* A handler takes the buffer over, with what the buffer refers to.
LEMMA TakeTyped ==
  ASSUME IInv, NEW t \in Workers, NEW q \in Buffers, NEW type, Completed(t, q, type),
         NEW pc, NEW h, NEW s, NEW then, NEW k, NEW l, NEW ls,
         Moved(t, pc, h, s, q, then, k, l, ls), LocalsOK(t)', UNCHANGED <<tableVars, state>>,
         BufferTypes', Frame(q),
         Becomes(q, buf[q].type, buf[q].handle, buf[q].sock, None, "none"),
         pc \notin {"add_insert", "destroy_index"},
         \A x \in Handles, y \in Sockets : Mine(t, x, y)' => Mine(q, x, y),
         \A y \in Sockets : Refers(t, y)' => Refers(q, y),
         SoleOK(t)'
  PROVE  /\ Typed' /\ IndexOwnership' /\ Owned(t, q) /\ TableKept(t) /\ StateKept
         /\ Reads(q)' = None
<1> USE DEF At
<1>1. /\ t \in Threads /\ t \notin Users /\ thr[t].pc = "idle" /\ thr[t].b = None /\ q \in heap
      /\ q \notin Threads /\ q \in Parties /\ q # None
      /\ UNCHANGED <<table, indexes, issued, told>>
      /\ \A u \in Threads : thr[u].b # q
  BY Taker, ConstantsOK DEF tableVars
<1>2. StateTypes' /\ StateKept
  BY SameState DEF IInv
<1>3. Typed' /\ IndexOwnership' /\ TableKept(t)
  BY <1>1, <1>2, BufferTyped
<1>4. Only(t, q)
  BY DEF Only, Moved, Frame
<1>5. BufferOwnership'
  <2>1. heap' \subseteq Buffers /\ thr'[t].b = q /\ io'[q] = "none" /\ q \in heap'
    BY DEF BufferTypes, Moved, Becomes
  <2> QED
    BY <1>1, <1>4, <2>1, BufferStep DEF IInv, Threads
<1>6. OneToOne'
  <2>1. \A x \in Handles, y \in Sockets : Mine(q, x, y)' => Mine(q, x, y)
    BY <1>1 DEF Mine, Becomes
  <2>2. \A x \in Handles, y \in Sockets :
          Mine(t, x, y)' \/ Mine(q, x, y)' \/ table'[x] = y => Claimed(x, y)
    BY <1>1, <2>1 DEF Claimed
  <2> QED
    BY <1>1, <1>4, <2>2, ClaimStep DEF IInv
<1>7. SoleInv'
  <2>1. \A y \in Sockets : Refers(q, y)' => Refers(q, y)
    BY <1>1, ConstantsOK DEF Refers, Becomes
  <2>2. SoleOK(q)'
    <3>1. Sole(q)' = None
      BY <1>1 DEF Sole, Becomes
    <3> QED
      BY <3>1 DEF SoleOK
  <2>3. \A y \in Sockets : Refers(t, y)' \/ Refers(q, y)' =>
           \/ Refers(t, y) \/ Refers(q, y) \/ y \in FreeSockets
           \/ \E x \in Handles : table[x] = y
    BY <2>1
  <2>4. \A x \in Handles, y \in Sockets : table'[x] = y => table[x] = y \/ y = Sole(t)
    BY <1>1
  <2> QED
    BY <1>1, <1>4, <2>2, <2>3, <2>4, SoleStep DEF IInv
<1>8. Reads(q)' = None
  BY <1>1 DEF Reads, RecvOf, Becomes
<1> QED
  BY <1>2, <1>3, <1>4, <1>5, <1>6, <1>7, <1>8 DEF Owned

LEMMA OnTcpSendKeeps ==
  ASSUME IInv, NEW t \in Workers, NEW q \in Buffers, OnTcpSend(t, q) PROVE Kept
<1>1. Completed(t, q, "send") /\ Delete(q) /\ UNCHANGED <<tableVars, state, thr>>
  BY DEF OnTcpSend
<1>2. /\ Typed' /\ IndexOwnership' /\ Owned(t, q) /\ TableKept(t) /\ StateKept
      /\ Reads(t)' = None /\ Calling(t)' = None /\ Reads(q)' = None /\ WaitKept(t) /\ KnowsOK(t)'
  BY <1>1, LoseTyped
<1>3. t \in Threads /\ Reads(t) = None /\ Calling(t) = None /\ Reads(q) = None
  BY <1>1, Taker
<1>4. Reading' /\ Promised
  BY <1>2, <1>3, HandKeeps DEF IInv, Owned
<1> QED
  BY <1>2, <1>4 DEF Kept, IInv, Owned

LEMMA OnTcpRecvKeeps ==
  ASSUME IInv, NEW t \in Workers, NEW q \in Buffers, OnTcpRecv(t, q) PROVE Kept
<1> USE DEF At
<1>0. Completed(t, q, "recv") /\ UNCHANGED <<tableVars, state>>
  BY DEF OnTcpRecv
<1>1. /\ t \in Threads /\ t \notin Users /\ thr[t].pc = "idle" /\ q \in heap /\ q \notin Threads
      /\ Reads(t) = None /\ Calling(t) = None /\ t \in Parties
  BY <1>0, Taker DEF Parties
<1>2. PICK g \in Handles, x \in Sockets :
        /\ g = buf[q].handle /\ x = buf[q].sock /\ g \in issued /\ x # None
        /\ Mine(q, g, x) /\ Refers(q, x) /\ Reads(q) = x
        /\ table[g] # None => table[g] = x
  BY <1>0, Taker, ConstantsOK
<1>3. CASE table[g] = None
  <2>1. Delete(q) /\ UNCHANGED thr
    BY <1>2, <1>3 DEF OnTcpRecv, Take
  <2>2. /\ Typed' /\ IndexOwnership' /\ Owned(t, q) /\ TableKept(t) /\ StateKept
        /\ Reads(t)' = None /\ Calling(t)' = None /\ Reads(q)' = None /\ WaitKept(t) /\ KnowsOK(t)'
        /\ UNCHANGED table
    BY <1>0, <2>1, LoseTyped
  <2>3. \A y \in Handles : table'[y] # x
    <3> SUFFICES ASSUME NEW y \in Handles, table[y] = x PROVE FALSE
      BY <2>2
    <3>1. Claimed(y, x) /\ Claimed(g, x)
      BY <1>2 DEF Claimed, Parties
    <3>2. y = g
      BY <1>2, <3>1 DEF IInv, OneToOne
    <3> QED
      BY <1>2, <1>3, <3>2
  <2>4. Reading' /\ Promised
    BY <1>1, <1>2, <2>2, <2>3, EndKeeps DEF IInv, Owned
  <2> QED
    BY <2>2, <2>4 DEF Kept, IInv, Owned
<1>4. CASE table[g] # None
  <2>1. table[g] = x
    BY <1>2, <1>4
  <2>2. /\ BufferTypes' /\ Frame(q)
        /\ Becomes(q, buf[q].type, buf[q].handle, buf[q].sock, None, "none")
    BY <1>0, <1>1, <1>2, <1>4, TakeStep DEF OnTcpRecv, IInv, tableVars
  <2>3. PICK pc, then :
          /\ Moved(t, pc, g, x, q, then, 0, None, None)
          /\ \/ pc = "on_received" /\ then = "idle"
             \/ pc = "remove" /\ then = "on_disconnected"
    <3>1. CASE io[q] = "ok"
      <4>1. thr' = [thr EXCEPT ![t] = [[Idle EXCEPT !.h = g, !.s = x, !.b = q]
                                         EXCEPT !.pc = "on_received"]]
        BY <1>2, <1>4, <2>1, <3>1 DEF OnTcpRecv, Take
      <4>2. Moved(t, "on_received", g, x, q, "idle", 0, None, None)
        BY <1>1, <4>1, RecvMoves DEF IInv
      <4> QED
        BY <4>2
    <3>2. CASE io[q] # "ok"
      <4>1. thr' = [thr EXCEPT ![t] = [[Idle EXCEPT !.h = g, !.s = x, !.b = q]
                                         EXCEPT !.pc = "remove", !.then = "on_disconnected"]]
        BY <1>2, <1>4, <2>1, <3>2 DEF OnTcpRecv, Take
      <4>2. Moved(t, "remove", g, x, q, "on_disconnected", 0, None, None)
        BY <1>1, <4>1, RecvMoves DEF IInv
      <4> QED
        BY <4>2
    <3> QED
      BY <3>1, <3>2
  <2>4. /\ thr'[t].pc = pc /\ thr'[t].h = g /\ thr'[t].s = x /\ thr'[t].l = None /\ thr'[t].ls = None
        /\ thr'[t].b = q /\ thr'[t].then = then
    BY <2>3 DEF Moved
  <2>5. LocalsOK(t)'
    BY <1>0, <1>1, <1>2, <2>3, <2>4
    DEF LocalsOK, WorkerOK, WorkerPCs, PCs, Holds, NoHandlePCs, ServePCs, Maybe, tableVars
  <2>6. \A h \in Handles, y \in Sockets : Mine(t, h, y)' => Mine(q, h, y)
    BY <1>1, <1>2, <2>4, ConstantsOK DEF Mine
  <2>7. \A y \in Sockets : Refers(t, y)' => Refers(q, y)
    BY <1>1, <1>2, <2>4, ConstantsOK DEF Refers
  <2>8. SoleOK(t)'
    <3>1. Sole(t)' = None
      BY <1>1, <2>3, <2>4 DEF Sole, PrivatePCs, ServePCs
    <3> QED
      BY <3>1 DEF SoleOK
  <2>9. pc \notin {"add_insert", "destroy_index"}
    BY <2>3
  <2>10. /\ Typed' /\ IndexOwnership' /\ Owned(t, q) /\ TableKept(t) /\ StateKept
         /\ Reads(q)' = None
    BY <1>0, <2>2, <2>3, <2>5, <2>6, <2>7, <2>8, <2>9, TakeTyped
  <2>11. /\ Reads(t)' = x /\ Calling(t)' \in {None, x} /\ WaitKept(t) /\ KnowsOK(t)'
    BY <1>1, <2>3, <2>4, ServesByPCNext DEF WaitKept, KnowsOK, GoneOK, GonePCs, PCs, ServePCs
  <2>12. Reading' /\ Promised
    BY <1>1, <1>2, <2>10, <2>11, HandKeeps DEF IInv, Owned
  <2> QED
    BY <2>10, <2>12 DEF Kept, IInv, Owned
<1> QED
  BY <1>3, <1>4

LEMMA OnTcpAcceptKeeps ==
  ASSUME IInv, NEW t \in Workers, NEW q \in Buffers, OnTcpAccept(t, q) PROVE Kept
<1> USE DEF At
<1>0. Completed(t, q, "accept") /\ UNCHANGED <<tableVars, state>>
  BY DEF OnTcpAccept
<1>1. /\ t \in Threads /\ t \notin Users /\ thr[t].pc = "idle" /\ q \in heap /\ q \notin Threads
      /\ Reads(t) = None /\ Calling(t) = None /\ Reads(q) = None /\ t \in Parties /\ q \in Parties
  BY <1>0, Taker DEF Parties
<1>2. PICK g \in Handles, x \in Sockets, y \in Sockets :
        /\ g = buf[q].handle /\ x = buf[q].sock /\ y = buf[q].accept /\ g \in issued
        /\ x # None /\ y # None /\ Mine(q, g, x) /\ Refers(q, x) /\ Refers(q, y)
        /\ table[g] # None => table[g] = x
  BY <1>0, <1>1, Taker, ConstantsOK DEF Refers
<1>3. CASE table[g] = None
  <2>1. Delete(q) /\ UNCHANGED thr
    BY <1>2, <1>3 DEF OnTcpAccept, Take
  <2>2. /\ Typed' /\ IndexOwnership' /\ Owned(t, q) /\ TableKept(t) /\ StateKept
        /\ Reads(t)' = None /\ Calling(t)' = None /\ Reads(q)' = None /\ WaitKept(t) /\ KnowsOK(t)'
    BY <1>0, <2>1, LoseTyped
  <2>3. Reading' /\ Promised
    BY <1>1, <2>2, HandKeeps DEF IInv, Owned
  <2> QED
    BY <2>2, <2>3 DEF Kept, IInv, Owned
<1>4. CASE table[g] # None
  <2>1. table[g] = x
    BY <1>2, <1>4
  <2>2. /\ BufferTypes' /\ Frame(q)
        /\ Becomes(q, buf[q].type, buf[q].handle, buf[q].sock, None, "none")
    BY <1>0, <1>1, <1>2, <1>4, TakeStep DEF OnTcpAccept, IInv, tableVars
  <2>3. Moved(t, "accept_next", None, y, q, "idle", 0, g, x)
    <3>1. PICK ok \in BOOLEAN : ok = (io[q] = "ok")
      OBVIOUS
    <3>2. thr' = [thr EXCEPT ![t] = [Idle EXCEPT !.pc = "accept_next", !.l = g, !.ls = x,
                                        !.s = y, !.b = q, !.ok = ok]]
      BY <1>2, <1>4, <2>1, <3>1 DEF OnTcpAccept, Take
    <3> QED
      BY <1>1, <3>2, AcceptMoves DEF IInv
  <2>4. /\ thr'[t].pc = "accept_next" /\ thr'[t].h = None /\ thr'[t].s = y /\ thr'[t].l = g
        /\ thr'[t].ls = x /\ thr'[t].b = q
    BY <2>3 DEF Moved
  <2>5. LocalsOK(t)'
    BY <1>0, <1>1, <1>2, <2>4
    DEF LocalsOK, WorkerOK, WorkerPCs, PCs, Holds, NoHandlePCs, ServePCs, Maybe, tableVars
  <2>6. \A h \in Handles, z \in Sockets : Mine(t, h, z)' => Mine(q, h, z)
    BY <1>1, <1>2, <2>4, ConstantsOK DEF Mine
  <2>7. \A z \in Sockets : Refers(t, z)' => Refers(q, z)
    BY <1>1, <1>2, <2>4 DEF Refers
  <2>8. SoleOK(t)'
    <3>1. Sole(t)' = y
      BY <1>1, <2>4 DEF Sole, PrivatePCs, ServePCs
    <3>2. Sole(q) = y
      BY <1>1, <1>2 DEF Sole
    <3>3. /\ \A h \in Handles : table[h] # y
          /\ \A p \in Parties \ {q} : ~Refers(p, y)
          /\ x # y
      BY <1>1, <1>2, <3>2 DEF IInv, SoleInv, SoleOK
    <3>4. \A p \in Parties \ {q, t} : ~Refers(p, y)'
      BY <2>2, <2>3, <3>3 DEF Refers, Parties, Moved, Frame
    <3>5. ~Refers(q, y)'
      BY <1>1, <1>2, <2>2, <3>3 DEF Refers, Becomes
    <3>6. \A h \in Handles : table'[h] # y
      BY <1>0, <3>3 DEF tableVars
    <3> QED
      BY <1>1, <2>4, <3>1, <3>3, <3>4, <3>5, <3>6 DEF SoleOK
  <2>9. /\ Typed' /\ IndexOwnership' /\ Owned(t, q) /\ TableKept(t) /\ StateKept
        /\ Reads(q)' = None
    BY <1>0, <2>2, <2>3, <2>5, <2>6, <2>7, <2>8, TakeTyped
  <2>10. Reads(t)' = None /\ Calling(t)' = None /\ WaitKept(t) /\ KnowsOK(t)'
    BY <1>1, <2>4, ServesByPCNext DEF WaitKept, KnowsOK, GoneOK, GonePCs, ServePCs
  <2>11. Reading' /\ Promised
    BY <1>1, <2>9, <2>10, HandKeeps DEF IInv, Owned
  <2> QED
    BY <2>9, <2>11 DEF Kept, IInv, Owned
<1> QED
  BY <1>3, <1>4

-----------------------------------------------------------------------------
(* The kernel, the initial states, and every step.                         *)

\* An operation ends, or an attempt to connect does; all the rest is left alone.
LEMMA KernelStep ==
  ASSUME IInv, UNCHANGED <<tableVars, heap, buf, thr>>,
         io' \in [Buffers -> {"none", "pending", "ok", "zero"}],
         \A b \in Buffers : io'[b] = "none" <=> io[b] = "none",
         StateTypes', StateKept
  PROVE  Kept
<1>0. UNCHANGED <<table, indexes, issued, told, heap, buf, thr>>
  BY DEF tableVars
<1>1. Typed'
  <2>1. ThreadTypes'
    BY <1>0, SameThreads DEF IInv
  <2>2. TableTypes'
    BY <1>0 DEF IInv, Typed, TableTypes
  <2>3. BufferTypes'
    BY <1>0 DEF IInv, Typed, BufferTypes, BufferOK
  <2> QED
    BY <2>1, <2>2, <2>3 DEF Typed
<1>2. IndexOwnership'
  BY <1>0 DEF IInv, IndexOwnership, Owns, At
<1>3. BufferOwnership'
  <2>1. \A b \in heap : b \in Buffers
    BY DEF IInv, Typed, BufferTypes
  <2> QED
    BY <1>0, <2>1 DEF IInv, BufferOwnership
<1>4. OneToOne'
  BY <1>0 DEF IInv, OneToOne, Claimed, Mine
<1>5. SoleInv'
  <2>1. \A r \in Parties : Sole(r)' = Sole(r) /\ \A s : Refers(r, s)' <=> Refers(r, s)
    BY <1>0 DEF Sole, Refers
  <2> QED
    BY <1>0, <2>1 DEF IInv, SoleInv, SoleOK
<1>6. Reading' /\ Promised
  BY <1>0, <1>1, StillKeeps DEF IInv
<1> QED
  BY <1>1, <1>2, <1>3, <1>4, <1>5, <1>6 DEF Kept, IInv

LEMMA KernelKeeps == ASSUME IInv, Kernel PROVE Kept
<1>1. ASSUME NEW q \in Buffers, Complete(q) \/ Abort(q) PROVE Kept
  <2>1. /\ UNCHANGED <<tableVars, heap, buf, thr>> /\ UNCHANGED state
        /\ io[q] = "pending" /\ \E r \in {"ok", "zero"} : io' = [io EXCEPT ![q] = r]
    BY <1>1 DEF Complete, Abort
  <2>2. /\ io' \in [Buffers -> {"none", "pending", "ok", "zero"}]
        /\ \A b \in Buffers : io'[b] = "none" <=> io[b] = "none"
    BY <2>1 DEF IInv, Typed, BufferTypes
  <2> QED
    BY <2>1, <2>2, SameState, KernelStep DEF IInv
<1>2. ASSUME NEW s \in Sockets, Attempt(s) PROVE Kept
  <2>1. /\ UNCHANGED <<tableVars, heap, buf, thr>> /\ UNCHANGED io
        /\ state[s] = "connecting" /\ \E r \in {"connected", "new"} : state' = [state EXCEPT ![s] = r]
    BY <1>2 DEF Attempt, bufVars
  <2>2. StateTypes' /\ StateKept
    BY <2>1 DEF IInv, Typed, StateTypes, States, StateKept, Connected
  <2>3. io' \in [Buffers -> {"none", "pending", "ok", "zero"}]
    BY <2>1 DEF IInv, Typed, BufferTypes
  <2> QED
    BY <2>1, <2>2, <2>3, KernelStep
<1> QED
  BY <1>1, <1>2 DEF Kernel

LEMMA InitIInv == Init => IInv /\ C!Init
<1> SUFFICES ASSUME Init PROVE IInv /\ C!Init
  OBVIOUS
<1> USE DEF At
<1>1. /\ \A t \in Threads : thr[t] = Idle /\ thr[t].pc = "idle" /\ thr[t].h = None /\ thr[t].s = None
                            /\ thr[t].b = None /\ thr[t].then = "idle" /\ thr[t].k = 0
                            /\ thr[t].l = None /\ thr[t].ls = None
      /\ heap = {} /\ \A b \in Buffers : io[b] = "none"
      /\ \A h \in Handles : table[h] = None
      /\ indexes = {} /\ None \notin Sockets /\ None \notin Handles /\ None \notin Buffers
  BY IdleFields, ConstantsOK DEF Init
<1>2. ThreadTypes
  <2>1. thr \in [Threads -> Locals]
    BY ConstantTypes DEF Init
  <2>2. \A t \in Threads : LocalsOK(t)
    BY <1>1, ConstantsOK
    DEF LocalsOK, UserOK, WorkerOK, Holds, UserPCs, WorkerPCs, PCs, NoHandlePCs, ServePCs, Maybe
  <2> QED
    BY <1>1, <2>1, <2>2 DEF ThreadTypes
<1>3. Typed
  BY <1>1, <1>2, ConstantTypes
  DEF Init, Typed, TableTypes, BufferTypes, StateTypes, States, Maybe
<1>4. IndexOwnership
  BY <1>1 DEF IndexOwnership, Owns
<1>5. BufferOwnership
  BY <1>1 DEF BufferOwnership, Threads
<1>6. \A r \in Parties : /\ Sole(r) = None /\ Reads(r) = None
                         /\ \A h \in Handles, s \in Sockets : ~Mine(r, h, s)
  <2>1. \A t \in Threads : Serves(t) = None
    BY <1>1 DEF Serves
  <2> QED
    BY <1>1, <2>1 DEF Sole, Reads, RecvOf, Mine, PrivatePCs, ServePCs
<1>7. OneToOne
  BY <1>1, <1>6 DEF OneToOne, Claimed
<1>8. SoleInv
  BY <1>6 DEF SoleInv, SoleOK
<1>9. ReadInv /\ StateInv /\ GoneInv /\ AcceptedNeverDeaf
  BY <1>1, <1>6
  DEF ReadInv, OneReader, StateInv, UserStateOK, GoneInv, GoneOK, GonePCs, AcceptedNeverDeaf,
      Threads
<1>10. C!Init
  <2>1. ViewsOK
    BY <1>3, ViewsAlways
  <2>2. Open = {}
    BY <1>1, <1>6, <2>1 DEF Open, ViewsOK
  <2>3. \A t \in Threads : Calling(t) = None
    BY <1>1 DEF Calling
  <2> QED
    BY <2>2, <2>3 DEF C!Init, CallingAccepted
<1> QED
  BY <1>3, <1>4, <1>5, <1>7, <1>8, <1>9, <1>10 DEF IInv, Reading

LEMMA CallKeeps == ASSUME IInv, NEW t \in Users, Call(t) PROVE Kept
<1>1. ASSUME NEW h \in told, TcpListen(t, h) \/ TcpConnect(t, h) \/ TcpSend(t, h) PROVE Kept
  <2>1. PICK call \in {"listen", "send", "connect"} : GetTcpSocket(t, call, h)
    BY <1>1 DEF TcpListen, TcpConnect, TcpSend
  <2> QED
    BY <2>1, FindKeeps
<1> QED
  BY <1>1, TcpCreateKeeps, TcpDestroyKeeps DEF Call

LEMMA HandleKeeps == ASSUME IInv, NEW t \in Workers, Handle(t) PROVE Kept
BY OnTcpAcceptKeeps, OnTcpSendKeeps, OnTcpRecvKeeps DEF Handle

LEMMA StepKeeps == ASSUME IInv, NEW t \in Threads, Step(t) PROVE Kept
BY AddIndexKeeps, AddInsertKeeps, RemoveEraseKeeps, RemoveIndexKeeps, ListenKeeps, ArmAcceptKeeps,
   ConnectKeeps, SelectKeeps, SendKeeps, RecvNewKeeps, AcceptNextKeeps, OnListenErrorKeeps,
   SetAcceptedKeeps, OnTcpAcceptedKeeps, OnTcpReceivedKeeps, RearmKeeps, OnTcpDisconnectedKeeps,
   OnTcpErrorKeeps
DEF Step

LEMMA NextKeeps == IInv /\ [Next]_vars => Kept
<1> SUFFICES ASSUME IInv, [Next]_vars PROVE Kept
  OBVIOUS
<1>1. CASE UNCHANGED vars
  <2>1. /\ UNCHANGED <<tableVars, heap, buf, thr>> /\ UNCHANGED <<state, io>>
    BY <1>1 DEF vars, tableVars
  <2>2. io' \in [Buffers -> {"none", "pending", "ok", "zero"}]
    BY <2>1 DEF IInv, Typed, BufferTypes
  <2> QED
    BY <2>1, <2>2, SameState, KernelStep DEF IInv
<1>2. CASE Next
  BY <1>2, CallKeeps, HandleKeeps, StepKeeps, KernelKeeps DEF Next
<1> QED
  BY <1>1, <1>2

LEMMA InvariantIInv == Spec => []IInv
<1>1. Init => IInv
  BY InitIInv
<1>2. IInv /\ [Next]_vars => IInv'
  BY NextKeeps DEF Kept
<1> QED
  BY <1>1, <1>2, PTL DEF Spec

-----------------------------------------------------------------------------
(* The accepts of a listener.                                              *)

\* There are finitely many processors, and memory for finitely many buffers.
Finite == IsFiniteSet(Buffers) /\ IsFiniteSet(Workers)

\* The listener whose accept party r is, or has.
AcceptOf(r) ==
  IF r \in Threads THEN IF At(r, "accept_next") THEN thr[r].ls ELSE None
                   ELSE IF r \in heap /\ io[r] # "none" /\ buf[r].type = "accept" THEN buf[r].sock
                                                                                 ELSE None

LEMMA SlotsAlways == Typed => \A s \in Sockets : AcceptSlots(s) = {r \in Parties : AcceptOf(r) = s}
<1> SUFFICES ASSUME Typed, NEW s \in Sockets
             PROVE  AcceptSlots(s) = {r \in Parties : AcceptOf(r) = s}
  OBVIOUS
<1>1. /\ s # None /\ \A b \in heap : b \in Buffers /\ b \notin Threads
      /\ \A t \in Threads : t \notin Buffers /\ t \notin heap
  BY ConstantsOK DEF Typed, BufferTypes
<1>2. \A t \in Users : thr[t].pc # "accept_next"
  BY DEF Typed, ThreadTypes, LocalsOK, UserOK, UserPCs, Threads
<1>3. \A r : r \in AcceptSlots(s) <=> r \in Parties /\ AcceptOf(r) = s
  BY <1>1, <1>2 DEF AcceptSlots, AcceptOf, Parties, At, Threads
<1> QED
  BY <1>3

LEMMA SlotsNext ==
  Typed' => (\A s \in Sockets : AcceptSlots(s) = {r \in Parties : AcceptOf(r) = s})'
BY SlotsAlways, PTL

LEMMA SlotsFinite ==
  ASSUME Finite, Typed, Typed', NEW s \in Sockets
  PROVE  /\ IsFiniteSet(AcceptSlots(s)) /\ IsFiniteSet(AcceptSlots(s)')
         /\ Cardinality(AcceptSlots(s)) \in Nat /\ Cardinality(AcceptSlots(s)') \in Nat
<1>1. IsFiniteSet(Buffers \cup Workers)
  BY FS_Union DEF Finite
<1>2. AcceptSlots(s) \subseteq Buffers \cup Workers
  BY DEF AcceptSlots, Typed, BufferTypes
<1>3. AcceptSlots(s)' \subseteq Buffers \cup Workers
  BY DEF AcceptSlots, Typed, BufferTypes
<1>4. IsFiniteSet(AcceptSlots(s)) /\ IsFiniteSet(AcceptSlots(s)')
  BY <1>1, <1>2, <1>3, FS_Subset
<1> QED
  BY <1>4, FS_CardinalityType

\* Every accept of s stays where it is.
LEMMA SlotsGrow ==
  ASSUME Finite, Typed, Typed', NEW s \in Sockets,
         \A r \in Parties : AcceptOf(r) = s => AcceptOf(r)' = s
  PROVE  Cardinality(AcceptSlots(s)') >= Cardinality(AcceptSlots(s))
<1>1. AcceptSlots(s) \subseteq AcceptSlots(s)'
  BY SlotsAlways, SlotsNext
<1>2. Cardinality(AcceptSlots(s)) <= Cardinality(AcceptSlots(s)')
  BY <1>1, SlotsFinite, FS_Subset
<1> QED
  BY <1>2, SlotsFinite

\* Party p hands an accept of s to party o.
LEMMA SlotsPass ==
  ASSUME Finite, Typed, Typed', NEW s \in Sockets, NEW p \in Parties, NEW o \in Parties,
         AcceptOf(p) = s, AcceptOf(o) # s, AcceptOf(o)' = s,
         \A r \in Parties : r # p /\ AcceptOf(r) = s => AcceptOf(r)' = s
  PROVE  Cardinality(AcceptSlots(s)') >= Cardinality(AcceptSlots(s))
<1>1. PICK S, T : S = AcceptSlots(s) /\ T = AcceptSlots(s)'
  OBVIOUS
<1>2. p \in S /\ o \notin S /\ o \in T /\ S \ {p} \subseteq T
  BY <1>1, SlotsAlways, SlotsNext
<1>3. IsFiniteSet(S) /\ IsFiniteSet(T) /\ Cardinality(S) \in Nat /\ Cardinality(T) \in Nat
  BY <1>1, SlotsFinite
<1>4. IsFiniteSet(S \ {p}) /\ Cardinality(S \ {p}) = Cardinality(S) - 1
  BY <1>2, <1>3, FS_RemoveElement
<1>5. Cardinality((S \ {p}) \cup {o}) = Cardinality(S \ {p}) + 1
  BY <1>2, <1>4, FS_AddElement
<1>6. Cardinality((S \ {p}) \cup {o}) <= Cardinality(T)
  BY <1>2, <1>3, FS_Subset
<1> QED
  BY <1>1, <1>3, <1>4, <1>5, <1>6

\* No accept is lost of the listener with handle h, or its loss is reported.
Told(h) ==
  \/ Cardinality(AcceptSlots(table[h])') >= Cardinality(AcceptSlots(table[h]))
  \/ \E w \in Workers : At(w, "accept_next") /\ At(w, "listen_error")' /\ thr[w].l = h
AllTold == \A h \in Handles : table[h] # None /\ table'[h] = table[h] => Told(h)

LEMMA NoneLost ==
  ASSUME NEW h \in Handles, NEW s \in Sockets, s = table[h], table'[h] = table[h],
         Cardinality(AcceptSlots(s)') >= Cardinality(AcceptSlots(s))
  PROVE  Told(h)
<1>1. AcceptSlots(table[h])' = AcceptSlots(s)'
  BY DEF AcceptSlots
<1> QED
  BY <1>1 DEF Told

\* The accepts of others than thread t and buffer q stay.
LEMMA OthersStay ==
  ASSUME IInv, NEW t \in Threads, NEW q \in Buffers, \A u \in Threads : u # t => thr'[u] = thr[u],
         Frame(q)
  PROVE  \A r \in Parties : r \notin {t, q} => AcceptOf(r)' = AcceptOf(r)
BY DEF AcceptOf, Frame, Parties, At

\* Neither thread t nor buffer q is an accept.
LEMMA NoneTouched ==
  ASSUME IInv, IInv', Finite, NEW t \in Threads, AcceptOf(t) = None,
         \A u \in Threads : u # t => thr'[u] = thr[u],
         \/ UNCHANGED bufVars
         \/ \E q \in Buffers : AcceptOf(q) = None /\ Frame(q)
  PROVE  AllTold
<1>1. \A r \in Parties : AcceptOf(r) # None => AcceptOf(r)' = AcceptOf(r)
  <2>1. CASE UNCHANGED bufVars
    BY <2>1 DEF AcceptOf, bufVars, Parties, At
  <2>2. CASE \E q \in Buffers : AcceptOf(q) = None /\ Frame(q)
    BY <2>2, OthersStay
  <2> QED
    BY <2>1, <2>2
<1> SUFFICES ASSUME NEW h \in Handles, table[h] # None, table'[h] = table[h] PROVE Told(h)
  BY DEF AllTold
<1>2. PICK s \in Sockets : s = table[h] /\ s # None
  BY DEF IInv, Typed, TableTypes, Maybe
<1>3. Cardinality(AcceptSlots(s)') >= Cardinality(AcceptSlots(s))
  BY <1>1, <1>2, SlotsGrow DEF IInv
<1> QED
  BY <1>2, <1>3, NoneLost

\* A step moves its thread alone, and changes a new buffer or its own.
LEMMA StepFrame ==
  ASSUME IInv, NEW t \in Threads, Step(t)
  PROVE  /\ \A u \in Threads : u # t => thr'[u] = thr[u]
         /\ \/ UNCHANGED bufVars
            \/ \E q \in Buffers : Frame(q) /\ (q \notin heap \/ thr[t].b = q)
<1> USE DEF Typed, ThreadTypes, IInv
<1>1. CASE AddIndex(t) \/ AddInsert(t) \/ RemoveErase(t) \/ RemoveIndex(t)
  BY <1>1 DEF AddIndex, AddInsert, RemoveErase, RemoveIndex, AfterRemove, Return, Goto
<1>2. CASE Listen(t) \/ Connect(t) \/ Select(t)
  BY <1>2 DEF Listen, Connect, Select, Return, Goto
<1>3. CASE OnListenError(t) \/ SetAccepted(t) \/ OnTcpAccepted(t) \/ OnTcpReceived(t) \/ OnTcpError(t)
  BY <1>3 DEF OnListenError, SetAccepted, OnTcpAccepted, OnTcpReceived, OnTcpError, Return, Goto, bufVars
<1>4. ASSUME NEW q \in Buffers, NEW h, NEW s,
             \/ AsyncTcpAccept(q, h, s) \/ AsyncTcpRecv(q, h, s) \/ Delete(q)
             \/ Release(q, "send", h, s, None)
      PROVE  Frame(q)
  BY <1>4 DEF AsyncTcpAccept, AsyncTcpRecv, Delete, Release, Frame, BufferTypes
<1>5. CASE ArmAccept(t) \/ Send(t) \/ RecvNew(t)
  <2>1. \A u \in Threads : u # t => thr'[u] = thr[u]
    BY <1>5 DEF ArmAccept, Send, RecvNew, Return, Remove
  <2>2. UNCHANGED bufVars \/ \E q \in Buffers \ heap : Frame(q)
    BY <1>4, <1>5 DEF ArmAccept, Send, RecvNew
  <2> QED
    BY <2>1, <2>2
<1>6. CASE AcceptNext(t) \/ Rearm(t) \/ OnTcpDisconnected(t)
  <2>1. thr[t].b \in Buffers
    BY <1>6, Handler DEF AcceptNext, Rearm, OnTcpDisconnected, At, WorkerOK, Holds, ServePCs
  <2>2. \A u \in Threads : u # t => thr'[u] = thr[u]
    BY <1>6 DEF AcceptNext, Rearm, OnTcpDisconnected, Return
  <2>3. Frame(thr[t].b)
    BY <1>4, <1>6, <2>1 DEF AcceptNext, Rearm, OnTcpDisconnected
  <2> QED
    BY <2>1, <2>2, <2>3
<1> QED
  BY <1>1, <1>2, <1>3, <1>5, <1>6 DEF Step

LEMMA NotAccepting ==
  ASSUME IInv, NEW q \in Buffers, q \notin heap \/ (\E t \in Threads : thr[t].b = q)
  PROVE  AcceptOf(q) = None
BY Held, ConstantsOK DEF AcceptOf, IInv

\* Thread t and buffer q change, and only thread t may be an accept before.
LEMMA AcceptNextTells ==
  ASSUME IInv, IInv', Finite, NEW t \in Threads, AcceptNext(t) PROVE AllTold
<1> USE DEF At
<1>0. /\ thr[t].pc = "accept_next" /\ t \in Workers /\ WorkerOK(t) /\ UNCHANGED table
      /\ \A u \in Threads : u # t => thr'[u] = thr[u]
  BY Handler, StepFrame DEF AcceptNext, ServePCs, tableVars, Step
<1>1. PICK q \in Buffers, g \in Handles, x \in Sockets :
        q = thr[t].b /\ g = thr[t].l /\ x = thr[t].ls /\ x # None
  BY <1>0, ConstantsOK DEF WorkerOK, Holds
<1>2. /\ AcceptOf(t) = x /\ AcceptOf(q) = None /\ q \notin Threads
      /\ t \in Parties /\ q \in Parties /\ q # t
  BY <1>0, <1>1, NotAccepting, ConstantsOK DEF AcceptOf, Parties
<1>3. Frame(q)
  BY <1>1 DEF AcceptNext, AsyncTcpAccept, Delete, Release, Frame, IInv, Typed, BufferTypes
<1>4. \A r \in Parties : r \notin {t, q} => AcceptOf(r)' = AcceptOf(r)
  BY <1>0, <1>3, OthersStay
<1> SUFFICES ASSUME NEW h \in Handles, table[h] # None, table'[h] = table[h] PROVE Told(h)
  BY DEF AllTold
<1>5. PICK s \in Sockets : s = table[h] /\ s # None
  BY DEF IInv, Typed, TableTypes, Maybe
<1>6. CASE x # s
  <2>1. Cardinality(AcceptSlots(s)') >= Cardinality(AcceptSlots(s))
    BY <1>2, <1>4, <1>5, <1>6, SlotsGrow DEF IInv
  <2> QED
    BY <1>5, <2>1, NoneLost
<1>7. CASE x = s /\ AsyncTcpAccept(q, g, x)
  <2>1. AcceptOf(q)' = x
    <3>1. PICK a \in FreeSockets : Release(q, "accept", g, x, a)
      BY <1>7 DEF AsyncTcpAccept
    <3> QED
      BY <1>2, <3>1 DEF Release, AcceptOf, IInv, Typed, BufferTypes
  <2>2. Cardinality(AcceptSlots(s)') >= Cardinality(AcceptSlots(s))
    BY <1>2, <1>4, <1>5, <1>7, <2>1, SlotsPass DEF IInv
  <2> QED
    BY <1>5, <2>2, NoneLost
<1>8. CASE x = s /\ thr' = [thr EXCEPT ![t].pc = "listen_error", ![t].b = None]
  <2>1. thr'[t].pc = "listen_error"
    <3>1. Moved(t, "listen_error", thr[t].h, thr[t].s, None, thr[t].then, thr[t].k, thr[t].l, thr[t].ls)
      BY <1>8, DropMoves DEF IInv, PCs
    <3> QED
      BY <3>1 DEF Moved
  <2>2. g = h
    <3>1. Claimed(g, s) /\ Claimed(h, s)
      BY <1>1, <1>2, <1>5, <1>8 DEF Claimed, Mine
    <3> QED
      BY <3>1 DEF IInv, OneToOne
  <2> QED
    BY <1>0, <1>1, <2>1, <2>2 DEF Told
<1> QED
  BY <1>1, <1>6, <1>7, <1>8 DEF AcceptNext

\* OnTcpAccept takes an accept from the port, or drops one whose listener is gone; the other
\* handlers take no accepts.
LEMMA HandleTells ==
  ASSUME IInv, IInv', Finite, NEW t \in Workers, Handle(t) PROVE AllTold
<1> USE DEF At
<1>0. PICK q \in Buffers : OnTcpAccept(t, q) \/ OnTcpSend(t, q) \/ OnTcpRecv(t, q)
  BY DEF Handle
<1>1. PICK type \in Types : Completed(t, q, type) /\ buf[q].type = type
  BY <1>0 DEF OnTcpAccept, OnTcpSend, OnTcpRecv, Types, Completed
<1>2. /\ t \in Threads /\ thr[t].pc = "idle" /\ q \in heap /\ q \notin Threads /\ io[q] # "none"
      /\ t \in Parties /\ q \in Parties /\ q # t
  BY <1>1, Taker DEF Parties
<1>3. \A u \in Threads : u # t => thr'[u] = thr[u]
  BY <1>0 DEF OnTcpAccept, OnTcpSend, OnTcpRecv, Take, IInv, Typed, ThreadTypes
<1>4. Frame(q) /\ UNCHANGED table
  BY <1>0
  DEF OnTcpAccept, OnTcpSend, OnTcpRecv, Take, Delete, Frame, IInv, Typed, BufferTypes, tableVars
<1>5. AcceptOf(t) = None
  BY <1>2 DEF AcceptOf
<1>6. CASE type # "accept"
  <2>1. AcceptOf(q) = None
    BY <1>1, <1>2, <1>6 DEF AcceptOf
  <2> QED
    BY <1>2, <1>3, <1>4, <1>5, <2>1, NoneTouched
<1>7. CASE type = "accept"
  <2>1. OnTcpAccept(t, q)
    BY <1>0, <1>1, <1>7 DEF OnTcpSend, OnTcpRecv, Completed
  <2>2. PICK g \in Handles, x \in Sockets, y \in Sockets :
          /\ g = buf[q].handle /\ x = buf[q].sock /\ y = buf[q].accept /\ Mine(q, g, x) /\ x # None
          /\ table[g] # None => table[g] = x
    BY <1>1, <1>7, Taker, ConstantsOK
  <2>3. AcceptOf(q) = x
    BY <1>1, <1>2, <1>7, <2>2 DEF AcceptOf
  <2>4. \A r \in Parties : r \notin {t, q} => AcceptOf(r)' = AcceptOf(r)
    BY <1>2, <1>3, <1>4, OthersStay
  <2> SUFFICES ASSUME NEW h \in Handles, table[h] # None, table'[h] = table[h] PROVE Told(h)
    BY DEF AllTold
  <2>5. PICK s \in Sockets : s = table[h] /\ s # None
    BY DEF IInv, Typed, TableTypes, Maybe
  <2>6. CASE x # s
    <3>1. Cardinality(AcceptSlots(s)') >= Cardinality(AcceptSlots(s))
      BY <1>2, <1>5, <2>3, <2>4, <2>5, <2>6, SlotsGrow DEF IInv
    <3> QED
      BY <2>5, <3>1, NoneLost
  <2>7. CASE x = s
    <3>1. g = h
      <4>1. Claimed(g, s) /\ Claimed(h, s)
        BY <1>2, <2>2, <2>5, <2>7 DEF Claimed
      <4> QED
        BY <4>1 DEF IInv, OneToOne
    <3>2. table[g] = x
      BY <2>2, <2>5, <3>1
    <3>3. Moved(t, "accept_next", None, y, q, "idle", 0, g, x)
      <4>1. PICK ok \in BOOLEAN : ok = (io[q] = "ok")
        OBVIOUS
      <4>2. thr' = [thr EXCEPT ![t] = [Idle EXCEPT !.pc = "accept_next", !.l = g, !.ls = x,
                                          !.s = y, !.b = q, !.ok = ok]]
        BY <2>1, <2>2, <3>2, <4>1, ConstantsOK DEF OnTcpAccept, Take
      <4> QED
        BY <1>2, <4>2, AcceptMoves DEF IInv
    <3>4. AcceptOf(t)' = s
      BY <1>2, <2>7, <3>3 DEF AcceptOf, Moved
    <3>5. Cardinality(AcceptSlots(s)') >= Cardinality(AcceptSlots(s))
      BY <1>2, <1>5, <2>3, <2>4, <2>5, <2>7, <3>4, SlotsPass DEF IInv
    <3> QED
      BY <2>5, <3>5, NoneLost
  <2> QED
    BY <2>6, <2>7
<1> QED
  BY <1>6, <1>7

LEMMA CallTells == ASSUME IInv, IInv', Finite, NEW t \in Users, Call(t) PROVE AllTold
<1>1. t \in Threads /\ thr[t].pc = "idle" /\ UNCHANGED bufVars
  BY DEF Call, TcpCreate, TcpDestroy, TcpListen, TcpConnect, TcpSend, GetTcpSocket, At, Threads
<1>2. \A u \in Threads : u # t => thr'[u] = thr[u]
  BY DEF Call, TcpCreate, TcpDestroy, TcpListen, TcpConnect, TcpSend, GetTcpSocket, IInv, Typed,
         ThreadTypes
<1>3. AcceptOf(t) = None
  BY <1>1 DEF AcceptOf, At
<1> QED
  BY <1>1, <1>2, <1>3, NoneTouched

LEMMA StepTells == ASSUME IInv, IInv', Finite, NEW t \in Threads, Step(t) PROVE AllTold
<1>1. CASE thr[t].pc = "accept_next"
  <2>1. AcceptNext(t)
    BY <1>1
    DEF Step, AddIndex, AddInsert, RemoveErase, RemoveIndex, Listen, ArmAccept, Connect, Select, Send,
        RecvNew, OnListenError, SetAccepted, OnTcpAccepted, OnTcpReceived, Rearm, OnTcpDisconnected,
        OnTcpError, At
  <2> QED
    BY <2>1, AcceptNextTells
<1>2. CASE thr[t].pc # "accept_next"
  <2>1. AcceptOf(t) = None
    BY <1>2 DEF AcceptOf, At
  <2>2. \/ UNCHANGED bufVars
        \/ \E q \in Buffers : AcceptOf(q) = None /\ Frame(q)
    BY StepFrame, NotAccepting
  <2> QED
    BY <2>1, <2>2, StepFrame, NoneTouched
<1> QED
  BY <1>1, <1>2

LEMMA StillTells ==
  ASSUME IInv, IInv', Finite, Kernel \/ UNCHANGED vars PROVE AllTold
<1>1. UNCHANGED <<heap, buf, thr>> /\ \A b \in Buffers : io'[b] = "none" <=> io[b] = "none"
  BY DEF Kernel, Complete, Abort, Attempt, vars, bufVars, IInv, Typed, BufferTypes
<1>2. \A r \in Parties : AcceptOf(r)' = AcceptOf(r)
  BY <1>1 DEF AcceptOf, Parties, At
<1> SUFFICES ASSUME NEW h \in Handles, table[h] # None, table'[h] = table[h] PROVE Told(h)
  BY DEF AllTold
<1>3. PICK s \in Sockets : s = table[h]
  BY DEF IInv, Typed, TableTypes, Maybe
<1>4. Cardinality(AcceptSlots(s)') >= Cardinality(AcceptSlots(s))
  BY <1>2, SlotsGrow DEF IInv
<1> QED
  BY <1>3, <1>4, NoneLost

-----------------------------------------------------------------------------
(* The theorems.                                                           *)

\* The interface, the handlers and the kernel keep every variable in its type, and a thread
\* between two calls or handlers holds no shared pointer (NetResMgr of the older library).
THEOREM TypesCorrect == Spec => []TypeOK
<1>1. IInv => TypeOK
  BY DEF IInv, Typed, ThreadTypes, TableTypes, BufferTypes, StateTypes, TypeOK
<1> QED
  BY <1>1, InvariantIInv, PTL

\* However many threads remove one handle at once (TcpDestroy, a disconnection, an error
\* while a receive is armed), RemoveTcpSocket destroys its index once.
THEOREM IndexesOwned == Spec => []IndexOwnership
<1>1. IInv => IndexOwnership
  BY DEF IInv
<1> QED
  BY <1>1, InvariantIInv, PTL

\* A buffer is with the kernel and its port, or one worker's unique pointer has it: on no
\* path is it released without an operation, or deleted under one.
THEOREM BuffersOwned == Spec => []BufferOwnership
<1>1. IInv => BufferOwnership
  BY DEF IInv
<1> QED
  BY <1>1, InvariantIInv, PTL

\* A connection that OnTcpAccept put into the table has a receive on its way, or a thread
\* starts one or takes it out; no failed AsyncTcpRecv leaves it there unread.
THEOREM AcceptedAreRead == Spec => []AcceptedNeverDeaf
<1>1. IInv => AcceptedNeverDeaf
  BY DEF IInv, Reading
<1> QED
  BY <1>1, InvariantIInv, PTL

\* About the connections it accepts, every step of the older library is a step of module
\* Connections, or none of its business: callbacks do not overlap, and OnTcpDisconnected or
\* OnTcpError is the last, although the connection left the table before it. Any number of
\* threads may connect at once, and the sockets they connect are not accepted ones.
THEOREM ConnectionsImplemented == Spec => ImplementsConnections
<1>1. Init => C!Init
  BY InitIInv
<1>2. IInv /\ [Next]_vars => [C!Next]_(C!vars)
  BY NextKeeps DEF Kept, Promised, CStep
<1> QED
  BY <1>1, <1>2, InvariantIInv, PTL DEF Spec, ImplementsConnections, C!Spec

\* A socket that is read gets a further reader only from a TcpConnect that leaves select;
\* otherwise a receive passes from the kernel to one handler, and from that to the kernel.
THEOREM ReadersHandOver == Spec => ReadersTakeOver
<1>1. IInv /\ [Next]_vars =>
        \A s \in Sockets :
          Readers(s) # {} /\ ~(Readers(s)' \subseteq Readers(s)) =>
            \/ ~(Readers(s) \subseteq Readers(s)')
            \/ \E u \in Users : At(u, "select") /\ At(u, "recv_new")' /\ thr[u].s = s
  BY NextKeeps DEF Kept, Promised, TakesOver, Joins
<1> QED
  BY <1>1, InvariantIInv, PTL DEF Spec, ReadersTakeOver

\* The last who would notice what becomes of a socket in the table goes away only when a
\* TcpConnect returns false: it timed out, or its first AsyncTcpRecv failed.
THEOREM ConnectLossesReported == Spec => ConnectLossReported
<1>1. IInv /\ [Next]_vars =>
        \A h \in Handles :
          LET s == table[h] IN
          s # None /\ table'[h] = s /\ Watchers(s) # {} /\ Watchers(s)' = {} =>
            \E u \in Users : /\ At(u, "select") \/ At(u, "recv_new")
                             /\ thr[u].s = s /\ At(u, "idle")'
  <2> SUFFICES ASSUME IInv, [Next]_vars, NEW h \in Handles, NEW s \in Sockets, s = table[h],
                      table'[h] = s, Watchers(s) # {}, Watchers(s)' = {}
               PROVE  \E u \in Users : Fails(u, s)
    BY DEF Fails, Watchers, Readers, IInv, Typed, TableTypes, Maybe
  <2>1. LossTold
    BY NextKeeps DEF Kept, Promised
  <2> QED
    BY <2>1 DEF LossTold
<1> QED
  BY <1>1, InvariantIInv, PTL DEF Spec, ConnectLossReported

\* A listener that stays in the table loses an accept only in a step that goes on to call
\* OnTcpError(listen_handle, 1): OnTcpAccept when AsyncTcpAccept cannot arm the next one.
THEOREM AcceptLossesReported ==
  ASSUME Finite
  PROVE  Spec => AcceptLossReported
<1>1. IInv /\ IInv' /\ [Next]_vars => AllTold
  BY CallTells, HandleTells, StepTells, StillTells DEF Next
<1>2. AllTold =>
        \A h \in Handles :
          LET s == table[h] IN
          s # None /\ table'[h] = s =>
            \/ Cardinality(AcceptSlots(s)') >= Cardinality(AcceptSlots(s))
            \/ \E w \in Workers : At(w, "accept_next") /\ At(w, "listen_error")' /\ thr[w].l = h
  BY DEF AllTold, Told
<1> QED
  BY <1>1, <1>2, InvariantIInv, PTL DEF Spec, AcceptLossReported

=============================================================================
