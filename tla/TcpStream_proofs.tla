-------------------------- MODULE TcpStream_proofs --------------------------
(***************************************************************************)
(* Proofs about TcpStream, for every head size, packet limit, receive      *)
(* buffer size and set of body sizes.                                      *)
(***************************************************************************)
EXTENDS TcpStream, TLAPS

\* What memcpy leaves behind the cursor is as long as the two parts together.
LEMMA CopyType ==
  ASSUME NEW d \in Seq(Nat), NEW off \in 0 .. Len(d), NEW p \in Nat, NEW n \in Nat
  PROVE  Copy(d, off, p, n) \in Seq(Nat) /\ Len(Copy(d, off, p, n)) = off + n
<1>1. \A i \in 1 .. off + n : (IF i <= off THEN d[i] ELSE p + (i - off) - 1) \in Nat
  OBVIOUS
<1> QED
  BY <1>1 DEF Copy

\* A run of n stream positions is a sequence of n numbers.
LEMMA RunType ==
  ASSUME NEW p \in Nat, NEW n \in Nat
  PROVE  Run(p, n) \in Seq(Nat) /\ Len(Run(p, n)) = n
BY DEF Run

\* A packet as ResetCurrentPacket makes it, and none, are packets.
LEMMA PacketTypes ==
  /\ NoPacket \in Packets /\ NoPacket.null /\ NoPacket.data = <<>> /\ NoPacket.size = 0
  /\ \A n \in Nat : /\ NewPacket(n) \in Packets /\ ~NewPacket(n).null
                    /\ NewPacket(n).data = <<>> /\ NewPacket(n).size = n
BY DEF NoPacket, NewPacket, Packets

\* Pushing a packet leaves no packet and an empty head, and one packet more to deliver.
LEMMA PushType ==
  ASSUME NEW p \in Packets, all \in Seq(Packets), offset \in Nat, Push(p)
  PROVE  /\ all' \in Seq(Packets) /\ offset' \in Nat
         /\ head' = <<>> /\ packet' = NoPacket
BY DEF Push

-----------------------------------------------------------------------------
(* The inductive invariant: TypeOK and ParserInv together.                 *)

IInv == TypeOK /\ ParserInv

LEMMA InitIInv == Init => IInv
<1> SUFFICES ASSUME Init PROVE IInv
  OBVIOUS
<1>1. NoPacket \in Packets /\ NoPacket.null /\ Len(NoPacket.data) <= NoPacket.size
  BY PacketTypes
<1>2. TypeOK
  BY <1>1, ConstantsOK DEF Init, TypeOK, PCs
<1>3. ParserInv
  BY <1>1, ConstantsOK DEF Init, ParserInv
<1> QED
  BY <1>2, <1>3 DEF IInv

LEMMA PeerIInv == ASSUME IInv, Peer PROVE IInv'
<1> USE DEF IInv
<1>1. PICK n \in Sizes, ok \in BOOLEAN : Write(n, ok)
  BY DEF Peer, TcpSend, ForeignSend
<1>2. TypeOK'
  <2>1. n \in Nat /\ HeadSize \in Nat
    BY ConstantsOK
  <2>2. [start |-> sentEnd, size |-> n, ok |-> ok] \in [start : Nat, size : Sizes, ok : BOOLEAN]
    BY DEF TypeOK
  <2>3. frames' \in Seq([start : Nat, size : Sizes, ok : BOOLEAN]) /\ sentEnd' \in Nat
    BY <1>1, <2>1, <2>2 DEF Write, TypeOK
  <2> QED
    BY <1>1, <2>3 DEF Write, TypeOK, parserVars
<1>3. ParserInv'
  BY <1>1 DEF Write, ParserInv, parserVars
<1> QED
  BY <1>2, <1>3

LEMMA OnTcpRecvIInv == ASSUME IInv, OnTcpRecv PROVE IInv'
<1> USE DEF IInv
<1>1. ASSUME NEW n \in 1 .. BufferSize, Receive(n) PROVE IInv'
  <2>1. TypeOK'
    BY <1>1, ConstantsOK DEF Receive, TypeOK, parserVars, peerVars, PCs
  <2>2. ParserInv'
    BY <1>1 DEF Receive, ParserInv, parserVars
  <2> QED
    BY <2>1, <2>2
<1>2. CASE Disconnected
  <2>1. TypeOK'
    BY <1>2 DEF Disconnected, TypeOK, parserVars, peerVars, PCs
  <2>2. ParserInv'
    BY <1>2 DEF Disconnected, ParserInv, parserVars
  <2> QED
    BY <2>1, <2>2
<1>3. CASE OnTcpReceived
  <2>1. TypeOK'
    <3>1. Head(all) \in Packets /\ Tail(all) \in Seq(Packets)
      BY <1>3 DEF OnTcpReceived, TypeOK
    <3> QED
      BY <1>3, <3>1 DEF OnTcpReceived, TypeOK, peerVars
  <2>2. ParserInv'
    BY <1>3 DEF OnTcpReceived, ParserInv
  <2> QED
    BY <2>1, <2>2
<1>4. CASE Rearm
  <2>1. TypeOK'
    BY <1>4, ConstantsOK DEF Rearm, TypeOK, parserVars, peerVars, PCs
  <2>2. ParserInv'
    BY <1>4 DEF Rearm, ParserInv, parserVars
  <2> QED
    BY <2>1, <2>2
<1> QED
  BY <1>1, <1>2, <1>3, <1>4 DEF OnTcpRecv

LEMMA ParseHeadIInv ==
  ASSUME IInv, ParseHeadPart \/ ParseHeadFull \/ ParseHeadSkip PROVE IInv'
<1> USE DEF IInv
<1>0. HeadSize \in Nat /\ BufferSize \in Nat /\ Sizes \subseteq Nat
  BY ConstantsOK
<1>4. head \in Seq(Nat) /\ Len(head) \in 0 .. Len(head) /\ base + total \in Nat
  BY <1>0 DEF TypeOK
<1>1. CASE ParseHeadPart
  <2> DEFINE avail == size - total
  <2>1. avail \in Nat /\ total + avail = size /\ avail < HeadSize - Len(head)
    BY <1>0, <1>1 DEF ParseHeadPart, Short, LeftHead, TypeOK
  <2>2. head' \in Seq(Nat) /\ Len(head') = Len(head) + avail
    BY <1>1, <1>4, <2>1, CopyType DEF ParseHeadPart
  <2>3. total' = size /\ pc' = "deliver"
    BY <1>1, <2>1 DEF ParseHeadPart, LoopOr, TypeOK
  <2>4. TypeOK'
    BY <1>0, <1>1, <2>1, <2>2, <2>3 DEF ParseHeadPart, TypeOK, PCs, peerVars
  <2>5. ParserInv'
    BY <1>0, <1>1, <2>1, <2>2, <2>3 DEF ParseHeadPart, ParserInv, TypeOK
  <2> QED
    BY <2>4, <2>5
<1>2. CASE ParseHeadFull
  <2>1. LeftHead \in Nat /\ LeftHead <= size - total /\ Len(head) + LeftHead = HeadSize
    BY <1>0, <1>2 DEF ParseHeadFull, Short, LeftHead, TypeOK
  <2>2. head' \in Seq(Nat) /\ Len(head') = HeadSize
    BY <1>2, <1>4, <2>1, CopyType DEF ParseHeadFull
  <2>3. total' \in 0 .. size
    BY <1>2, <2>1 DEF ParseHeadFull, TypeOK
  <2>4. PICK n \in Sizes, flag \in BOOLEAN :
          IF HeadOK(n, flag)
          THEN Prepare(n) /\ pc' = LoopOr("packet")
          ELSE UNCHANGED <<packet, offset>> /\ pc' = "closed"
    BY <1>2 DEF ParseHeadFull
  <2>5. CASE HeadOK(n, flag)
    <3>1. packet' = NewPacket(n) /\ offset' = 0 /\ pc' \in {"packet", "deliver"}
      BY <2>4, <2>5 DEF Prepare, LoopOr
    <3>2. packet' \in Packets /\ ~packet'.null /\ packet'.data = <<>> /\ packet'.size \in Nat
      BY <1>0, <3>1, PacketTypes
    <3>3. TypeOK'
      BY <1>0, <1>2, <2>2, <2>3, <3>1, <3>2 DEF ParseHeadFull, TypeOK, PCs, peerVars
    <3>4. ParserInv'
      BY <2>2, <3>1, <3>2 DEF ParserInv
    <3> QED
      BY <3>3, <3>4
  <2>6. CASE ~HeadOK(n, flag)
    <3>1. TypeOK'
      BY <1>0, <1>2, <2>2, <2>3, <2>4, <2>6 DEF ParseHeadFull, TypeOK, PCs, peerVars
    <3>2. ParserInv'
      BY <2>4, <2>6 DEF ParserInv
    <3> QED
      BY <3>1, <3>2
  <2> QED
    BY <2>5, <2>6
<1>3. CASE ParseHeadSkip
  <2>1. TypeOK'
    BY <1>3 DEF ParseHeadSkip, TypeOK, PCs, peerVars, parserVars
  <2>2. ParserInv'
    BY <1>3 DEF ParseHeadSkip, ParserInv, parserVars
  <2> QED
    BY <2>1, <2>2
<1> QED
  BY <1>1, <1>2, <1>3

\* What ParseTcpPacket does when it completes a packet, whatever brought the last byte.
LEMMA CompleteIInv ==
  ASSUME IInv, NEW p \in Packets, NEW n \in Nat, n <= size - total, Push(p),
         total' = total + n, pc' = LoopOr("head"),
         UNCHANGED <<peerVars, base, size, delivered>>
  PROVE  IInv'
<1> USE DEF IInv
<1>0. HeadSize \in Nat \ {0} /\ BufferSize \in Nat
  BY ConstantsOK
<1>1. all' \in Seq(Packets) /\ offset' \in Nat /\ head' = <<>> /\ packet' = NoPacket
  BY PushType DEF TypeOK
<1>2. total' \in 0 .. size /\ pc' \in {"head", "deliver"}
  BY <1>0 DEF LoopOr, TypeOK
<1>3. packet' \in Packets /\ packet'.null /\ Len(packet'.data) <= packet'.size
  BY <1>1, PacketTypes
<1>4. TypeOK'
  BY <1>0, <1>1, <1>2, <1>3 DEF TypeOK, PCs, peerVars
<1>5. ParserInv'
  BY <1>0, <1>1, <1>2, <1>3 DEF ParserInv
<1> QED
  BY <1>4, <1>5

LEMMA ParsePacketIInv ==
  ASSUME IInv, ParsePacketBegin \/ ParsePacketWhole \/ ParsePacketMore PROVE IInv'
<1> USE DEF IInv
<1> DEFINE avail == size - total
<1>0. HeadSize \in Nat \ {0} /\ BufferSize \in Nat
  BY ConstantsOK
<1>1. /\ pc = "packet" /\ Len(head) = HeadSize /\ ~packet.null
      /\ packet \in Packets /\ packet.size \in Nat /\ packet.data \in Seq(Nat)
      /\ avail \in Nat /\ size \in Nat /\ total + avail = size /\ base + total \in Nat
  <2>1. pc = "packet"
    BY DEF ParsePacketBegin, ParsePacketWhole, ParsePacketMore
  <2>2. Len(head) = HeadSize /\ ~packet.null
    BY <2>1 DEF ParserInv
  <2>3. packet \in Packets /\ packet.size \in Nat /\ packet.data \in Seq(Nat)
    BY DEF TypeOK, Packets
  <2>4. avail \in Nat /\ size \in Nat /\ total + avail = size /\ base + total \in Nat
    BY <1>0 DEF TypeOK
  <2> QED
    BY <2>1, <2>2, <2>3, <2>4
\* The body goes on: q is the packet with what was copied, o the new offset.
<1>2. ASSUME NEW q \in Packets, NEW o \in Nat, packet' = q, offset' = o,
             q.size = packet.size, Len(q.data) = o, o < q.size, ~q.null, o # 0 => q.owned,
             total' = total + avail, pc' = LoopOr("head"),
             UNCHANGED <<peerVars, base, size, head, all, delivered>>
      PROVE  IInv'
  <2>1. total' = size /\ pc' = "deliver"
    BY <1>1, <1>2 DEF LoopOr
  <2>2. TypeOK'
    BY <1>0, <1>1, <1>2, <2>1 DEF TypeOK, PCs, peerVars
  <2>3. ParserInv'
    BY <1>1, <1>2, <2>1 DEF ParserInv
  <2> QED
    BY <2>2, <2>3
<1>3. CASE ParsePacketBegin
  <2> DEFINE d == Copy(<<>>, 0, base + total, avail)
             q == Kept(avail)
  <2>1. <<>> \in Seq(Nat) /\ 0 \in 0 .. Len(<<>>)
    OBVIOUS
  <2>2. d \in Seq(Nat) /\ Len(d) = 0 + avail
    BY <1>1, <2>1, CopyType
  <2>3. /\ q \in Packets /\ q.size = packet.size /\ Len(q.data) = avail
        /\ q.owned /\ ~q.null /\ avail < q.size
    <3>1. q = [packet EXCEPT !.owned = TRUE, !.data = d]
      BY DEF Kept
    <3>2. avail < packet.size
      BY <1>3 DEF ParsePacketBegin, Short
    <3> HIDE DEF d, q
    <3>3. q.size = packet.size /\ q.owned = TRUE /\ q.null = packet.null /\ q.data = d
      BY <1>1, <3>1 DEF Packets
    <3>4. q \in Packets
      BY <1>1, <2>2, <3>1 DEF Packets
    <3> QED
      BY <1>1, <2>2, <3>2, <3>3, <3>4
  <2>4. packet' = q /\ offset' = avail /\ total' = total + avail /\ pc' = LoopOr("head")
        /\ UNCHANGED <<peerVars, base, size, head, all, delivered>>
    BY <1>3 DEF ParsePacketBegin
  <2> HIDE DEF q
  <2> QED
    BY <1>1, <1>2, <2>3, <2>4
<1>4. CASE ParsePacketWhole
  <2>1. packet.size <= avail
    BY <1>1, <1>4 DEF ParsePacketWhole, Short
  <2>2. [packet EXCEPT !.data = Run(base + total, packet.size)] \in Packets
    BY <1>1, RunType DEF Packets
  <2> QED
    BY <1>1, <1>4, <2>1, <2>2, CompleteIInv DEF ParsePacketWhole
<1>5. CASE ParsePacketMore
  <2> DEFINE left == packet.size - offset
             copied(n) == Copy(packet.data, offset, base + total, n)
             q(n) == [packet EXCEPT !.data = copied(n)]
  <2>1. left \in Nat /\ packet.owned /\ Len(packet.data) = offset /\ offset \in Nat
    <3>1. packet.owned /\ packet.size - offset > 0
      BY <1>5 DEF ParsePacketMore
    <3>2. Len(packet.data) = offset
      BY <1>1 DEF ParserInv
    <3>3. offset \in Nat
      BY DEF TypeOK
    <3> QED
      BY <1>1, <3>1, <3>2, <3>3
  <2>2. ASSUME NEW n \in Nat
        PROVE  /\ q(n) \in Packets /\ q(n).size = packet.size /\ ~q(n).null /\ q(n).owned
               /\ Len(q(n).data) = offset + n
    <3>0. offset \in 0 .. Len(packet.data)
      BY <2>1
    <3>1. copied(n) \in Seq(Nat) /\ Len(copied(n)) = offset + n
      BY <1>1, <2>2, <3>0, CopyType
    <3> HIDE DEF copied
    <3> QED
      BY <1>1, <2>1, <3>1 DEF Packets
  <2>3. CASE Short(avail, left)
    <3>1. /\ packet' = q(avail) /\ offset' = offset + avail /\ total' = total + avail
          /\ pc' = LoopOr("head") /\ UNCHANGED <<peerVars, base, size, head, all, delivered>>
      BY <1>5, <2>3 DEF ParsePacketMore
    <3>2. offset + avail \in Nat /\ offset + avail < packet.size
      BY <1>1, <2>1, <2>3 DEF Short
    <3>3. /\ q(avail) \in Packets /\ q(avail).size = packet.size /\ ~q(avail).null
          /\ q(avail).owned /\ Len(q(avail).data) = offset + avail
      BY <1>1, <2>2
    <3> HIDE DEF q
    <3> QED
      BY <1>2, <3>1, <3>2, <3>3
  <2>4. CASE ~Short(avail, left)
    <3>1. /\ Push(q(left)) /\ total' = total + left
          /\ pc' = LoopOr("head") /\ UNCHANGED <<peerVars, base, size, delivered>>
      BY <1>5, <2>4 DEF ParsePacketMore
    <3>2. left <= avail
      BY <1>1, <2>1, <2>4 DEF Short
    <3>3. q(left) \in Packets
      BY <2>1, <2>2
    <3> HIDE DEF q, left
    <3> QED
      BY <2>1, <3>1, <3>2, <3>3, CompleteIInv
  <2> QED
    BY <2>3, <2>4
<1> QED
  BY <1>3, <1>4, <1>5

LEMMA NextIInv == IInv /\ [Next]_vars => IInv'
<1>1. ASSUME IInv, UNCHANGED vars PROVE IInv'
  BY <1>1 DEF IInv, TypeOK, ParserInv, vars
<1>2. ASSUME IInv, Next PROVE IInv'
  BY <1>2, PeerIInv, OnTcpRecvIInv, ParseHeadIInv, ParsePacketIInv DEF Next, OnRecv
<1> QED
  BY <1>1, <1>2

LEMMA InvariantIInv == Spec => []IInv
BY InitIInv, NextIInv, PTL DEF Spec

-----------------------------------------------------------------------------
(* What the bytes are: the frames abut in the stream, and what was parsed  *)
(* lies where the next frame of the stream lies.                           *)

\* Where frame i ends, and where frame k + 1 starts or will start.
End(i)   == frames[i].start + HeadSize + frames[i].size
Place(k) == IF k < Len(frames) THEN frames[k + 1].start ELSE sentEnd

\* The head of frame i is one the parser accepts, and p has the body of frame i.
Fine(i)  == frames[i].ok /\ frames[i].size <= MaxSize
Is(p, i) == Fine(i) /\ p.data = Run(frames[i].start + HeadSize, frames[i].size)

\* How many packets were parsed, and how far into the next frame the parser is.
Parsed == Len(delivered) + Len(all)
Begun  == Len(head) + (IF packet.null THEN 0 ELSE offset)

\* Each frame ends where the next one starts, and before every later one.
FramesAbut ==
  \A i \in 1 .. Len(frames) :
    /\ End(i) = Place(i)
    /\ End(i) <= sentEnd
    /\ \A j \in 1 .. Len(frames) : i < j => End(i) <= frames[j].start

\* The receive buffer holds bytes that were sent, and the parser's place in it is its
\* place in the frame after the parsed ones.
Cursor ==
  /\ Parsed <= Len(frames)
  /\ base + total = Place(Parsed) + Begun
  /\ base + size <= sentEnd
  /\ pc = "armed" => size = 0
  /\ pc = "deliver" => total = size

\* The head and the packet hold the bytes of that frame, as far as the parser got.
Partial ==
  /\ head = Run(Place(Parsed), Len(head))
  /\ ~packet.null => /\ Parsed < Len(frames)
                     /\ Fine(Parsed + 1)
                     /\ packet.size = frames[Parsed + 1].size
                     /\ packet.data = Run(Place(Parsed) + HeadSize, offset)

\* The packets delivered, and those parsed and not yet delivered, are the first frames.
InOrder ==
  /\ \A j \in 1 .. Len(delivered) : Is(delivered[j], j)
  /\ \A j \in 1 .. Len(all) : Is(all[j], Len(delivered) + j)

Content == IInv /\ FramesAbut /\ Cursor /\ Partial /\ InOrder

\* Copying the bytes that follow a run behind it makes the longer run.
LEMMA CopyExtends ==
  ASSUME NEW p \in Nat, NEW m \in Nat, NEW n \in Nat
  PROVE  Copy(Run(p, m), m, p + m, n) = Run(p, m + n)
<1>1. \A i \in 1 .. m + n : (IF i <= m THEN Run(p, m)[i] ELSE p + m + (i - m) - 1) = p + i - 1
  BY DEF Run
<1> QED
  BY <1>1 DEF Copy, Run

\* And copying to an empty place makes the run.
LEMMA CopyStarts ==
  ASSUME NEW d, NEW p \in Nat, NEW n \in Nat
  PROVE  Copy(d, 0, p, n) = Run(p, n)
<1>1. \A i \in 1 .. 0 + n : (IF i <= 0 THEN d[i] ELSE p + (i - 0) - 1) = p + i - 1
  OBVIOUS
<1> QED
  BY <1>1 DEF Copy, Run

\* Runs of one length that are equal start at one position.
LEMMA RunStarts ==
  ASSUME NEW p \in Nat, NEW q \in Nat, NEW n \in Nat \ {0}, Run(p, n) = Run(q, n)
  PROVE  p = q
<1>1. Run(p, n)[1] = p + 1 - 1 /\ Run(q, n)[1] = q + 1 - 1
  BY DEF Run
<1> QED
  BY <1>1

\* The variables the arithmetic is about are numbers, and so are a frame's bounds.
LEMMA Numbers ==
  ASSUME IInv
  PROVE  /\ HeadSize \in Nat \ {0} /\ Len(frames) \in Nat /\ sentEnd \in Nat
         /\ base \in Nat /\ size \in Nat /\ total \in Nat /\ total <= size
         /\ Len(head) \in 0 .. HeadSize /\ offset \in Nat
         /\ Len(delivered) \in Nat /\ Len(all) \in Nat /\ Parsed \in Nat
         /\ packet.null \in BOOLEAN /\ packet.size \in Nat /\ packet.data \in Seq(Nat)
         /\ \A i \in 1 .. Len(frames) : /\ frames[i].start \in Nat
                                        /\ frames[i].size \in Sizes /\ frames[i].size \in Nat
                                        /\ frames[i].ok \in BOOLEAN
         /\ \A k \in Nat : Place(k) \in Nat
<1> USE DEF IInv
<1>1. HeadSize \in Nat \ {0} /\ BufferSize \in Nat /\ Sizes \subseteq Nat
  BY ConstantsOK
<1>2. /\ Len(frames) \in Nat /\ sentEnd \in Nat
      /\ base \in Nat /\ size \in Nat /\ total \in Nat /\ total <= size
      /\ Len(head) \in 0 .. HeadSize /\ offset \in Nat
      /\ Len(delivered) \in Nat /\ Len(all) \in Nat
  BY <1>1 DEF TypeOK
<1>3. packet.null \in BOOLEAN /\ packet.size \in Nat /\ packet.data \in Seq(Nat)
  BY DEF TypeOK, Packets
<1>4. \A i \in 1 .. Len(frames) : /\ frames[i].start \in Nat
                                  /\ frames[i].size \in Sizes /\ frames[i].size \in Nat
                                  /\ frames[i].ok \in BOOLEAN
  <2> DEFINE F == [start : Nat, size : Sizes, ok : BOOLEAN]
  <2>1. frames \in Seq(F)
    BY DEF TypeOK
  <2>2. \A f \in F : f.start \in Nat /\ f.size \in Sizes /\ f.size \in Nat /\ f.ok \in BOOLEAN
    BY <1>1
  <2> HIDE DEF F
  <2>3. \A i \in 1 .. Len(frames) : frames[i] \in F
    BY <2>1
  <2> QED
    BY <2>2, <2>3
<1>5. \A k \in Nat : Place(k) \in Nat
  BY <1>2, <1>4 DEF Place
<1>6. Parsed \in Nat
  BY <1>2 DEF Parsed
<1> QED
  BY <1>1, <1>2, <1>3, <1>4, <1>5, <1>6

\* A frame ends behind its start.
LEMMA Ends ==
  ASSUME IInv
  PROVE  \A i \in 1 .. Len(frames) : End(i) \in Nat /\ frames[i].start < End(i)
<1> SUFFICES ASSUME NEW i \in 1 .. Len(frames)
             PROVE  End(i) \in Nat /\ frames[i].start < End(i)
  OBVIOUS
<1>1. frames[i].start \in Nat /\ frames[i].size \in Nat /\ HeadSize \in Nat \ {0}
  BY Numbers
<1> QED
  BY <1>1 DEF End

LEMMA InitContent == Init => Content
<1> SUFFICES ASSUME Init PROVE Content
  OBVIOUS
<1>1. IInv
  BY InitIInv
<1>2. NoPacket.null
  BY PacketTypes
<1>3. Parsed = 0 /\ Place(0) = 0 /\ Begun = 0
  BY <1>2 DEF Init, Parsed, Place, Begun
<1>4. FramesAbut /\ InOrder
  BY DEF Init, FramesAbut, InOrder
<1>5. Cursor
  BY <1>3 DEF Init, Cursor
<1>6. Partial
  BY <1>2, <1>3 DEF Init, Partial, Run
<1> QED
  BY <1>1, <1>4, <1>5, <1>6 DEF Content

\* The peer appends a frame: the frames before it stay what they were, and the place of
\* the frame after the parsed ones, if none was there, is where the new one starts.
LEMMA PeerContent == ASSUME Content, Peer PROVE Content'
<1>0. IInv /\ IInv'
  BY PeerIInv DEF Content
<1>n. /\ HeadSize \in Nat \ {0} /\ Len(frames) \in Nat /\ sentEnd \in Nat /\ Parsed \in Nat
      /\ base \in Nat /\ size \in Nat
      /\ \A i \in 1 .. Len(frames) : /\ frames[i].start \in Nat
                                     /\ frames[i].size \in Sizes /\ frames[i].size \in Nat
                                     /\ frames[i].ok \in BOOLEAN
  BY <1>0, Numbers
<1>1. PICK n \in Sizes, ok \in BOOLEAN : Write(n, ok)
  BY DEF Peer, TcpSend, ForeignSend
<1>2. /\ n \in Nat
      /\ Len(frames') = Len(frames) + 1 /\ sentEnd' = sentEnd + HeadSize + n
      /\ \A i \in 1 .. Len(frames) : frames'[i] = frames[i]
      /\ frames'[Len(frames) + 1] = [start |-> sentEnd, size |-> n, ok |-> ok]
      /\ UNCHANGED <<base, pc, size, total, head, packet, offset, all, delivered>>
  BY <1>0, <1>1, ConstantsOK DEF Write, IInv, TypeOK, parserVars
<1>3. \A k \in 0 .. Len(frames) : Place(k)' = Place(k)
  BY <1>n, <1>2 DEF Place
<1>4. FramesAbut'
  <2> SUFFICES ASSUME NEW i \in 1 .. Len(frames'), NEW j \in 1 .. Len(frames')
               PROVE  /\ End(i)' = Place(i)'
                      /\ End(i)' <= sentEnd'
                      /\ i < j => End(i)' <= frames'[j].start
    BY DEF FramesAbut
  <2>1. CASE i = Len(frames) + 1
    BY <1>n, <1>2, <2>1 DEF End, Place
  <2>2. CASE i \in 1 .. Len(frames)
    <3>1. End(i)' = End(i) /\ Place(i)' = Place(i) /\ End(i) \in Nat
      BY <1>n, <1>2, <1>3, <2>2 DEF End
    <3>2. End(i) = Place(i) /\ End(i) <= sentEnd
      BY <2>2 DEF Content, FramesAbut
    <3>3. i < j => End(i) <= frames'[j].start
      <4>1. CASE j = Len(frames) + 1
        BY <1>2, <3>2, <4>1
      <4>2. CASE j \in 1 .. Len(frames)
        BY <1>2, <2>2, <4>2 DEF Content, FramesAbut
      <4> QED
        BY <1>n, <1>2, <4>1, <4>2
    <3> QED
      BY <1>n, <1>2, <3>1, <3>2, <3>3
  <2> QED
    BY <1>n, <1>2, <2>1, <2>2
<1>5. Parsed' = Parsed /\ Begun' = Begun /\ Parsed \in 0 .. Len(frames)
  BY <1>n, <1>2 DEF Content, Cursor, Parsed, Begun
<1>6. Cursor'
  BY <1>n, <1>2, <1>3, <1>5 DEF Content, Cursor
<1>7. Partial'
  BY <1>n, <1>2, <1>3, <1>5 DEF Content, Partial, Fine
<1>8. InOrder'
  <2>1. \A p : \A i \in 1 .. Len(frames) : Is(p, i)' = Is(p, i)
    BY <1>2 DEF Is, Fine
  <2>2. /\ \A j \in 1 .. Len(delivered) : j \in 1 .. Len(frames)
        /\ \A j \in 1 .. Len(all) : Len(delivered) + j \in 1 .. Len(frames)
    <3>1. Len(delivered) \in Nat /\ Len(all) \in Nat
      BY <1>0, Numbers
    <3>2. Len(delivered) + Len(all) <= Len(frames)
      BY <1>5 DEF Parsed
    <3> QED
      BY <1>n, <3>1, <3>2
  <2> QED
    BY <1>2, <2>1, <2>2 DEF Content, InOrder
<1> QED
  BY <1>0, <1>4, <1>6, <1>7, <1>8 DEF Content

\* NetResMgr::OnTcpRecv moves packets on and the buffer forward, never the parser.
LEMMA OnTcpRecvContent == ASSUME Content, OnTcpRecv PROVE Content'
<1>0. IInv /\ IInv'
  BY OnTcpRecvIInv DEF Content
<1>n. /\ HeadSize \in Nat \ {0} /\ Len(frames) \in Nat /\ sentEnd \in Nat /\ Parsed \in Nat
      /\ base \in Nat /\ size \in Nat /\ total \in Nat
      /\ Len(delivered) \in Nat /\ Len(all) \in Nat
      /\ Place(Parsed) \in Nat
  BY <1>0, Numbers
<1>1. ASSUME UNCHANGED <<frames, sentEnd, head, packet, offset, all, delivered>>
      PROVE  /\ FramesAbut' /\ Partial' /\ InOrder'
             /\ Place(Parsed)' = Place(Parsed) /\ Begun' = Begun /\ Parsed' = Parsed
  BY <1>1 DEF Content, FramesAbut, Partial, InOrder, End, Place, Fine, Is, Parsed, Begun
<1>2. ASSUME NEW n \in 1 .. BufferSize, Receive(n) PROVE Content'
  <2>1. UNCHANGED <<frames, sentEnd, head, packet, offset, all, delivered, base>>
    BY <1>2 DEF Receive, peerVars, parserVars
  <2>2. total = 0
    BY <1>0, <1>2 DEF Content, Cursor, Receive, IInv, TypeOK
  <2>3. base + size' <= sentEnd /\ total' = 0 /\ pc' = "head"
    BY <1>2, <1>n, ConstantsOK DEF Receive
  <2>4. Cursor'
    BY <1>1, <1>n, <2>1, <2>2, <2>3 DEF Content, Cursor
  <2> QED
    BY <1>0, <1>1, <2>1, <2>4 DEF Content
<1>3. CASE Disconnected
  <2>1. /\ UNCHANGED <<frames, sentEnd, head, packet, offset, all, delivered>>
        /\ UNCHANGED <<base, size, total>> /\ pc' = "closed"
    BY <1>3 DEF Disconnected, peerVars, parserVars
  <2>2. Cursor'
    BY <1>1, <2>1 DEF Content, Cursor
  <2> QED
    BY <1>0, <1>1, <2>1, <2>2 DEF Content
<1>4. CASE OnTcpReceived
  <2>1. /\ UNCHANGED <<frames, sentEnd, base, pc, size, total, head, packet, offset>>
        /\ all # <<>> /\ delivered' = Append(delivered, Head(all)) /\ all' = Tail(all)
    BY <1>4 DEF OnTcpReceived, peerVars
  <2>2. /\ Len(delivered') = Len(delivered) + 1 /\ Len(all') + 1 = Len(all)
        /\ Len(all) \in Nat \ {0}
        /\ \A j \in 1 .. Len(delivered) : delivered'[j] = delivered[j]
        /\ delivered'[Len(delivered) + 1] = all[1]
        /\ \A j \in 1 .. Len(all') : all'[j] = all[j + 1]
    BY <1>0, <2>1 DEF IInv, TypeOK
  <2>3. Parsed' = Parsed /\ Begun' = Begun
    BY <1>n, <2>1, <2>2 DEF Parsed, Begun
  <2>4. FramesAbut' /\ Cursor' /\ Partial'
    BY <2>1, <2>3 DEF Content, FramesAbut, Cursor, Partial, End, Place, Fine
  <2>5. InOrder'
    <3>1. \A p, i : Is(p, i)' = Is(p, i)
      BY <2>1 DEF Is, Fine
    <3>2. \A j \in 1 .. Len(delivered') : Is(delivered'[j], j)
      BY <1>n, <2>2 DEF Content, InOrder
    <3>3. \A j \in 1 .. Len(all') : Is(all'[j], Len(delivered') + j)
      <4> SUFFICES ASSUME NEW j \in 1 .. Len(all') PROVE Is(all'[j], Len(delivered') + j)
        OBVIOUS
      <4>1. j + 1 \in 1 .. Len(all) /\ Len(delivered') + j = Len(delivered) + (j + 1)
        BY <1>n, <2>2
      <4> QED
        BY <2>2, <4>1 DEF Content, InOrder
    <3> QED
      BY <2>1, <3>2, <3>3 DEF InOrder, Is, Fine
  <2> QED
    BY <1>0, <2>4, <2>5 DEF Content
<1>5. CASE Rearm
  <2>1. /\ UNCHANGED <<frames, sentEnd, head, packet, offset, all, delivered>>
        /\ pc = "deliver" /\ base' = base + size /\ size' = 0 /\ total' = 0
        /\ pc' \in {"armed", "closed"}
    BY <1>5 DEF Rearm, peerVars, parserVars
  <2>2. Cursor'
    BY <1>1, <1>n, <2>1 DEF Content, Cursor
  <2> QED
    BY <1>0, <1>1, <2>1, <2>2 DEF Content
<1> QED
  BY <1>2, <1>3, <1>4, <1>5 DEF OnTcpRecv

\* While the parser runs the stream stays put: what is said of its frames stays true.
LEMMA StreamSame ==
  ASSUME Content, UNCHANGED <<peerVars, base, size, delivered>>
  PROVE  /\ FramesAbut'
         /\ \A k : Place(k)' = Place(k)
         /\ \A i : Fine(i)' = Fine(i)
         /\ \A p, i : Is(p, i)' = Is(p, i)
<1>1. UNCHANGED <<frames, sentEnd>>
  BY DEF peerVars
<1> QED
  BY <1>1 DEF Content, FramesAbut, End, Place, Fine, Is

\* The complete head of a frame says what that frame is, and nothing else.
LEMMA HeadOfFrame ==
  ASSUME Content, NEW k \in 0 .. Len(frames) - 1, NEW n, NEW flag,
         HeadSays(Run(Place(k), HeadSize), n, flag)
  PROVE  n = frames[k + 1].size /\ flag = frames[k + 1].ok
<1>0. IInv
  BY DEF Content
<1>n. /\ HeadSize \in Nat \ {0} /\ Len(frames) \in Nat
      /\ \A i \in 1 .. Len(frames) : frames[i].start \in Nat /\ frames[i].size \in Nat
  BY <1>0, Numbers
<1>1. k + 1 \in 1 .. Len(frames) /\ Place(k) = frames[k + 1].start
  BY <1>n DEF Place
<1>2. PICK i \in 1 .. Len(frames) :
        Run(Place(k), HeadSize) = Run(frames[i].start, HeadSize)
        /\ n = frames[i].size /\ flag = frames[i].ok
  BY <1>1 DEF HeadSays
<1>3. frames[k + 1].start = frames[i].start
  BY <1>n, <1>1, <1>2, RunStarts
<1>4. \A a, b \in 1 .. Len(frames) : a < b => frames[a].start < frames[b].start
  <2> SUFFICES ASSUME NEW a \in 1 .. Len(frames), NEW b \in 1 .. Len(frames), a < b
               PROVE  frames[a].start < frames[b].start
    OBVIOUS
  <2>1. End(a) <= frames[b].start
    BY DEF Content, FramesAbut
  <2> QED
    BY <1>n, <2>1 DEF End
<1>5. i = k + 1
  BY <1>n, <1>1, <1>3, <1>4
<1> QED
  BY <1>2, <1>5

\* Where the parser is when it reads a head: inside a frame, right behind the head's
\* bytes, with no packet prepared.
LEMMA AtHead ==
  ASSUME Content, pc = "head", Len(head) < HeadSize
  PROVE  packet.null /\ base + total = Place(Parsed) + Len(head)
<1>0. IInv
  BY DEF Content
<1>n. Len(head) \in Nat /\ HeadSize \in Nat /\ Place(Parsed) \in Nat
  BY <1>0, Numbers
<1>1. packet.null
  BY <1>0, <1>n DEF IInv, ParserInv
<1> QED
  BY <1>1, <1>n DEF Content, Cursor, Begun

\* A frame the parser has bytes of was sent.
LEMMA FrameThere ==
  ASSUME Content, NEW n \in Nat \ {0}, Place(Parsed) + n <= sentEnd
  PROVE  Parsed \in 0 .. Len(frames) - 1
<1>n. Parsed \in Nat /\ Len(frames) \in Nat /\ sentEnd \in Nat
  BY Numbers DEF Content
<1>1. Parsed <= Len(frames)
  BY DEF Content, Cursor
<1>2. Parsed = Len(frames) => Place(Parsed) = sentEnd
  BY <1>n DEF Place
<1> QED
  BY <1>n, <1>1, <1>2

\* The positions a head is read at are numbers.
LEMMA Positions ==
  ASSUME IInv
  PROVE  Len(head) \in Nat /\ Place(Parsed) \in Nat /\ base \in Nat /\ total \in Nat
<1>1. Len(head) \in Nat
  BY Numbers
<1>2. Parsed \in Nat
  BY Numbers
<1>3. Place(Parsed) \in Nat
  BY <1>2, Numbers
<1>4. base \in Nat /\ total \in Nat
  BY Numbers
<1> QED
  BY <1>1, <1>3, <1>4

\* m bytes of a head were copied behind those it had.
LEMMA HeadCopied ==
  ASSUME Content, pc = "head", Len(head) < HeadSize, NEW m \in Nat,
         head' = Copy(head, Len(head), base + total, m), total' = total + m
  PROVE  /\ head' = Run(Place(Parsed), Len(head) + m) /\ Len(head') = Len(head) + m
         /\ base + total' = Place(Parsed) + Len(head')
<1>0. IInv
  BY DEF Content
<1>n. /\ Len(head) \in Nat /\ Place(Parsed) \in Nat
      /\ base \in Nat /\ total \in Nat
  BY <1>0, Positions
<1>1. base + total = Place(Parsed) + Len(head)
  BY AtHead
<1>2. head = Run(Place(Parsed), Len(head))
  BY DEF Content, Partial
<1>3. head' = Run(Place(Parsed), Len(head) + m)
  <2> DEFINE l == Len(head)
  <2>1. Copy(Run(Place(Parsed), l), l, Place(Parsed) + l, m) = Run(Place(Parsed), l + m)
    BY <1>n, CopyExtends
  <2> QED
    BY <1>1, <1>2, <2>1
<1>4. Len(head') = Len(head) + m
  BY <1>n, <1>3, RunType
<1> QED
  BY <1>n, <1>1, <1>3, <1>4

\* A head that is filled is the whole head of the frame after the parsed ones.
LEMMA HeadFilled ==
  ASSUME Content, ParseHeadFull
  PROVE  /\ head' = Run(Place(Parsed), HeadSize) /\ Len(head') = HeadSize
         /\ base + total' = Place(Parsed) + HeadSize /\ total' \in 0 .. size
         /\ packet.null /\ Parsed \in 0 .. Len(frames) - 1
<1>0. IInv
  BY DEF Content
<1>n. /\ HeadSize \in Nat \ {0} /\ Len(head) \in 0 .. HeadSize /\ Place(Parsed) \in Nat
      /\ base \in Nat /\ total \in Nat /\ size \in Nat /\ total <= size /\ sentEnd \in Nat
  BY <1>0, Numbers
<1>1. /\ LeftHead \in Nat \ {0} /\ LeftHead <= size - total /\ Len(head) + LeftHead = HeadSize
      /\ Len(head) < HeadSize /\ pc = "head"
      /\ head' = Copy(head, Len(head), base + total, LeftHead) /\ total' = total + LeftHead
  BY <1>n DEF ParseHeadFull, Short, LeftHead
<1>2. /\ head' = Run(Place(Parsed), HeadSize) /\ Len(head') = HeadSize
      /\ base + total' = Place(Parsed) + HeadSize
  BY <1>1, HeadCopied
<1>3. total' \in 0 .. size
  BY <1>n, <1>1
<1>4. Place(Parsed) + HeadSize <= sentEnd
  BY <1>n, <1>2, <1>3 DEF Content, Cursor
<1> QED
  BY <1>n, <1>1, <1>2, <1>3, <1>4, AtHead, FrameThere

LEMMA ParseHeadContent ==
  ASSUME Content, ParseHeadPart \/ ParseHeadFull \/ ParseHeadSkip PROVE Content'
<1>0. IInv /\ IInv'
  BY ParseHeadIInv DEF Content
<1>n. /\ HeadSize \in Nat \ {0} /\ Len(frames) \in Nat /\ sentEnd \in Nat /\ Parsed \in Nat
      /\ base \in Nat /\ size \in Nat /\ total \in Nat /\ total <= size
      /\ Len(head) \in 0 .. HeadSize /\ Place(Parsed) \in Nat
  BY <1>0, Numbers
<1>s. UNCHANGED <<frames, sentEnd, base, size, all, delivered>>
      /\ UNCHANGED <<peerVars, base, size, delivered>>
  BY DEF ParseHeadPart, ParseHeadFull, ParseHeadSkip, peerVars, parserVars
<1>f. /\ FramesAbut' /\ Parsed' = Parsed /\ Place(Parsed)' = Place(Parsed) /\ InOrder'
      /\ Fine(Parsed + 1)' = Fine(Parsed + 1)
  <2>1. Parsed' = Parsed
    BY <1>s DEF Parsed
  <2>2. InOrder'
    BY <1>s, StreamSame DEF Content, InOrder
  <2> QED
    BY <1>s, <2>1, <2>2, StreamSame DEF Place, Fine
<1>2. CASE ParseHeadPart
  <2> DEFINE avail == size - total
  <2>1. /\ avail \in Nat /\ Len(head) + avail < HeadSize /\ Len(head) < HeadSize /\ pc = "head"
        /\ head' = Copy(head, Len(head), base + total, avail) /\ total' = total + avail
        /\ pc' = LoopOr("packet") /\ UNCHANGED <<packet, offset>>
    BY <1>2, <1>n DEF ParseHeadPart, Short, LeftHead
  <2>2. total' = size /\ pc' = "deliver"
    BY <1>n, <2>1 DEF LoopOr
  <2>3. /\ head' = Run(Place(Parsed), Len(head')) /\ base + total' = Place(Parsed) + Len(head')
        /\ packet'.null
    BY <1>n, <2>1, AtHead, HeadCopied
  <2>4. Cursor'
    BY <1>n, <1>s, <1>f, <2>2, <2>3 DEF Content, Cursor, Begun
  <2>5. Partial'
    BY <1>f, <2>3 DEF Partial
  <2> QED
    BY <1>0, <1>f, <2>4, <2>5 DEF Content
<1>3. CASE ParseHeadFull
  <2>2. /\ head' = Run(Place(Parsed), HeadSize) /\ Len(head') = HeadSize
        /\ base + total' = Place(Parsed) + HeadSize /\ total' \in 0 .. size
        /\ packet.null /\ Parsed \in 0 .. Len(frames) - 1
    BY <1>3, HeadFilled
  <2>4. PICK n \in Sizes, flag \in BOOLEAN :
          /\ HeadSays(head', n, flag)
          /\ IF HeadOK(n, flag)
             THEN Prepare(n) /\ pc' = LoopOr("packet")
             ELSE UNCHANGED <<packet, offset>> /\ pc' = "closed"
    BY <1>3 DEF ParseHeadFull
  <2>5. n = frames[Parsed + 1].size /\ flag = frames[Parsed + 1].ok /\ n \in Nat
    <3>1. n = frames[Parsed + 1].size /\ flag = frames[Parsed + 1].ok
      BY <2>2, <2>4, HeadOfFrame
    <3> QED
      BY <3>1, ConstantsOK
  <2>6. CASE HeadOK(n, flag)
    <3>1. packet' = NewPacket(n) /\ offset' = 0 /\ pc' = LoopOr("packet")
      BY <2>4, <2>6 DEF Prepare
    <3>2. ~packet'.null /\ packet'.size = n /\ packet'.data = <<>>
      BY <2>5, <3>1, PacketTypes
    <3>3. Cursor'
      <4>1. Begun' = HeadSize
        BY <1>n, <2>2, <3>1, <3>2 DEF Begun
      <4>2. pc' # "armed" /\ (pc' = "deliver" => total' = size)
        BY <1>n, <2>2, <3>1 DEF LoopOr
      <4> QED
        BY <1>n, <1>s, <1>f, <2>2, <4>1, <4>2 DEF Content, Cursor
    <3>4. Partial'
      <4>1. Fine(Parsed + 1)
        BY <2>5, <2>6 DEF Fine, HeadOK
      <4>2. <<>> = Run(Place(Parsed) + HeadSize, 0)
        BY DEF Run
      <4> QED
        BY <1>n, <1>s, <1>f, <2>2, <2>5, <3>1, <3>2, <4>1, <4>2 DEF Partial
    <3> QED
      BY <1>0, <1>f, <3>3, <3>4 DEF Content
  <2>7. CASE ~HeadOK(n, flag)
    <3>1. UNCHANGED <<packet, offset>> /\ pc' = "closed" /\ packet'.null
      BY <2>2, <2>4, <2>7
    <3>2. Cursor'
      BY <1>n, <1>s, <1>f, <2>2, <3>1 DEF Content, Cursor, Begun
    <3>3. Partial'
      BY <1>f, <2>2, <3>1 DEF Partial
    <3> QED
      BY <1>0, <1>f, <3>2, <3>3 DEF Content
  <2> QED
    BY <2>6, <2>7
<1>4. CASE ParseHeadSkip
  <2>1. UNCHANGED <<total, head, packet, offset>> /\ pc' = "packet"
    BY <1>4 DEF ParseHeadSkip, parserVars
  <2>2. Cursor'
    BY <1>s, <1>f, <2>1 DEF Content, Cursor, Begun
  <2>3. Partial'
    BY <1>s, <1>f, <2>1 DEF Content, Partial
  <2> QED
    BY <1>0, <1>f, <2>2, <2>3 DEF Content
<1> QED
  BY <1>2, <1>3, <1>4

\* Where the parser is when it parses a packet: the head of its frame is complete, and the
\* body is copied up to the offset.
LEMMA AtPacket ==
  ASSUME Content, pc = "packet"
  PROVE  /\ ~packet.null /\ Len(head) = HeadSize
         /\ base + total = Place(Parsed) + HeadSize + offset
         /\ packet.data = Run(Place(Parsed) + HeadSize, offset)
         /\ packet.size = frames[Parsed + 1].size
         /\ Parsed + 1 \in 1 .. Len(frames) /\ Fine(Parsed + 1)
         /\ frames[Parsed + 1].start = Place(Parsed)
         /\ Place(Parsed + 1) = Place(Parsed) + HeadSize + packet.size
<1>0. IInv
  BY DEF Content
<1>n. /\ HeadSize \in Nat /\ Len(frames) \in Nat /\ Parsed \in Nat
      /\ Place(Parsed) \in Nat /\ offset \in Nat /\ base \in Nat /\ total \in Nat
  BY <1>0, Numbers
<1>1. ~packet.null /\ Len(head) = HeadSize
  BY <1>0 DEF IInv, ParserInv
<1>2. base + total = Place(Parsed) + HeadSize + offset
  BY <1>n, <1>1 DEF Content, Cursor, Begun
<1>3. /\ packet.data = Run(Place(Parsed) + HeadSize, offset)
      /\ packet.size = frames[Parsed + 1].size /\ Parsed < Len(frames) /\ Fine(Parsed + 1)
  BY <1>1 DEF Content, Partial
<1>4. Parsed + 1 \in 1 .. Len(frames) /\ frames[Parsed + 1].start = Place(Parsed)
  BY <1>n, <1>3 DEF Place
<1>5. Place(Parsed + 1) = Place(Parsed) + HeadSize + packet.size
  BY <1>n, <1>3, <1>4 DEF Content, FramesAbut, End
<1> QED
  BY <1>1, <1>2, <1>3, <1>4, <1>5

\* The body goes on: n more of its bytes are copied, which are all the data has.
LEMMA MoreContent ==
  ASSUME Content, IInv', pc = "packet", NEW n \in Nat, n = size - total,
         packet'.size = packet.size, ~packet'.null,
         packet'.data = Run(Place(Parsed) + HeadSize, offset + n),
         offset' = offset + n, total' = total + n, pc' = LoopOr("head"),
         UNCHANGED <<peerVars, base, size, head, all, delivered>>
  PROVE  Content'
<1>0. IInv
  BY DEF Content
<1>n. /\ HeadSize \in Nat /\ Parsed \in Nat /\ Place(Parsed) \in Nat /\ offset \in Nat
      /\ base \in Nat /\ total \in Nat /\ size \in Nat
  BY <1>0, Numbers
<1>f. /\ FramesAbut' /\ Parsed' = Parsed /\ Place(Parsed)' = Place(Parsed) /\ InOrder'
      /\ Fine(Parsed + 1)' = Fine(Parsed + 1) /\ UNCHANGED <<frames, sentEnd>>
  <2>1. Parsed' = Parsed
    BY DEF Parsed
  <2>2. InOrder'
    BY StreamSame DEF Content, InOrder
  <2> QED
    BY <2>1, <2>2, StreamSame DEF Place, Fine, peerVars
<1>1. /\ Len(head) = HeadSize /\ base + total = Place(Parsed) + HeadSize + offset
      /\ packet.size = frames[Parsed + 1].size /\ ~packet.null
  BY AtPacket
<1>2. total' = size /\ pc' = "deliver"
  BY <1>n DEF LoopOr
<1>3. Cursor'
  <2>1. Begun' = HeadSize + (offset + n)
    BY <1>1 DEF Begun
  <2>2. base + (total + n) = Place(Parsed) + (HeadSize + (offset + n))
    <3> DEFINE b == Place(Parsed)
    <3>1. b \in Nat /\ base + total = b + HeadSize + offset
      BY <1>n, <1>1
    <3> HIDE DEF b
    <3>2. base + (total + n) = b + (HeadSize + (offset + n))
      BY <1>n, <3>1
    <3> QED
      BY <3>2 DEF b
  <2>3. Parsed <= Len(frames) /\ base + size <= sentEnd
    BY DEF Content, Cursor
  <2> QED
    BY <1>f, <1>2, <2>1, <2>2, <2>3 DEF Cursor
<1>4. Partial'
  BY <1>f, <1>1 DEF Content, Partial
<1> QED
  BY <1>f, <1>3, <1>4 DEF Content

\* The body is complete: its packet is pushed, n bytes further.
LEMMA CompleteContent ==
  ASSUME Content, IInv', pc = "packet", NEW n \in Nat, n <= size - total, NEW p \in Packets,
         offset + n = packet.size, p.data = Run(Place(Parsed) + HeadSize, packet.size),
         Push(p), total' = total + n, pc' = LoopOr("head"),
         UNCHANGED <<peerVars, base, size, delivered>>
  PROVE  Content'
<1>0. IInv
  BY DEF Content
<1>n. /\ HeadSize \in Nat \ {0} /\ Parsed \in Nat /\ Place(Parsed) \in Nat /\ offset \in Nat
      /\ base \in Nat /\ total \in Nat /\ size \in Nat /\ Len(frames) \in Nat
      /\ Len(all) \in Nat /\ Len(delivered) \in Nat /\ packet.size \in Nat
      /\ Place(Parsed + 1) \in Nat
  <2>1. /\ HeadSize \in Nat \ {0} /\ Parsed \in Nat /\ Place(Parsed) \in Nat /\ offset \in Nat
        /\ base \in Nat /\ total \in Nat /\ size \in Nat /\ Len(frames) \in Nat
        /\ Len(all) \in Nat /\ Len(delivered) \in Nat /\ packet.size \in Nat
    BY <1>0, Numbers
  <2>2. Parsed + 1 \in Nat
    BY <2>1
  <2>3. Place(Parsed + 1) \in Nat
    BY <1>0, <2>2, Numbers
  <2> QED
    BY <2>1, <2>3
<1>1. /\ base + total = Place(Parsed) + HeadSize + offset
      /\ packet.size = frames[Parsed + 1].size
      /\ Parsed + 1 \in 1 .. Len(frames) /\ Fine(Parsed + 1)
      /\ frames[Parsed + 1].start = Place(Parsed)
      /\ Place(Parsed + 1) = Place(Parsed) + HeadSize + packet.size
  BY AtPacket
<1>2. /\ UNCHANGED <<frames, sentEnd>> /\ FramesAbut' /\ \A k : Place(k)' = Place(k)
      /\ \A q, i : Is(q, i)' = Is(q, i)
  BY StreamSame DEF peerVars
<1>3. /\ all' = Append(all, p) /\ packet' = NoPacket /\ head' = <<>> /\ packet'.null
      /\ Len(all') = Len(all) + 1 /\ all'[Len(all) + 1] = p
      /\ \A j \in 1 .. Len(all) : all'[j] = all[j]
  BY <1>0, PacketTypes DEF Push, IInv, TypeOK
<1>4. Parsed' = Parsed + 1 /\ Place(Parsed)' = Place(Parsed + 1) /\ Begun' = 0
  <2>1. Parsed' = Parsed + 1
    BY <1>n, <1>3 DEF Parsed
  <2>2. Place(Parsed)' = Place(Parsed + 1)
    BY <1>2, <2>1 DEF Place
  <2>3. Begun' = 0
    BY <1>3 DEF Begun
  <2> QED
    BY <2>1, <2>2, <2>3
<1>5. Cursor'
  <2>1. base + total' = Place(Parsed + 1)
    <3> DEFINE b == Place(Parsed)
               e == Place(Parsed + 1)
    <3>1. b \in Nat /\ e \in Nat /\ base + total = b + HeadSize + offset
          /\ e = b + HeadSize + packet.size
      BY <1>n, <1>1
    <3> HIDE DEF b, e
    <3>2. base + (total + n) = (base + total) + n
      BY <1>n
    <3>3. (b + HeadSize + offset) + n = b + HeadSize + (offset + n)
      BY <1>n, <3>1
    <3> QED
      BY <3>1, <3>2, <3>3 DEF e
  <2>2. pc' # "armed" /\ (pc' = "deliver" => total' = size)
    BY <1>n DEF LoopOr
  <2>3. Parsed + 1 <= Len(frames) /\ base + size <= sentEnd
    BY <1>1 DEF Content, Cursor
  <2> QED
    BY <1>n, <1>2, <1>4, <2>1, <2>2, <2>3 DEF Cursor
<1>6. Partial'
  <2>1. <<>> = Run(Place(Parsed + 1), 0) /\ Len(<<>>) = 0
    BY DEF Run
  <2> QED
    BY <1>3, <1>4, <2>1 DEF Partial
<1>7. InOrder'
  <2>1. Is(p, Parsed + 1)
    BY <1>1 DEF Is
  <2>2. \A j \in 1 .. Len(all') : Is(all'[j], Len(delivered) + j)
    <3> SUFFICES ASSUME NEW j \in 1 .. Len(all') PROVE Is(all'[j], Len(delivered) + j)
      OBVIOUS
    <3>1. CASE j = Len(all) + 1
      <4>1. Len(delivered) + j = Parsed + 1
        BY <1>n, <3>1 DEF Parsed
      <4> QED
        BY <1>3, <2>1, <3>1, <4>1
    <3>2. CASE j \in 1 .. Len(all)
      BY <1>3, <3>2 DEF Content, InOrder
    <3> QED
      BY <1>n, <1>3, <3>1, <3>2
  <2> QED
    BY <1>2, <2>2 DEF Content, InOrder
<1> QED
  BY <1>2, <1>5, <1>6, <1>7 DEF Content

LEMMA ParsePacketContent ==
  ASSUME Content, ParsePacketBegin \/ ParsePacketWhole \/ ParsePacketMore PROVE Content'
<1> DEFINE avail == size - total
           body == Place(Parsed) + HeadSize
<1>0. IInv /\ IInv'
  BY ParsePacketIInv DEF Content
<1>n. /\ HeadSize \in Nat /\ Parsed \in Nat /\ Place(Parsed) \in Nat /\ offset \in Nat
      /\ base \in Nat /\ total \in Nat /\ size \in Nat /\ packet.size \in Nat
      /\ avail \in Nat /\ body \in Nat
  <2>1. /\ HeadSize \in Nat /\ Parsed \in Nat /\ Place(Parsed) \in Nat /\ offset \in Nat
        /\ base \in Nat /\ total \in Nat /\ size \in Nat /\ packet.size \in Nat /\ total <= size
    BY <1>0, Numbers
  <2> QED
    BY <2>1
<1>1. pc = "packet" /\ packet \in Packets
  BY <1>0 DEF ParsePacketBegin, ParsePacketWhole, ParsePacketMore, IInv, TypeOK
<1>2. ~packet.null /\ base + total = body + offset /\ packet.data = Run(body, offset)
  BY <1>1, AtPacket
<1>3. \A q : /\ [packet EXCEPT !.data = q].data = q /\ [packet EXCEPT !.data = q].size = packet.size
             /\ [packet EXCEPT !.data = q].null = packet.null
  BY <1>1 DEF Packets
<1>4. CASE ParsePacketBegin
  <2>1. offset = 0 /\ base + total = body
    BY <1>4, <1>n, <1>2 DEF ParsePacketBegin
  <2>2. Copy(<<>>, 0, base + total, avail) = Run(body, avail)
    BY <1>n, <2>1, CopyStarts
  <2>3. /\ packet' = [packet EXCEPT !.owned = TRUE, !.data = Copy(<<>>, 0, base + total, avail)]
        /\ offset' = avail /\ total' = total + avail /\ pc' = LoopOr("head")
        /\ UNCHANGED <<peerVars, base, size, head, all, delivered>>
    BY <1>4 DEF ParsePacketBegin, Kept
  <2>4. packet'.data = Run(body, avail) /\ packet'.size = packet.size /\ packet'.null = packet.null
    BY <1>1, <2>2, <2>3 DEF Packets
  <2>5. offset + avail = avail
    BY <1>n, <2>1
  <2> HIDE DEF body
  <2> QED
    BY <1>0, <1>n, <1>1, <1>2, <2>3, <2>4, <2>5, MoreContent DEF body
<1>5. CASE ParsePacketWhole
  <2> DEFINE p == [packet EXCEPT !.data = Run(base + total, packet.size)]
  <2>1. /\ offset = 0 /\ base + total = body /\ offset + packet.size = packet.size
        /\ packet.size <= size - total
    BY <1>5, <1>n, <1>2 DEF ParsePacketWhole, Short
  <2>2. /\ Push(p) /\ total' = total + packet.size /\ pc' = LoopOr("head")
        /\ UNCHANGED <<peerVars, base, size, delivered>>
    BY <1>5 DEF ParsePacketWhole
  <2>3. p.data = Run(body, packet.size) /\ p \in Packets
    <3>1. Run(body, packet.size) \in Seq(Nat)
      BY <1>n, RunType
    <3> QED
      BY <1>1, <1>3, <2>1, <3>1 DEF Packets
  <2> HIDE DEF p
  <2> QED
    BY <1>0, <1>n, <1>1, <2>1, <2>2, <2>3, CompleteContent
<1>6. CASE ParsePacketMore
  <2> DEFINE left == packet.size - offset
             p(n) == [packet EXCEPT !.data = Copy(packet.data, offset, base + total, n)]
  <2>1. left \in Nat
    BY <1>6, <1>n DEF ParsePacketMore
  <2>2. ASSUME NEW n \in Nat
        PROVE  /\ p(n).data = Run(body, offset + n) /\ p(n) \in Packets
               /\ p(n).size = packet.size /\ p(n).null = packet.null
    <3>1. Copy(packet.data, offset, base + total, n) = Run(body, offset + n)
      BY <1>n, <1>2, CopyExtends
    <3>2. Run(body, offset + n) \in Seq(Nat)
      BY <1>n, RunType
    <3> QED
      BY <1>1, <1>3, <3>1, <3>2 DEF Packets
  <2>3. CASE Short(avail, left)
    <3>1. /\ packet' = p(avail) /\ offset' = offset + avail /\ total' = total + avail
          /\ pc' = LoopOr("head") /\ UNCHANGED <<peerVars, base, size, head, all, delivered>>
      BY <1>6, <2>3 DEF ParsePacketMore
    <3>2. /\ p(avail).data = Run(body, offset + avail)
          /\ p(avail).size = packet.size /\ p(avail).null = packet.null
      BY <1>n, <2>2
    <3> HIDE DEF p
    <3> QED
      BY <1>0, <1>n, <1>1, <1>2, <3>1, <3>2, MoreContent
  <2>4. CASE ~Short(avail, left)
    <3>1. /\ Push(p(left)) /\ total' = total + left
          /\ pc' = LoopOr("head") /\ UNCHANGED <<peerVars, base, size, delivered>>
      BY <1>6, <2>4 DEF ParsePacketMore
    <3>2. left <= size - total /\ offset + left = packet.size
      BY <1>n, <2>1, <2>4 DEF Short
    <3>3. p(left).data = Run(body, offset + left) /\ p(left) \in Packets
      BY <2>1, <2>2
    <3> HIDE DEF p, left
    <3> QED
      BY <1>0, <1>n, <1>1, <2>1, <3>1, <3>2, <3>3, CompleteContent
  <2> QED
    BY <2>3, <2>4
<1> QED
  BY <1>4, <1>5, <1>6

LEMMA NextContent == Content /\ [Next]_vars => Content'
<1>1. ASSUME Content, UNCHANGED vars PROVE Content'
  <2>1. IInv'
    BY <1>1, NextIInv DEF Content
  <2> QED
    BY <1>1, <2>1 DEF Content, FramesAbut, Cursor, Partial, InOrder, End, Place, Fine, Is,
                      Parsed, Begun, vars
<1>2. ASSUME Content, Next PROVE Content'
  BY <1>2, PeerContent, OnTcpRecvContent, ParseHeadContent, ParsePacketContent
  DEF Next, OnRecv
<1> QED
  BY <1>1, <1>2

LEMMA InvariantContent == Spec => []Content
BY InitContent, NextContent, PTL DEF Spec

-----------------------------------------------------------------------------
(* Theorems.                                                               *)

\* OnRecv never parses past the data it was given, and neither the head nor the copy of
\* a body ever outgrows its memory (tcp_socket.cpp:266-321).
THEOREM TypeCorrect == Spec => []TypeOK
BY InvariantIInv, PTL DEF IInv

\* The head and the packet always agree about where the parser is.
THEOREM ParserCorrect == Spec => []ParserInv
BY InvariantIInv, PTL DEF IInv

\* The condition tcp_socket.cpp:304 calls "assert: must be true" is, and ParseTcpPacket
\* always has a packet.
THEOREM AssertionHolds == Spec => []AssertMustBeTrue
<1>1. IInv => AssertMustBeTrue
  BY DEF IInv, TypeOK, ParserInv, AssertMustBeTrue, Packets
<1> QED
  BY <1>1, InvariantIInv, PTL

\* No packet that lies in the receive buffer outlives the call that parsed it.
THEOREM NoBorrowedMemory == Spec => []NoBorrowAcrossRecv
<1>1. IInv => NoBorrowAcrossRecv
  BY DEF IInv, TypeOK, ParserInv, NoBorrowAcrossRecv, NoPacket, Packets
<1> QED
  BY <1>1, InvariantIInv, PTL

\* When the next receive is armed, every frame whose bytes have all been received was
\* delivered (the loop of OnRecv, tcp_socket.cpp:228-264, and the loop of OnTcpRecv).
THEOREM NoPacketWithheld == Spec => []NothingWithheld
<1>1. Content => NothingWithheld
  <2> SUFFICES ASSUME Content, pc = "armed", NEW i \in 1 .. Len(frames),
                      End(i) <= base, frames[i].size = 0 => End(i) < base
               PROVE  i <= Len(delivered)
    BY DEF NothingWithheld, End
  <2>n. /\ HeadSize \in Nat \ {0} /\ Len(frames) \in Nat /\ Parsed \in Nat
        /\ Len(head) \in 0 .. HeadSize /\ offset \in Nat /\ base \in Nat
        /\ Len(delivered) \in Nat /\ packet.null \in BOOLEAN
        /\ \A j \in 1 .. Len(frames) : frames[j].start \in Nat /\ frames[j].size \in Nat
    BY Numbers DEF Content
  <2>1. all = <<>> /\ Parsed = Len(delivered) /\ total = 0
    BY <2>n DEF Content, IInv, TypeOK, ParserInv, Cursor, Parsed
  <2>2. base = Place(Parsed) + Begun
    BY <2>n, <2>1 DEF Content, Cursor
  <2> SUFFICES ASSUME Parsed < i PROVE FALSE
    BY <2>n, <2>1
  <2> DEFINE k == Parsed + 1
  <2>3. k \in 1 .. Len(frames) /\ frames[k].start = Place(Parsed)
    BY <2>n DEF Place
\* The parser has not gone past the body of frame k.
  <2>4. /\ base <= End(k)
        /\ base = End(k) => frames[k].size = 0
    <3>1. CASE packet.null
      <4>1. Len(head) < HeadSize /\ Begun = Len(head)
        BY <2>n, <3>1 DEF Content, IInv, ParserInv, Begun
      <4> QED
        BY <2>n, <2>2, <2>3, <4>1 DEF End
    <3>2. CASE ~packet.null
      <4>1. Len(head) = HeadSize /\ Begun = HeadSize + offset /\ packet.size = frames[k].size
            /\ (offset # 0 => offset < packet.size)
        BY <2>n, <3>2 DEF Content, IInv, ParserInv, Partial, Begun
      <4>2. /\ frames[k].size \in Nat /\ Place(Parsed) \in Nat
            /\ End(k) = Place(Parsed) + HeadSize + frames[k].size
        BY <2>n, <2>3 DEF End
      <4>3. base = Place(Parsed) + HeadSize + offset
        BY <2>n, <2>2, <4>1, <4>2
      <4>4. offset <= frames[k].size /\ (offset = frames[k].size => frames[k].size = 0)
        BY <2>n, <4>1, <4>2
      <4> QED
        BY <2>n, <4>2, <4>3, <4>4
    <3> QED
      BY <3>1, <3>2
  <2>a. /\ End(k) \in Nat /\ End(i) \in Nat /\ frames[i].start < End(i)
        /\ End(i) <= base /\ (frames[i].size = 0 => End(i) < base)
    BY <2>3, Ends DEF Content
  <2>5. CASE i = k
    <3> HIDE DEF k
    <3> QED
      BY <2>n, <2>4, <2>5, <2>a
  <2>6. CASE k < i
    <3>1. End(k) <= frames[i].start
      BY <2>3, <2>6 DEF Content, FramesAbut
    <3> HIDE DEF k
    <3> QED
      BY <2>n, <2>4, <2>a, <3>1
  <2> QED
    BY <2>n, <2>5, <2>6
<1> QED
  BY <1>1, InvariantContent, PTL

\* Wherever the bytes are cut, what OnTcpReceived is given is what the peer sent: whole,
\* in order, once, and nothing after a head TcpHead::Init refuses (tcp_head.h:22-28).
THEOREM ChannelImplemented == Spec => ImplementsChannel
<1> DEFINE sent == [i \in 1 .. Len(frames) |->
                      [body |-> Run(frames[i].start + HeadSize, frames[i].size),
                       ok   |-> frames[i].ok /\ frames[i].size <= MaxSize]]
           got == [i \in 1 .. Len(delivered) |-> [body |-> delivered[i].data, ok |-> TRUE]]
           open == pc # "closed"
<1>1. Init => Channel!Init
  BY DEF Init, Channel!Init
<1>2. ASSUME Content, [Next]_vars PROVE [Channel!Next]_(Channel!vars)
  <2>n. /\ IInv /\ Len(frames) \in Nat /\ Len(delivered) \in Nat /\ Len(all) \in Nat
        /\ Parsed \in Nat
    BY <1>2, Numbers DEF Content
  <2>1. CASE UNCHANGED vars
    BY <2>1 DEF vars, Channel!vars
  <2>2. CASE Peer
    <3>1. PICK n \in Sizes, ok \in BOOLEAN : Write(n, ok)
      BY <2>2 DEF Peer, TcpSend, ForeignSend
    <3>2. /\ Len(frames') = Len(frames) + 1 /\ UNCHANGED <<pc, delivered>>
          /\ \A i \in 1 .. Len(frames) : frames'[i] = frames[i]
      BY <2>n, <3>1 DEF Write, IInv, TypeOK
    <3>3. Len(sent') = Len(sent) + 1 /\ \A i \in 1 .. Len(sent) : sent'[i] = sent[i]
      BY <2>n, <3>2
    <3>4. SubSeq(sent', 1, Len(sent)) = sent
      <4>1. Len(sent) = Len(frames) /\ sent = [i \in 1 .. Len(sent) |-> sent[i]]
        BY <2>n
      <4>2. SubSeq(sent', 1, Len(sent)) = [i \in 1 .. Len(sent) |-> sent'[i]]
        BY <2>n, <4>1
      <4> HIDE DEF sent
      <4> QED
        BY <3>3, <4>1, <4>2
    <3>5. UNCHANGED <<got, open>>
      BY <3>2
    <3> QED
      BY <3>3, <3>4, <3>5 DEF Channel!Send, Channel!Next
  <2>3. CASE OnTcpReceived
    <3>1. /\ pc = "deliver" /\ all # <<>> /\ UNCHANGED <<frames, pc>>
          /\ delivered' = Append(delivered, Head(all))
      BY <2>3 DEF OnTcpReceived, peerVars
    <3>2. /\ Len(all) >= 1 /\ Head(all) = all[1] /\ Len(delivered') = Len(delivered) + 1
          /\ \A i \in 1 .. Len(delivered) : delivered'[i] = delivered[i]
          /\ delivered'[Len(delivered) + 1] = all[1]
      BY <2>n, <3>1 DEF IInv, TypeOK
    <3> DEFINE k == Len(delivered) + 1
    <3>3. Is(all[1], k) /\ k \in 1 .. Len(frames)
      BY <1>2, <2>n, <3>2 DEF Content, InOrder, Cursor, Parsed
    <3>4. sent[k] = [body |-> all[1].data, ok |-> TRUE]
      BY <3>3 DEF Is, Fine
    <3>5. Len(got) = Len(delivered) /\ Len(sent) = Len(frames)
      BY <2>n
    <3>6. got' = Append(got, sent[k])
      <4> DEFINE g(d) == [body |-> d.data, ok |-> TRUE]
      <4>1. got' = [i \in 1 .. k |-> g(delivered'[i])]
        BY <3>2
      <4>2. \A i \in 1 .. k : g(delivered'[i]) = IF i = k THEN sent[k] ELSE g(delivered[i])
        <5> HIDE DEF sent
        <5>1. \A i \in 1 .. k : i = k \/ i \in 1 .. Len(delivered)
          BY <2>n
        <5>2. g(delivered'[k]) = sent[k]
          BY <3>2, <3>4
        <5> HIDE DEF g, k
        <5> QED
          BY <3>2, <5>1, <5>2
      <4>3. Append(got, sent[k]) = [i \in 1 .. k |-> IF i = k THEN sent[k] ELSE g(delivered[i])]
        <5> DEFINE s == sent[k]
        <5> HIDE DEF s
        <5>1. Append(got, s) = [i \in 1 .. k |-> IF i = k THEN s ELSE g(delivered[i])]
          BY <2>n
        <5> QED
          BY <5>1 DEF s
      <4> HIDE DEF sent, got, g, k
      <4>4. [i \in 1 .. k |-> g(delivered'[i])]
              = [i \in 1 .. k |-> IF i = k THEN sent[k] ELSE g(delivered[i])]
        BY <4>2, Zenon
      <4> QED
        BY <4>1, <4>3, <4>4
    <3>7. open /\ Len(got) < Len(sent) /\ sent[Len(got) + 1].ok
      BY <2>n, <3>1, <3>3, <3>4, <3>5
    <3>8. UNCHANGED <<sent, open>>
      BY <3>1
    <3> QED
      BY <3>5, <3>6, <3>7, <3>8 DEF Channel!Deliver, Channel!Next
\* Any other step leaves both ends alone, or closes the connection.
  <2>4. ASSUME UNCHANGED <<frames, delivered>>, pc # "closed"
        PROVE  [Channel!Next]_(Channel!vars)
    <3>1. UNCHANGED <<sent, got>> /\ open
      BY <2>4
    <3>2. CASE pc' = "closed"
      BY <3>1, <3>2 DEF Channel!Close, Channel!Next
    <3>3. CASE pc' # "closed"
      BY <3>1, <3>3 DEF Channel!vars
    <3> QED
      BY <3>2, <3>3
  <2>5. CASE (\E n \in 1 .. BufferSize : Receive(n)) \/ Disconnected \/ Rearm
    BY <2>4, <2>5 DEF Receive, Disconnected, Rearm, peerVars
  <2>6. CASE OnRecv
    BY <2>4, <2>6 DEF OnRecv, ParseHeadPart, ParseHeadFull, ParseHeadSkip, ParsePacketBegin,
                      ParsePacketWhole, ParsePacketMore, peerVars, parserVars
  <2> QED
    BY <1>2, <2>1, <2>2, <2>3, <2>5, <2>6 DEF Next, OnTcpRecv
<1> QED
  BY <1>1, <1>2, InvariantContent, PTL DEF Spec, ImplementsChannel, Channel!Spec

\* Two ends of this library agree on what a packet may be, as long as its two headers do
\* (net_interface.h's limit for TcpSend is not above tcp_head.h's for a head): no head that
\* TcpSend let out makes the receiving parser give up.
THEOREM OwnPacketsNeverRefused ==
  ASSUME MaxSend <= MaxSize
  PROVE  Spec => OwnPacketsAccepted
<1>1. ASSUME Content, OwnStream, OnRecv PROVE pc' # "closed"
  <2>1. pc # "closed" /\ LoopOr("packet") # "closed" /\ LoopOr("head") # "closed"
    BY <1>1 DEF OnRecv, ParseHeadPart, ParseHeadFull, ParseHeadSkip, ParsePacketBegin,
                ParsePacketWhole, ParsePacketMore, LoopOr
  <2>2. CASE ParseHeadFull
    <3>1. PICK n \in Sizes, flag \in BOOLEAN :
            /\ HeadSays(head', n, flag)
            /\ HeadOK(n, flag) => pc' = LoopOr("packet")
      BY <2>2 DEF ParseHeadFull
    <3>2. head' = Run(Place(Parsed), HeadSize) /\ Parsed \in 0 .. Len(frames) - 1
      BY <1>1, <2>2, HeadFilled
    <3>3. n = frames[Parsed + 1].size /\ flag = frames[Parsed + 1].ok
      BY <1>1, <3>1, <3>2, HeadOfFrame
    <3>4. /\ flag = TRUE /\ n <= MaxSend
          /\ n \in Nat /\ MaxSend \in Nat /\ MaxSize \in Nat
      BY <1>1, <3>2, <3>3, ConstantsOK DEF OwnStream, Sendable
    <3> QED
      BY <2>1, <3>1, <3>4 DEF HeadOK
  <2>3. CASE ~ParseHeadFull
    BY <1>1, <2>1, <2>3 DEF OnRecv, ParseHeadPart, ParseHeadSkip, ParsePacketBegin,
                            ParsePacketWhole, ParsePacketMore
  <2> QED
    BY <2>2, <2>3
<1>2. Content /\ [Next]_vars => [OwnStream /\ OnRecv => pc' # "closed"]_vars
  BY <1>1
<1>3. Spec => []Content
  BY InitContent, NextContent, PTL DEF Spec
<1> QED
  BY <1>2, <1>3, PTL DEF Spec, OwnPacketsAccepted

=============================================================================
