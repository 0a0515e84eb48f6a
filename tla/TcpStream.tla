----------------------------- MODULE TcpStream -----------------------------
(***************************************************************************)
(* The framed receive path of one TCP connection: TcpSocket::OnRecv and    *)
(* the parser behind it (src/tcp/tcp_socket.cpp), fed by                   *)
(* NetResMgr::OnTcpRecv (src/common/net_res_mgr.cpp) from one receive      *)
(* buffer, against a peer that writes frames of a TcpHead and a body.      *)
(*                                                                         *)
(* A byte is its position in the stream, so the content of a head or of a  *)
(* packet is the sequence of the positions copied into it: a byte lost,    *)
(* repeated or out of place shows. What a head's bytes say is what the     *)
(* peer wrote at those positions (HeadSays).                               *)
(***************************************************************************)
EXTENDS Integers, Sequences

CONSTANTS HeadSize,     \* kTcpHeadSize
          MaxSend,      \* kMaxTcpPacketSize: the most TcpSend takes
          MaxSize,      \* kMaxTcpSendPacketSize: the most a head may say
          BufferSize,   \* kTcpBufferSize: the most one receive can bring
          Sizes,        \* bound: the body sizes that frames carry
          MaxFrames     \* bound: frames written in one behaviour

ASSUME ConstantsOK == /\ HeadSize \in Nat \ {0}
                      /\ BufferSize \in Nat \ {0}
                      /\ MaxSend \in Nat /\ MaxSize \in Nat
                      /\ MaxFrames \in Nat
                      /\ Sizes \subseteq Nat

VARIABLES frames,       \* frames the peer wrote: where each starts, its size field, its flag
          sentEnd,      \* bytes the peer wrote
          base,         \* stream position of the receive buffer's first byte
          pc,           \* where the connection's only receive is (see PCs)
          size,         \* OnRecv: size
          total,        \* OnRecv: total_parsed
          head,         \* current_head_
          packet,       \* current_packet_
          offset,       \* current_packet_offset_
          all,          \* all_packets_, then the local all_packets of OnTcpRecv
          delivered     \* packets given to OnTcpReceived

peerVars   == <<frames, sentEnd>>
parserVars == <<head, packet, offset, all>>
vars == <<frames, sentEnd, base, pc, size, total, head, packet, offset, all, delivered>>

PCs == { "armed",       \* a WSARecv is pending
         "head",        \* OnRecv is about to call ParseTcpHead
         "packet",      \* OnRecv is about to call ParseTcpPacket
         "deliver",     \* OnRecv returned true, packets go to OnTcpReceived
         "closed" }     \* the socket left the table, nothing is received any more

NoPacket == [size |-> 0, owned |-> FALSE, data |-> <<>>, null |-> TRUE]
NewPacket(n) == [size |-> n, owned |-> FALSE, data |-> <<>>, null |-> FALSE]

\* n consecutive bytes of the stream, from position p.
Run(p, n) == [i \in 1 .. n |-> p + i - 1]

\* memcpy of n bytes of the stream, from position p, to d + off.
Copy(d, off, p, n) == [i \in 1 .. off + n |-> IF i <= off THEN d[i] ELSE p + (i - off) - 1]

-----------------------------------------------------------------------------
(* The peer.                                                               *)

Write(n, ok) ==
  /\ Len(frames) < MaxFrames
  /\ frames' = Append(frames, [start |-> sentEnd, size |-> n, ok |-> ok])
  /\ sentEnd' = sentEnd + HeadSize + n
  /\ UNCHANGED <<base, pc, size, total, parserVars, delivered>>

\* NetResMgr::TcpSend at the peer: head and body leave in one WSASend.
Sendable(n) == 0 < n /\ n <= MaxSend
TcpSend(n)  == Sendable(n) /\ Write(n, TRUE)

\* A peer that is not this library may send an empty packet, a size beyond the
\* limit or a wrong flag.
ForeignSend(n, ok) == Write(n, ok)

-----------------------------------------------------------------------------
(* NetResMgr::OnTcpRecv, called with the size of a completed receive.      *)

\* Some bytes of the stream, cut anywhere.
Receive(n) ==
  /\ pc = "armed"
  /\ 0 < n /\ n <= BufferSize /\ n <= sentEnd - base
  /\ size' = n
  /\ total' = 0
  /\ pc' = "head"
  /\ UNCHANGED <<peerVars, base, parserVars, delivered>>

\* Size 0: the peer closed the connection or the receive failed.
Disconnected ==
  /\ pc = "armed"
  /\ pc' = "closed"
  /\ UNCHANGED <<peerVars, base, size, total, parserVars, delivered>>

\* One iteration of the loop over all_packets.
OnTcpReceived ==
  /\ pc = "deliver"
  /\ all # <<>>
  /\ delivered' = Append(delivered, Head(all))
  /\ all' = Tail(all)
  /\ UNCHANGED <<peerVars, base, pc, size, total, head, packet, offset>>

\* ResetBuffer and AsyncTcpRecv: the buffer is armed again, or that fails and
\* OnTcpError takes the socket out of the table.
Rearm ==
  /\ pc = "deliver"
  /\ all = <<>>
  /\ base' = base + size
  /\ size' = 0
  /\ total' = 0
  /\ pc' \in {"armed", "closed"}
  /\ UNCHANGED <<peerVars, parserVars, delivered>>

-----------------------------------------------------------------------------
(* TcpSocket::OnRecv.                                                      *)

\* What TcpHead::Init reads from the bytes h: the frame whose head they are. Bytes
\* that are no frame's head could say anything.
HeadSays(h, n, flag) ==
  IF \E i \in 1 .. Len(frames) : h = Run(frames[i].start, HeadSize)
  THEN \E i \in 1 .. Len(frames) :
         h = Run(frames[i].start, HeadSize) /\ n = frames[i].size /\ flag = frames[i].ok
  ELSE TRUE

\* Mutant: the flag is not compared.
HeadOKAnyFlag(n, flag) == n <= MaxSize

\* Mutant: the limit itself is refused.
HeadOKBelow(n, flag) == flag /\ n < MaxSize

\* TcpHead::Init(data, size).
HeadOK(n, flag) == flag /\ n <= MaxSize

\* Mutant: one pass instead of the while loop.
LoopOnce(next) == IF next = "packet" /\ total' < size THEN next ELSE "deliver"

\* The loop goes round while bytes are left.
LoopOr(next) == IF total' < size THEN next ELSE "deliver"

\* Mutant: the bytes already in current_head_ are not counted.
LeftHeadUncounted == HeadSize

\* left_head_size.
LeftHead == HeadSize - Len(head)

\* Mutant: a body whose last byte is the data's last byte is left for later.
ShortOrEven(avail, left) == avail <= left

\* The data ends before the rest of the body does.
Short(avail, left) == avail < left

\* Mutant: current_packet_offset_ keeps what the last body left in it.
PrepareStale(n) == packet' = NewPacket(n) /\ UNCHANGED offset

\* ResetCurrentPacket, once the head was read.
Prepare(n) == packet' = NewPacket(n) /\ offset' = 0

\* ParseTcpHead with too few bytes to fill the head.
ParseHeadPart ==
  LET avail == size - total IN
  /\ pc = "head"
  /\ Len(head) < HeadSize
  /\ Short(avail, LeftHead)
  /\ head' = Copy(head, Len(head), base + total, avail)
  /\ total' = total + avail
  /\ pc' = LoopOr("packet")
  /\ UNCHANGED <<peerVars, base, size, packet, offset, all, delivered>>

\* ParseTcpHead with enough bytes: the head is complete, ResetCurrentPacket reads it
\* and either prepares the packet or fails. A failure makes OnTcpRecv return the
\* buffer and take the socket out of the table through OnTcpError.
ParseHeadFull ==
  /\ pc = "head"
  /\ Len(head) < HeadSize
  /\ ~Short(size - total, LeftHead)
  /\ head' = Copy(head, Len(head), base + total, LeftHead)
  /\ total' = total + LeftHead
  /\ \E n \in Sizes, flag \in BOOLEAN :
       /\ HeadSays(head', n, flag)
       /\ IF HeadOK(n, flag)
          THEN Prepare(n) /\ pc' = LoopOr("packet")
          ELSE UNCHANGED <<packet, offset>> /\ pc' = "closed"
  /\ UNCHANGED <<peerVars, base, size, all, delivered>>

\* ParseTcpHead when the head was already complete.
ParseHeadSkip ==
  /\ pc = "head"
  /\ Len(head) = HeadSize
  /\ pc' = "packet"
  /\ UNCHANGED <<peerVars, base, size, total, parserVars, delivered>>

\* Mutant: ResetCurrentHead is not called.
PushKeepingHead(p) ==
  /\ all' = Append(all, p)
  /\ packet' = NoPacket
  /\ UNCHANGED <<head, offset>>

\* The packet p is complete: push it, forget it and reset the head.
Push(p) ==
  /\ all' = Append(all, p)
  /\ packet' = NoPacket
  /\ head' = <<>>
  /\ UNCHANGED offset

\* Mutant: the packet points into the receive buffer although its body goes on.
KeptBorrowed(n) == [packet EXCEPT !.data = Copy(<<>>, 0, base + total, n)]

\* new char[size_], a deleter and memcpy of the first n bytes.
Kept(n) == [packet EXCEPT !.owned = TRUE, !.data = Copy(<<>>, 0, base + total, n)]

\* ParseTcpPacket, packet begin, body longer than the data: copy what there is.
ParsePacketBegin ==
  LET avail == size - total IN
  /\ pc = "packet"
  /\ offset = 0
  /\ Short(avail, packet.size)
  /\ packet' = Kept(avail)
  /\ offset' = avail
  /\ total' = total + avail
  /\ pc' = LoopOr("head")
  /\ UNCHANGED <<peerVars, base, size, head, all, delivered>>

\* ParseTcpPacket, packet begin, whole body in the data: the packet borrows it.
ParsePacketWhole ==
  /\ pc = "packet"
  /\ offset = 0
  /\ ~Short(size - total, packet.size)
  /\ Push([packet EXCEPT !.data = Run(base + total, packet.size)])
  /\ total' = total + packet.size
  /\ pc' = LoopOr("head")
  /\ UNCHANGED <<peerVars, base, size, delivered>>

\* ParseTcpPacket, body continued. (With no byte left, or a packet that borrows, the code
\* logs an assertion and parses nothing: see AssertMustBeTrue.)
ParsePacketMore ==
  LET left  == packet.size - offset
      avail == size - total
  IN
  /\ pc = "packet"
  /\ offset # 0
  /\ left > 0 /\ packet.owned
  /\ IF Short(avail, left)
     THEN /\ packet' = [packet EXCEPT !.data = Copy(packet.data, offset, base + total, avail)]
          /\ offset' = offset + avail
          /\ total' = total + avail
          /\ UNCHANGED <<head, all>>
     ELSE /\ Push([packet EXCEPT !.data = Copy(packet.data, offset, base + total, left)])
          /\ total' = total + left
  /\ pc' = LoopOr("head")
  /\ UNCHANGED <<peerVars, base, size, delivered>>

OnRecv == \/ ParseHeadPart \/ ParseHeadFull \/ ParseHeadSkip
          \/ ParsePacketBegin \/ ParsePacketWhole \/ ParsePacketMore

-----------------------------------------------------------------------------
Init ==
  /\ frames = <<>> /\ sentEnd = 0
  /\ base = 0 /\ pc = "armed" /\ size = 0 /\ total = 0
  /\ head = <<>> /\ packet = NoPacket /\ offset = 0 /\ all = <<>>
  /\ delivered = <<>>

Peer == \/ \E n \in Sizes : TcpSend(n)
        \/ \E n \in Sizes, ok \in BOOLEAN : ForeignSend(n, ok)

OnTcpRecv == (\E n \in 1 .. BufferSize : Receive(n)) \/ Disconnected \/ OnTcpReceived \/ Rearm

Next == Peer \/ OnTcpRecv \/ OnRecv

Spec == Init /\ [][Next]_vars

\* Bytes that were sent arrive, and worker threads keep running: the kernel completes a
\* receive for which there are bytes, and no step of a handler is put off for ever. A
\* disconnection need not happen.
Fairness == /\ WF_vars(\E n \in 1 .. BufferSize : Receive(n))
            /\ WF_vars(OnRecv)
            /\ WF_vars(OnTcpReceived)
            /\ WF_vars(Rearm)

LiveSpec == Spec /\ Fairness

-----------------------------------------------------------------------------
(* Properties.                                                             *)

Packets == [size : Nat, owned : BOOLEAN, data : Seq(Nat), null : BOOLEAN]

\* Every variable has its type and every cursor is within what it walks over: OnRecv
\* never parses past the data it was given, the head never outgrows TcpHead and the
\* packet's copy never outgrows what ResetCurrentPacket read as its size.
TypeOK ==
  /\ frames \in Seq([start : Nat, size : Sizes, ok : BOOLEAN])
  /\ sentEnd \in Nat
  /\ base \in Nat
  /\ pc \in PCs
  /\ size \in 0 .. BufferSize
  /\ total \in 0 .. size
  /\ head \in Seq(Nat) /\ Len(head) <= HeadSize
  /\ packet \in Packets /\ Len(packet.data) <= packet.size
  /\ offset \in Nat
  /\ all \in Seq(Packets)
  /\ delivered \in Seq(Packets)

\* tcp_socket.cpp:304 says "assert: must be true" of left_packet_size > 0 and a packet
\* that owns its memory, when a body is continued; and ParseTcpPacket, which reads
\* current_packet_ without a test, always finds one. If it were false ParseTcpPacket
\* would parse nothing and OnRecv's loop would never end.
AssertMustBeTrue ==
  pc = "packet" => /\ ~packet.null
                   /\ offset # 0 => packet.size - offset > 0 /\ packet.owned

\* A packet that lies in the receive buffer never outlives the call that parsed it: when
\* the buffer is armed again, what the socket keeps of a body is its own copy.
NoBorrowAcrossRecv ==
  pc = "armed" => /\ all = <<>>
                  /\ packet.data # <<>> => packet.owned

\* The head and the packet agree: a complete head is the head of a prepared packet, a
\* packet that has begun owns its memory and has copied exactly up to the offset, which
\* is short of its end. (Inductive with TypeOK; the two invariants above follow from it.)
ParserInv ==
  /\ pc # "closed" => (Len(head) = HeadSize <=> ~packet.null)
  /\ packet.null => packet = NoPacket
  /\ ~packet.null => /\ Len(packet.data) = offset
                     /\ offset # 0 => packet.owned /\ offset < packet.size
  /\ pc = "packet" => Len(head) = HeadSize
  /\ pc = "armed" => all = <<>>

\* No packet is withheld: when the next receive is armed, every frame whose bytes have
\* all been received was delivered. (An empty packet needs one byte more: ParseTcpPacket
\* is only called when bytes follow the head.)
NothingWithheld ==
  pc = "armed" =>
    \A i \in 1 .. Len(frames) :
      LET end == frames[i].start + HeadSize + frames[i].size IN
      end <= base /\ (frames[i].size = 0 => end < base) => i <= Len(delivered)

Channel == INSTANCE PacketChannel WITH
  sent <- [i \in 1 .. Len(frames) |->
             [body |-> Run(frames[i].start + HeadSize, frames[i].size),
              ok   |-> frames[i].ok /\ frames[i].size <= MaxSize]],
  got  <- [i \in 1 .. Len(delivered) |-> [body |-> delivered[i].data, ok |-> TRUE]],
  open <- pc # "closed"

\* Whatever the cuts, the bodies given to OnTcpReceived are the bodies the peer sent,
\* whole, in order and once, and nothing follows a head the parser must refuse.
ImplementsChannel == Channel!Spec

\* What a peer that is this library has sent.
OwnStream == \A i \in 1 .. Len(frames) : frames[i].ok /\ Sendable(frames[i].size)

\* And from a peer that is this library, which sends no empty packet, every one of them is
\* given to OnTcpReceived while the connection lasts.
DeliversEverything == []OwnStream => Channel!Progress

\* Two ends of this library agree on what a packet may be: no head that TcpSend let out
\* (kMaxTcpPacketSize, net_interface.h:23) makes the receiving parser give up, at its own
\* limit (kMaxTcpSendPacketSize, tcp_head.h:9), wherever the bytes were cut.
OwnPacketsAccepted == [][OwnStream /\ OnRecv => pc' # "closed"]_vars
=============================================================================
