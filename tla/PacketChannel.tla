--------------------------- MODULE PacketChannel ---------------------------
(***************************************************************************)
(* What one direction of a framed connection promises its application,     *)
(* whatever the boundaries at which the transport cuts the bytes: packets  *)
(* come out whole, in the order they were sent, each at most once, and     *)
(* none after a packet the receiver must refuse.                           *)
(***************************************************************************)
EXTENDS Naturals, Sequences

VARIABLES sent,             \* every packet sent so far, in order: records with a field ok
          got,              \* every packet handed to the application, in order
          open              \* the receiver still receives

vars == <<sent, got, open>>

Init == sent = <<>> /\ got = <<>> /\ open = TRUE

Send == /\ Len(sent') = Len(sent) + 1
        /\ SubSeq(sent', 1, Len(sent)) = sent
        /\ UNCHANGED <<got, open>>

\* The next packet in order, and only an acceptable one.
Deliver == /\ open
           /\ Len(got) < Len(sent)
           /\ sent[Len(got) + 1].ok
           /\ got' = Append(got, sent[Len(got) + 1])
           /\ UNCHANGED <<sent, open>>

\* A refused packet, a disconnection or an error ends the reception for good.
Close == open /\ open' = FALSE /\ UNCHANGED <<sent, got>>

Next == Send \/ Deliver \/ Close

Spec == Init /\ [][Next]_vars

\* A channel that stays open delivers every acceptable packet.
Progress == WF_vars(Deliver)
=============================================================================
