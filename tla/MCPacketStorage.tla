--------------------------- MODULE MCPacketStorage ---------------------------
(* A small instance of PacketStorage: two packets for one receiver.        *)
EXTENDS PacketStorage

CONSTANTS p1, p2, r1

MCSameReceiver == (p1 :> r1) @@ (p2 :> r1)
=============================================================================
