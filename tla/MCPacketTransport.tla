-------------------------- MODULE MCPacketTransport --------------------------
(* Small instances of PacketTransport: one client sends every packet to    *)
(* another one.                                                            *)
EXTENDS PacketTransport, TLC

CONSTANTS alice, bob, p1, p2

MCFromAlice == [p \in Packets |-> alice]
MCToBob == [p \in Packets |-> bob]

\* Who connects how often, and whose connection breaks: the sender's while the receiver stays
\* away; or that of either, with a connection left after every break.
MCNoReceiver == (alice :> 2) @@ (bob :> 0)
MCSenderBreaksTwice == (alice :> 2) @@ (bob :> 0)
MCBothBack == (alice :> 3) @@ (bob :> 2)
MCEachOnce == (alice :> 1) @@ (bob :> 1)

\* The packets have the same route, so they can be exchanged.
MCSymmetry == Permutations(Packets)
=============================================================================
