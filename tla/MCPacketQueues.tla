-------------------------- MODULE MCPacketQueues --------------------------
(* Two peers that share three descriptors.  Payload names and peers are    *)
(* interchangeable.                                                        *)
EXTENDS PacketQueues, TLC

CONSTANTS p1, p2, x1, x2, x3, x4

MCPeer == {p1, p2}
MCNames == {x1, x2, x3, x4}
Symmetry == Permutations(MCPeer) \cup Permutations(MCNames)
=============================================================================
