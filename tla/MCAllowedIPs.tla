---------------------------- MODULE MCAllowedIPs ----------------------------
(* Three-bit addresses and two payloads, which are interchangeable.  The   *)
(* default route and the prefixes of one half of the addresses are         *)
(* inserted; lookups and overlaps are asked for all.                       *)
EXTENDS AllowedIPs, TLC

CONSTANTS d1, d2

MCData == {d1, d2}
MCRoutes == {<<>>} \cup {p \in Prefix : Len(p) > 0 /\ p[1] = 0}
Symmetry == Permutations(MCData)
=============================================================================
