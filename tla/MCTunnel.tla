------------------------------ MODULE MCTunnel ------------------------------
(* Instances of Tunnel for TLC: two ends, in units of REKEY_TIMEOUT (5 s).  *)
EXTENDS Tunnel, TLC

CONSTANTS A, B

MCEnd == {A, B}
MCSymmetry == Permutations(MCEnd)
=============================================================================
