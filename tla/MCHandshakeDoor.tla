-------------------------- MODULE MCHandshakeDoor --------------------------
(* Four units to the second, so that the ticker's two ticks to a reset are  *)
(* two units apart; the whitener keeps halves of a second.                  *)
EXTENDS HandshakeDoor, TLC

AddressSymmetry == Permutations(Address)
=============================================================================
