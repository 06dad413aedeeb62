-------------------------- MODULE MCReplayWindow --------------------------
(* A window of three two-bit words over four-bit counters: jumps within a  *)
(* word, across words, and past the whole window all fit below the limit.  *)
(* Two receivers, interchangeable.                                         *)
EXTENDS ReplayWindow, TLC

CONSTANTS r1, r2

MCReceiver == {r1, r2}
Symmetry == Permutations(MCReceiver)
=============================================================================
