-------------------------- MODULE IndexGenerator --------------------------
(***************************************************************************)
(* index.rs: peer indexes come from a Galois LFSR that runs through every  *)
(* non-zero value once, shifted down by one and masked, with the one zero  *)
(* this makes replaced by the one value it leaves out.  The code's 24 bits *)
(* are BITS here.  A device owns its generator, so that the atomics of one *)
(* call are one step.                                                      *)
(***************************************************************************)
EXTENDS Integers

CONSTANTS
  BITS, LFSR_POLY,
  RandomIndexes    \* what random_index may return

(* BITS ones. *)
LFSR_MAX ==
  LET ones[i \in 0..BITS] == IF i = 0 THEN 0 ELSE 2 * ones[i - 1] + 1
  IN  ones[BITS]

(* a >> i *)
Shifted(a) ==
  LET s[i \in 0..BITS] == IF i = 0 THEN a ELSE s[i - 1] \div 2
  IN  s

(* a ^ b, from the highest bit down: x[i] is what the i highest bits make. *)
Xor(a, b) ==
  LET x[i \in 0..BITS] ==
        IF i = 0 THEN 0
        ELSE 2 * x[i - 1] + ((Shifted(a)[BITS - i] + Shifted(b)[BITS - i]) % 2)
  IN  x[BITS]

step(state) ==
  IF state % 2 = 1 THEN Xor(state \div 2, LFSR_POLY) ELSE state \div 2

(* The states from seed on. *)
Orbit(seed) ==
  LET state[n \in 0..LFSR_MAX] == IF n = 0 THEN seed ELSE step(state[n - 1])
  IN  state

(* The highest bit is a tap. *)
ASSUME LfsrAssumption ==
  /\ BITS \in Nat \ {0} /\ LFSR_POLY \in 1..LFSR_MAX /\ LFSR_MAX \div 2 < LFSR_POLY
  /\ RandomIndexes \subseteq 1..LFSR_MAX

(* No state comes back before all have been visited, as with the code's     *)
(* polynomial 0xd80000 and its 24 bits.                                     *)
ASSUME PeriodAssumption ==
  \A seed \in 1..LFSR_MAX : \A n \in 1..LFSR_MAX - 1 : Orbit(seed)[n] # seed

(* A generator after `initialize`: seed and mask are random and not zero. *)
Initialized ==
  {[lfsr |-> seed, remaining |-> LFSR_MAX, mask |-> mask] :
     seed \in RandomIndexes, mask \in RandomIndexes}

(* Without an index left new_index panics. *)
CanDraw(g) == g.remaining > 0

IndexUnshifted(g) ==   \* mutant: the state itself is masked
  LET index == Xor(g.lfsr, g.mask) IN IF index = 0 THEN Xor(LFSR_MAX, g.mask) ELSE index

new_index(g) ==
  LET index == Xor(g.lfsr - 1, g.mask) IN IF index = 0 THEN Xor(LFSR_MAX, g.mask) ELSE index

Drawn(g) == [g EXCEPT !.lfsr = step(@), !.remaining = @ - 1]
=============================================================================
