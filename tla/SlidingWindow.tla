--------------------------- MODULE SlidingWindow ---------------------------
(***************************************************************************)
(* What replay protection promises: an authentic packet is delivered if    *)
(* and only if its counter was never delivered before and is not more than *)
(* the window behind the highest one delivered.                            *)
(***************************************************************************)
EXTENDS Integers

CONSTANTS Counter, Window

VARIABLES delivered, next, verdict

Init == delivered = {} /\ next = 0 /\ verdict = <<"none", 0>>

Deliver(c) ==
  /\ c \notin delivered
  /\ c + Window >= next
  /\ delivered' = delivered \cup {c}
  /\ next' = IF c >= next THEN c + 1 ELSE next
  /\ verdict' = <<"delivered", c>>

Refuse(c) ==
  /\ c \in delivered \/ c + Window < next
  /\ verdict' = <<"refused", c>>
  /\ UNCHANGED <<delivered, next>>

(* A packet that does not authenticate leaves no trace. *)
Discard(c) == verdict' = <<"forged", c>> /\ UNCHANGED <<delivered, next>>

Next == \E c \in Counter : Deliver(c) \/ Refuse(c) \/ Discard(c)

Spec == Init /\ [][Next]_<<delivered, next, verdict>>
=============================================================================
