------------------------------ MODULE MCRelay ------------------------------
(* Two devices that talk, a and b, and two that relay, r1 and r2. *)
EXTENDS Relay

CONSTANTS a, b, r1, r2

MCNode == {a, b, r1, r2}
MCTalkers == {a, b}

(* Talkers go direct or through either relay, and either relay may be the   *)
(* other's next hop for a talker; nobody relays to the relays.              *)
Talk == [ab : {Absent, r1}, ba : {Absent, r1, r2}, r1a : {Absent, r2}, r1b : {Absent, r2},
         r2a : {Absent, r1}, r2b : {Absent, r1}]
Table(t) ==
  [n \in MCNode |-> [d \in MCNode |->
     CASE n = a /\ d = b -> t.ab [] n = b /\ d = a -> t.ba
       [] n = r1 /\ d = a -> t.r1a [] n = r1 /\ d = b -> t.r1b
       [] n = r2 /\ d = a -> t.r2a [] n = r2 /\ d = b -> t.r2b
       [] OTHER -> Absent]]
MCRoutings == {Table(t) : t \in Talk}

(* The relays are alike: a uses the first, and the second may refuse. *)
MCAllow == {{r1}, {r1, r2}}
=============================================================================
