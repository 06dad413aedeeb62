--------------------------- MODULE PendingQueues ---------------------------
(***************************************************************************)
(* What the packet pool and the per-peer queues promise together: one      *)
(* FIFO of packets per peer, a packet being a payload and the instant it   *)
(* was queued.  PacketQueues implements this with intrusive lists in one   *)
(* shared table.                                                           *)
(***************************************************************************)
EXTENDS Integers, Sequences

CONSTANTS Peer, Payload, MAX_PENDING_PACKETS, PENDING_PACKET_TTL

VARIABLES
  queues,   \* peer -> sequence of packets waiting for a session
  clock

(* The packets of q that have not expired at t, in their order. *)
Fresh(q, t) ==
  LET kept[i \in 0..Len(q)] ==
        IF i = 0 THEN <<>>
        ELSE IF t - q[i].queued_at < PENDING_PACKET_TTL THEN Append(kept[i - 1], q[i])
        ELSE kept[i - 1]
  IN  kept[Len(q)]

Init == queues = [p \in Peer |-> <<>>] /\ clock = 0

AllFresh == [p \in Peer |-> Fresh(queues[p], clock)]

(* Expired packets make room; the packet itself may still be refused, which *)
(* is Expire.                                                               *)
Queue(p) ==
  /\ UNCHANGED clock
  /\ Len(AllFresh[p]) < MAX_PENDING_PACKETS
  /\ \E payload \in Payload :
       queues' = [AllFresh EXCEPT ![p] = Append(@, [payload |-> payload, queued_at |-> clock])]

(* The oldest packets of p that have not expired are sent, in their order. *)
Send(p) ==
  /\ \E k \in 1..Len(AllFresh[p]) :
       queues' = [AllFresh EXCEPT ![p] = SubSeq(@, k + 1, Len(@))]
  /\ UNCHANGED clock

(* A tick: what has expired goes, and the queues of peers given up. *)
Expire ==
  /\ \E gone \in SUBSET Peer :
       queues' = [p \in Peer |-> IF p \in gone THEN <<>> ELSE AllFresh[p]]
  /\ UNCHANGED clock

Drop(p) == queues' = [queues EXCEPT ![p] = <<>>] /\ UNCHANGED clock

Wait == clock' > clock /\ UNCHANGED queues

Next ==
  \/ Wait
  \/ \E p \in Peer : Drop(p) \/ Send(p)
  \/ Expire
  \/ \E p \in Peer : Queue(p)

Spec == Init /\ [][Next]_<<queues, clock>>
=============================================================================
