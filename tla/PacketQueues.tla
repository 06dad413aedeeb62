---------------------------- MODULE PacketQueues ----------------------------
(***************************************************************************)
(* packet_pool.rs and the queue half of noise/mod.rs: every peer's pending *)
(* packets are an intrusive singly linked list through one table of        *)
(* descriptors shared by all peers.  The pool has two builds.  With an     *)
(* allocator the table grows and a packet owns its bytes; without, the     *)
(* table is fixed and the bytes are a stretch of one arena.                *)
(*                                                                         *)
(* Handles are 1..N and None is 0.  A packet's payload is a name that no   *)
(* other packet in the table has, so that order can be observed.  The      *)
(* bytes of the arena are not kept: alloc writes them where find_gap says, *)
(* and they stay as long as no two live stretches meet (PoolAccounts).     *)
(***************************************************************************)
EXTENDS Integers, Sequences, FiniteSets, SequencesExt, FiniteSetsExt

CONSTANTS
  Peer,
  N,                    \* descriptors (32..512 in the code)
  BYTES,                \* total bytes of queued data
  Sizes,                \* packet lengths that occur
  Names,                \* payload names, more than N
  MAX_PENDING_PACKETS,  \* 8 in the code
  PENDING_PACKET_TTL,   \* 30 s
  MaxTime               \* bound on the clock

ASSUME PoolAssumption ==
  /\ IsFiniteSet(Peer) /\ N \in Nat \ {0} /\ BYTES \in Nat
  /\ Sizes \subseteq Nat /\ Cardinality(Names) > N
  /\ MAX_PENDING_PACKETS \in Nat \ {0}
  /\ PENDING_PACKET_TTL \in Nat \ {0}
  /\ MaxTime \in Nat

None == 0
Handle == 1..N
Free == [name |-> None]

VARIABLES
  build,      \* "alloc" or "no_alloc", chosen once
  pool,       \* with an allocator [slots, free, used_bytes], without [slots]
  queue,      \* peer -> [head, tail, len]
  installed,  \* the peers the device has
  session,    \* the peers whose current session can encrypt
  now,
  leaked      \* history: descriptors whose peer was removed

vars == <<build, pool, queue, installed, session, now, leaked>>

EmptyQueue == [head |-> None, tail |-> None, len |-> 0]

(* With an allocator slots is the table up to its high-water mark: a        *)
(* descriptor beyond it has never been used.                                *)
Init ==
  /\ \/ build = "alloc" /\ pool = [slots |-> <<>>, free |-> <<>>, used_bytes |-> 0]
     \/ build = "no_alloc" /\ pool = [slots |-> [h \in Handle |-> Free]]
  /\ queue = [p \in Peer |-> EmptyQueue]
  /\ installed = Peer
  /\ session = {}
  /\ now = 0
  /\ leaked = {}
-----------------------------------------------------------------------------
(* PacketPool, with an allocator *)

CanAllocVec(pl, size) ==
  /\ pl.used_bytes + size <= BYTES
  /\ pl.free # <<>> \/ Len(pl.slots) < N

VecSlot(pl) == IF pl.free # <<>> THEN Last(pl.free) ELSE Len(pl.slots) + 1

AllocVec(pl, slot) ==
  LET h == VecSlot(pl)
  IN  [slots |-> IF h = Len(pl.slots) + 1 THEN Append(pl.slots, slot)
                 ELSE [pl.slots EXCEPT ![h] = slot],
       free |-> IF pl.free # <<>> THEN Front(pl.free) ELSE <<>>,
       used_bytes |-> pl.used_bytes + slot.size]

FreeVec(pl, h) ==
  [slots |-> [pl.slots EXCEPT ![h] = Free],
   free |-> Append(pl.free, h),
   used_bytes |-> pl.used_bytes - pl.slots[h].size]

IsLive(pl, h) == h \in DOMAIN pl.slots /\ pl.slots[h] # Free
Live(pl) == {h \in DOMAIN pl.slots : IsLive(pl, h)}
-----------------------------------------------------------------------------
(* PacketPool, without an allocator *)

(* The stretch of size bytes from start meets that of slot h. *)
MeetsStart(pl, h, start, size) ==   \* mutant: only the first byte is looked at
  start >= pl.slots[h].offset /\ start < pl.slots[h].offset + pl.slots[h].size

Meets(pl, h, start, size) ==
  /\ start < pl.slots[h].offset + pl.slots[h].size
  /\ start + size > pl.slots[h].offset

(* find_gap's loop: the first descriptor in the way sends it past that      *)
(* packet's end.  It passes each live packet at most once.                  *)
GapStep(pl, start, size) ==
  LET in_the_way == {h \in Live(pl) : Meets(pl, h, start, size)}
  IN  IF start + size > BYTES \/ in_the_way = {} THEN start
      ELSE pl.slots[Min(in_the_way)].offset + pl.slots[Min(in_the_way)].size

find_gap(pl, size) ==
  LET run[i \in 0..N] == IF i = 0 THEN 0 ELSE GapStep(pl, run[i - 1], size)
  IN  run[N]

Unused(pl) == Handle \ Live(pl)

CanAllocArena(pl, size) == Unused(pl) # {} /\ find_gap(pl, size) + size <= BYTES

AllocArena(pl, slot) ==
  [pl EXCEPT !.slots[Min(Unused(pl))] =
     [name |-> slot.name, next |-> None, queued_at |-> slot.queued_at, size |-> slot.size,
      offset |-> find_gap(pl, slot.size)]]

FreeArena(pl, h) == [pl EXCEPT !.slots[h] = Free]
-----------------------------------------------------------------------------
(* PacketPool, either build *)

CanAlloc(pl, size) ==
  IF build = "alloc" THEN CanAllocVec(pl, size) ELSE CanAllocArena(pl, size)

free_slot(pl) == IF build = "alloc" THEN VecSlot(pl) ELSE Min(Unused(pl))

alloc(pl, name, size) ==
  LET slot == [name |-> name, next |-> None, queued_at |-> now, size |-> size]
  IN  IF build = "alloc" THEN AllocVec(pl, slot) ELSE AllocArena(pl, slot)

free(pl, h) == IF build = "alloc" THEN FreeVec(pl, h) ELSE FreeArena(pl, h)

set_next(pl, h, next) == [pl EXCEPT !.slots[h].next = next]
-----------------------------------------------------------------------------
(* The loops.  A list has at most N cells, so N iterations reach its end;   *)
(* an iteration past the end changes nothing.                               *)

FreeChainStep(acc) ==
  IF acc.head = None THEN acc
  ELSE [pool |-> free(set_next(acc.pool, acc.head, None), acc.head),
        head |-> acc.pool.slots[acc.head].next]

free_chain(pl, head) ==
  LET run[i \in 0..N] == IF i = 0 THEN [pool |-> pl, head |-> head]
                         ELSE FreeChainStep(run[i - 1])
  IN  run[N].pool

UnlinkKeepingTail(acc, next) ==   \* mutant: the tail is left on a freed cell
  LET h == acc.current
      relinked == IF acc.prev # None THEN set_next(acc.pool, acc.prev, next) ELSE acc.pool
  IN  [pool |-> free(set_next(relinked, h, None), h),
       queue |-> [acc.queue EXCEPT !.head = IF acc.prev # None THEN @ ELSE next,
                                   !.len = @ - 1],
       prev |-> acc.prev, current |-> next]

(* The expired cell under the cursor is unlinked and freed. *)
Unlink(acc, next) ==
  LET h == acc.current
      relinked == IF acc.prev # None THEN set_next(acc.pool, acc.prev, next) ELSE acc.pool
  IN  [pool |-> free(set_next(relinked, h, None), h),
       queue |-> [head |-> IF acc.prev # None THEN acc.queue.head ELSE next,
                  tail |-> IF acc.queue.tail = h THEN acc.prev ELSE acc.queue.tail,
                  len |-> acc.queue.len - 1],
       prev |-> acc.prev, current |-> next]

ExpiredLate(slot) == now - slot.queued_at > PENDING_PACKET_TTL   \* mutant: off by one

Expired(slot) == now - slot.queued_at >= PENDING_PACKET_TTL

DropStep(acc) ==
  IF acc.current = None THEN acc
  ELSE LET slot == acc.pool.slots[acc.current]
       IN  IF Expired(slot) THEN Unlink(acc, slot.next)
           ELSE [acc EXCEPT !.prev = acc.current, !.current = slot.next]

drop_expired_queued_packets(pl, q) ==
  LET run[i \in 0..N] ==
        IF i = 0 THEN [pool |-> pl, queue |-> q, prev |-> None, current |-> q.head]
        ELSE DropStep(run[i - 1])
  IN  run[N]
-----------------------------------------------------------------------------
(* Tunn: the queue of one peer.  Each maps [pool, queue] to [pool, queue].  *)

push_back(st, h) ==
  [pool |-> IF st.queue.tail # None THEN set_next(st.pool, st.queue.tail, h) ELSE st.pool,
   queue |-> [head |-> IF st.queue.tail # None THEN st.queue.head ELSE h,
              tail |-> h, len |-> st.queue.len + 1]]

(* queue_packet: expired packets first, then the two limits. *)
queue_packet(st, name, size) ==
  LET kept == drop_expired_queued_packets(st.pool, st.queue)
  IN  IF kept.queue.len >= MAX_PENDING_PACKETS \/ ~CanAlloc(kept.pool, size)
      THEN kept
      ELSE push_back([pool |-> alloc(kept.pool, name, size), queue |-> kept.queue],
                     free_slot(kept.pool))

dequeue_packet(st) ==
  LET next == st.pool.slots[st.queue.head].next
  IN  [pool |-> set_next(st.pool, st.queue.head, None),
       queue |-> [head |-> next,
                  tail |-> IF next = None THEN None ELSE st.queue.tail,
                  len |-> st.queue.len - 1]]

RequeueAtBack(st, h) == push_back(st, h)   \* mutant: order is lost

requeue_packet(st, h) ==
  IF st.queue.len >= MAX_PENDING_PACKETS
  THEN [pool |-> free(st.pool, h), queue |-> st.queue]
  ELSE [pool |-> set_next(st.pool, h, st.queue.head),
        queue |-> [head |-> h,
                   tail |-> IF st.queue.tail = None THEN h ELSE st.queue.tail,
                   len |-> st.queue.len + 1]]

State(p) == [pool |-> pool, queue |-> queue[p]]

(* drop_expired_packet_queues: the queues of all the peers, before every    *)
(* packet from the interface or the socket and for every peer of a tick.    *)
DropInto(p, acc) ==
  LET kept == drop_expired_queued_packets(acc.pool, acc.queue[p])
  IN  [pool |-> kept.pool, queue |-> [acc.queue EXCEPT ![p] = kept.queue]]

drop_expired_packet_queues(acc) == FoldSet(DropInto, acc, installed)

Swept == drop_expired_packet_queues([pool |-> pool, queue |-> queue])
SweptState(p) == [pool |-> Swept.pool, queue |-> Swept.queue[p]]

(* The pool and the queue of p become st, after a sweep of the others. *)
SetState(p, st) == pool' = st.pool /\ queue' = [Swept.queue EXCEPT ![p] = st.queue]

(* flush_queued_packet: the head is sent, or requeued when the current      *)
(* session has no nonce for it.                                             *)
flush_queued_packet(st, can_send) ==
  LET h == st.queue.head
      taken == dequeue_packet(st)
  IN  CASE h = None -> st
        [] h # None /\ can_send -> [taken EXCEPT !.pool = free(@, h)]
        [] h # None /\ ~can_send -> requeue_packet(taken, h)

(* The device's loop over it; nonces is what the session has left. *)
flush_queued_packets(st, nonces) ==
  LET run[i \in 0..nonces] == IF i = 0 THEN st ELSE flush_queued_packet(run[i - 1], TRUE)
  IN  flush_queued_packet(run[nonces], FALSE)
-----------------------------------------------------------------------------
(* A packet for p, from the interface or, wrapped for its relay p, for      *)
(* another peer: it waits when p's current session cannot encrypt it.       *)
Encapsulate(p, name, size) ==
  /\ p \in installed \ session
  /\ \A h \in Live(pool) : pool.slots[h].name # name
  /\ SetState(p, queue_packet(SweptState(p), name, size))
  /\ UNCHANGED <<installed, session, now, leaked>>

(* A handshake with p completes and its queue is flushed: whole, or as far  *)
(* as the nonces of the current session reach.                              *)
HandleHandshake(p) ==
  /\ p \in installed
  /\ \E nonces \in 0..MAX_PENDING_PACKETS :
       /\ SetState(p, flush_queued_packets(SweptState(p), nonces))
       /\ session' = IF nonces >= Swept.queue[p].len THEN session \cup {p} ELSE session \ {p}
  /\ UNCHANGED <<installed, now, leaked>>

(* handle_timer_tick: peers in gone give the handshake up. *)
TickPeer(p, acc, gone) ==
  LET kept == drop_expired_packet_queues(acc)
  IN  IF p \in gone
      THEN [pool |-> free_chain(kept.pool, kept.queue[p].head),
            queue |-> [kept.queue EXCEPT ![p] = EmptyQueue]]
      ELSE kept

TimerTick ==
  /\ \E gone \in SUBSET installed :
       LET ticked == FoldSet(LAMBDA p, acc : TickPeer(p, acc, gone),
                             [pool |-> pool, queue |-> queue], installed)
       IN  pool' = ticked.pool /\ queue' = ticked.queue
  /\ UNCHANGED <<installed, session, now, leaked>>

(* The cells reached from p's head. *)
ChainStep(acc) ==
  IF acc.at = None THEN acc
  ELSE [seq |-> Append(acc.seq, acc.at), at |-> pool.slots[acc.at].next]

Chain(p) ==
  LET run[i \in 0..N] == IF i = 0 THEN [seq |-> <<>>, at |-> queue[p].head]
                         ELSE ChainStep(run[i - 1])
  IN  run[N].seq

(* remove_peer_from_state drops the tunnel and with it the list head; a     *)
(* peer added later starts with an empty queue.                             *)
RemovePeer(p) ==
  /\ p \in installed
  /\ installed' = installed \ {p}
  /\ session' = session \ {p}
  /\ leaked' = leaked \cup Range(Chain(p))
  /\ queue' = [queue EXCEPT ![p] = EmptyQueue]
  /\ UNCHANGED <<pool, now>>

AddPeer(p) ==
  /\ p \notin installed
  /\ installed' = installed \cup {p}
  /\ UNCHANGED <<pool, queue, session, now, leaked>>

(* The current session is exhausted or expires (module Tunnel). *)
SessionDown(p) ==
  /\ p \in session
  /\ session' = session \ {p}
  /\ UNCHANGED <<pool, queue, installed, now, leaked>>

Tick ==
  /\ now < MaxTime
  /\ now' = now + 1
  /\ UNCHANGED <<pool, queue, installed, session, leaked>>

Next ==
  /\ \/ \E p \in Peer, name \in Names, size \in Sizes : Encapsulate(p, name, size)
     \/ \E p \in Peer : HandleHandshake(p) \/ RemovePeer(p) \/ AddPeer(p) \/ SessionDown(p)
     \/ TimerTick
     \/ Tick
  /\ UNCHANGED build

Spec == Init /\ [][Next]_vars
-----------------------------------------------------------------------------
(* Every queue is a proper list: it reaches its tail after len cells, each  *)
(* of them live (so no `expect' of the pool can fail) and on no other list. *)
ListsAreProper ==
  /\ \A p \in Peer :
       LET c == Chain(p)
       IN  /\ Len(c) = queue[p].len
           /\ Cardinality(Range(c)) = Len(c)
           /\ queue[p].tail = IF c = <<>> THEN None ELSE Last(c)
           /\ c # <<>> => pool.slots[Last(c)].next = None
           /\ \A i \in DOMAIN c : IsLive(pool, c[i])
  /\ \A p, q \in Peer : p # q => Range(Chain(p)) \cap Range(Chain(q)) = {}

(* With an allocator, every descriptor is free exactly once or live, the    *)
(* table and the bytes keep their limits, and used_bytes is what the live   *)
(* packets hold.                                                            *)
VecAccounts ==
  /\ Len(pool.slots) <= N /\ pool.used_bytes <= BYTES
  /\ Range(pool.free) = DOMAIN pool.slots \ Live(pool)
  /\ Cardinality(Range(pool.free)) = Len(pool.free)
  /\ pool.used_bytes = MapThenSumSet(LAMBDA h : pool.slots[h].size, Live(pool))

(* Without, the live stretches lie in the arena and do not meet, and a gap  *)
(* for another packet is found whenever there is one.                       *)
ArenaAccounts ==
  /\ \A h \in Live(pool) : pool.slots[h].offset + pool.slots[h].size <= BYTES
  /\ \A g, h \in Live(pool) :
       g # h => \/ pool.slots[g].offset + pool.slots[g].size <= pool.slots[h].offset
                \/ pool.slots[h].offset + pool.slots[h].size <= pool.slots[g].offset
  /\ \A size \in Sizes :
       (\E start \in 0..BYTES - size : \A h \in Live(pool) : ~Meets(pool, h, start, size))
         => find_gap(pool, size) + size <= BYTES

(* Every live descriptor is on exactly one queue or was lost with a removed *)
(* peer, no queue is longer than MAX_PENDING_PACKETS, and the pool's own    *)
(* books are right after every alloc and free.                              *)
PoolAccounts ==
  /\ Live(pool) = leaked \cup UNION {Range(Chain(p)) : p \in Peer}
  /\ \A p \in Peer : queue[p].len <= MAX_PENDING_PACKETS
  /\ IF build = "alloc" THEN VecAccounts ELSE ArenaAccounts

(* The queues of the peers the device has keep the pending-packet TTL: a    *)
(* timer tick leaves nothing expired on them.                               *)
TickSweepsQueues ==
  [][TimerTick => \A p \in installed : \A i \in DOMAIN Chain(p)' :
       now - pool'.slots[Chain(p)'[i]].queued_at < PENDING_PACKET_TTL]_vars

PacketIn(h) ==
  [payload |-> [name |-> pool.slots[h].name, size |-> pool.slots[h].size],
   queued_at |-> pool.slots[h].queued_at]

Packets(p) == LET c == Chain(p) IN [i \in DOMAIN c |-> PacketIn(c[i])]

Abstract ==
  INSTANCE PendingQueues WITH
    queues <- [p \in Peer |-> Packets(p)],
    clock <- now,
    Payload <- [name : Names, size : Sizes]

(* The shared intrusive lists implement one FIFO per peer: no packet moves  *)
(* between peers, is reordered, duplicated, or lost other than by expiry,   *)
(* refusal, clearing or removal.                                            *)
ImplementsFifo == Abstract!Spec

(* timers.rs:53: a packet remains queued for at most the pending-packet     *)
(* TTL; after a tick no descriptor holds an older one.                      *)
TickSweepsPool ==
  [][TimerTick => \A h \in Live(pool)' :
       now - pool'.slots[h].queued_at < PENDING_PACKET_TTL]_vars
=============================================================================
