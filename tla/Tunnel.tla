------------------------------- MODULE Tunnel -------------------------------
(***************************************************************************)
(* Two `Tunn` endpoints (noise/mod.rs, noise/timers.rs, noise/handshake.rs) *)
(* that talk over a network which loses, delays, reorders and duplicates.   *)
(* Each end keeps two outgoing handshakes, a ring of N_SESSIONS sessions    *)
(* indexed by the local session index, the index of the session it sends    *)
(* on, a set of timers stamped with the time of the last timer tick, and    *)
(* the packets that wait for a session.                                     *)
(*                                                                          *)
(* Cryptography is its outcome: a key is the pair of ephemerals it was made *)
(* from, and a message opens at the end that holds its key.  A session      *)
(* refuses a data packet it has already accepted (module ReplayWindow), so  *)
(* a copy of one changes nothing and is not kept in the network here.       *)
(* The queue's memory is module PacketQueues; here it is a sequence.        *)
(***************************************************************************)
EXTENDS Integers, Sequences, FiniteSets, Functions

CONSTANTS
  End,                   \* the two ends
  N_SESSIONS, INDEXES,   \* ring slots; session indexes of a peer (8 bits in the code)
  REKEY_AFTER_TIME, REJECT_AFTER_TIME, REKEY_ATTEMPT_TIME, REKEY_TIMEOUT,
  KEEPALIVE_TIMEOUT, PENDING_PACKET_TTL, REJECT_AFTER_MESSAGES,
  PERSISTENT_KEEPALIVE,  \* 0 when not configured
  STAMP_LAG,             \* how far a stamp may be behind the clock it is read from
  Prompt,                \* TRUE: every message is delivered or lost before time moves on
  MaxTime, MaxIndex, MaxData, MaxLoss, MaxNet, MaxBoot,
  MaxTrouble             \* bounds of the model; the last on losses and restarts together

(* The order the timer rules rely on (timers.rs, 45-54). *)
ASSUME TimerAssumption ==
  /\ \E a, b \in End : a # b /\ End = {a, b}
  /\ N_SESSIONS \in Nat \ {0} /\ INDEXES \in Nat /\ INDEXES >= N_SESSIONS
  /\ {REKEY_AFTER_TIME, REJECT_AFTER_TIME, REKEY_ATTEMPT_TIME, REKEY_TIMEOUT,
      KEEPALIVE_TIMEOUT, PENDING_PACKET_TTL, PERSISTENT_KEEPALIVE, STAMP_LAG,
      MaxTime, MaxIndex, MaxData, MaxNet, MaxBoot, MaxTrouble} \subseteq Nat
  /\ REJECT_AFTER_MESSAGES \in Nat \ {0}
  /\ REKEY_TIMEOUT > 0 /\ KEEPALIVE_TIMEOUT > 0
  /\ REKEY_TIMEOUT <= REKEY_ATTEMPT_TIME
  /\ REKEY_AFTER_TIME <= REJECT_AFTER_TIME - KEEPALIVE_TIMEOUT - REKEY_TIMEOUT
  /\ STAMP_LAG < REKEY_TIMEOUT   \* a second and 2^24 ns against 5 s
  /\ MaxLoss \in Nat /\ Prompt \in BOOLEAN

VARIABLES
  clock,     \* Instant::now()
  ticked,    \* the ends whose ticker has run at this time
  tunn,      \* each end's Tunn
  waiting,   \* each end's queued packets, oldest first
  net,       \* the messages in flight
  data,      \* packets the interface handed over so far (bound)
  lost       \* messages lost so far (bound)

vars == <<clock, ticked, tunn, waiting, net, data, lost>>
-----------------------------------------------------------------------------
TimerName == {"Current", "SessionEstablished", "LastHandshakeStarted",
              "LastPacketReceived", "LastPacketSent", "LastDataPacketReceived",
              "LastDataPacketSent", "PersistentKeepalive"}

Other(e) == CHOOSE f \in End : f # e

Boots ==   \* restarts of either end so far
  LET e == CHOOSE f \in End : TRUE IN tunn[e].boot + tunn[Other(e)].boot

NoSession == [key |-> <<>>]
NoHandshake == [tag |-> "none"]
Expired == [tag |-> "expired"]
Slot(i) == i % N_SESSIONS

(* timestamper.rs: a Tai64N stamp *)
zero == [secs |-> 0, nano |-> 0]
after(s, o) == s.secs > o.secs \/ (s.secs = o.secs /\ s.nano > o.nano)

(* An end's Tunn and its device's TimeStamper, which is made when the       *)
(* device is and reads the wall clock only then, in whole seconds.          *)
NewTunn(boot, unix) ==
  [boot |-> boot, started |-> clock, unix |-> unix, allocated |-> 0, last_timestamp |-> zero,
   previous |-> NoHandshake, state |-> NoHandshake,
   sessions |-> [s \in 0..N_SESSIONS - 1 |-> NoSession], current |-> 0,
   timers |-> [n \in TimerName |-> clock],
   session_timers |-> [s \in 0..N_SESSIONS - 1 |-> clock],
   is_initiator |-> FALSE, want_keepalive |-> FALSE, want_handshake |-> FALSE,
   send_initial_keepalive |-> PERSISTENT_KEEPALIVE > 0]

is_in_progress(t) == t.state.tag = "sent"
HasSession(t) == t.sessions[Slot(t.current)] # NoSession

(* Ephemerals never repeat at an end, restarts included. *)
Fresh(t) == t.boot * MaxIndex + t.allocated + 1
NextIndex(t) == t.allocated % INDEXES

(* Stamps go up while the device runs: within a unit of time `nano` tells   *)
(* the initiations apart.  After a restart they may go back, to the whole   *)
(* second the new stamper was made in.                                      *)
stamp(t) == [secs |-> t.unix + (clock - t.started), nano |-> t.allocated + 1]

(* An initiation is known by its ephemeral; its stamp is all that tells new from old. *)
NewInit(t) == [eph |-> Fresh(t), stamp |-> stamp(t)]
-----------------------------------------------------------------------------
(* timers.rs *)

TickForgettingHandshake(t, name) ==   \* mutant: sending does not arm the silence rule
  [t EXCEPT !.timers[name] = t.timers["Current"],
            !.want_keepalive = CASE name = "LastPacketReceived" -> TRUE
                                 [] name = "LastPacketSent" -> FALSE
                                 [] OTHER -> @,
            !.want_handshake = IF name = "LastPacketReceived" THEN FALSE ELSE @]

timer_tick(t, name) ==
  [t EXCEPT !.timers[name] = t.timers["Current"],
            !.want_keepalive = CASE name = "LastPacketReceived" -> TRUE
                                 [] name = "LastPacketSent" -> FALSE
                                 [] OTHER -> @,
            !.want_handshake = CASE name = "LastPacketReceived" -> FALSE
                                 [] name = "LastPacketSent" -> TRUE
                                 [] OTHER -> @]

timer_tick_session_established(t, initiator, index) ==
  [timer_tick(t, "SessionEstablished") EXCEPT
     !.session_timers[Slot(index)] = t.timers["Current"], !.is_initiator = initiator]

ClearAll(t) ==   \* mutant: the sessions' timers are restarted with the others
  [t EXCEPT !.timers = [n \in TimerName |-> clock],
            !.session_timers = [s \in DOMAIN @ |-> clock],
            !.want_handshake = FALSE, !.want_keepalive = FALSE,
            !.send_initial_keepalive = PERSISTENT_KEEPALIVE > 0]

ClearKeepingCurrent(t) ==   \* mutant: the time of the last tick is not moved with the rest
  [t EXCEPT !.timers = [n \in TimerName |-> IF n = "Current" THEN @[n] ELSE clock],
            !.want_handshake = FALSE, !.want_keepalive = FALSE,
            !.send_initial_keepalive = PERSISTENT_KEEPALIVE > 0]

clear(t) ==
  [t EXCEPT !.timers = [n \in TimerName |-> clock],
            !.want_handshake = FALSE, !.want_keepalive = FALSE,
            !.send_initial_keepalive = PERSISTENT_KEEPALIVE > 0]

update_session_timers(t) ==
  LET old == {s \in DOMAIN t.sessions : clock - t.session_timers[s] > REJECT_AFTER_TIME}
  IN  [t EXCEPT !.sessions = [s \in DOMAIN @ |-> IF s \in old THEN NoSession ELSE @[s]],
                !.session_timers = [s \in DOMAIN @ |-> IF s \in old THEN clock ELSE @[s]]]
-----------------------------------------------------------------------------
(* noise/mod.rs: a step works on one end's part of the state, x, a record   *)
(* of its Tunn, its queue and the messages it sends.                        *)

(* The queue without the packets that have waited PENDING_PACKET_TTL. *)
Swept(q) ==
  LET kept[i \in 0..Len(q)] ==
        IF i = 0 THEN <<>>
        ELSE IF clock - q[i].at < PENDING_PACKET_TTL THEN Append(kept[i - 1], q[i])
        ELSE kept[i - 1]
  IN  kept[Len(q)]

(* The device sweeps the queues before it handles a packet or a tick. *)
Part(e) == [t |-> tunn[e], q |-> Swept(waiting[e]), out |-> {}]

SetCurrentAlways(t, new) ==   \* mutant: any session heard from becomes the current one
  [t EXCEPT !.current = new]

set_current_session(t, new) ==
  IF \/ t.sessions[Slot(t.current)] = NoSession
     \/ t.session_timers[Slot(new)] >= t.session_timers[Slot(t.current)]
  THEN [t EXCEPT !.current = new] ELSE t

(* The current session has a nonce to spend. *)
CanSend(t) == HasSession(t) /\ t.sessions[Slot(t.current)].sent < REJECT_AFTER_MESSAGES

(* What a packet holds: nothing, an IP packet, or an envelope for a relay. *)
Content == {"keepalive", "ip", "relay"}

(* One packet is sealed with session s of t and sent to the other end. *)
Sealed(e, t, what) ==
  LET s == t.sessions[Slot(t.current)]
  IN  [kind |-> "data", to |-> Other(e), index |-> s.remote, key |-> s.key,
       counter |-> s.sent, what |-> what]

SendData(e, x, what) ==
  LET sealed == [x.t EXCEPT !.sessions[Slot(x.t.current)].sent = @ + 1]
      ticks == timer_tick(sealed, "LastPacketSent")
  IN  [x EXCEPT !.t = IF what = "keepalive" THEN ticks ELSE timer_tick(ticks, "LastDataPacketSent"),
                !.out = @ \cup {Sealed(e, x.t, what)}]

(* The queue is flushed, oldest packet first, until it is empty or the      *)
(* current session can take no more.                                        *)
flush_queued_packets(e, x) ==
  LET c == Slot(x.t.current)
      room == IF CanSend(x.t) THEN REJECT_AFTER_MESSAGES - x.t.sessions[c].sent ELSE 0
      n == IF Len(x.q) \in 0..room THEN Len(x.q) ELSE room
      sealed == [x.t EXCEPT !.sessions[c].sent = @ + n]
      ticks == timer_tick(sealed, "LastPacketSent")
  IN  IF n = 0 THEN x
      ELSE [x EXCEPT
              !.t = IF \E i \in 1..n : x.q[i].what # "keepalive"
                    THEN timer_tick(ticks, "LastDataPacketSent") ELSE ticks,
              !.q = SubSeq(@, n + 1, Len(@)),
              !.out = @ \cup {[Sealed(e, x.t, x.q[i].what) EXCEPT !.counter = @ + i - 1] :
                                i \in 1..n}]

(* The initiation message of handshake.rs, and the state that waits for its answer. *)
Initiate(e, x) ==
  LET u == IF x.t.state = Expired THEN clear(x.t) ELSE x.t
      v == [u EXCEPT !.allocated = @ + 1, !.previous = u.state,
                     !.state = [tag |-> "sent", index |-> NextIndex(u),
                                init |-> NewInit(u), at |-> clock]]
      w == IF is_in_progress(x.t) THEN v ELSE timer_tick(v, "LastHandshakeStarted")
  IN  [x EXCEPT !.t = timer_tick(w, "LastPacketSent"),
                !.out = @ \cup {[kind |-> "init", to |-> Other(e), sender |-> NextIndex(u),
                                 init |-> NewInit(u)]}]

format_handshake_initiation(e, x, force) ==
  IF is_in_progress(x.t) /\ ~force THEN x ELSE Initiate(e, x)

(* queue_packet; the model's bounds keep the queue below MAX_PENDING_PACKETS. *)
queue_packet(x, what) ==
  [x EXCEPT !.q = Append(Swept(@), [at |-> clock, what |-> what])]

(* A packet goes out on the current session, or waits while a handshake runs. *)
encapsulate(e, x, what) ==
  IF CanSend(x.t) THEN SendData(e, x, what)
  ELSE format_handshake_initiation(e, queue_packet(x, what), FALSE)

(* clear_all, after the handshakes are set expired. *)
GiveUp(x) ==
  [x EXCEPT !.t = clear([@ EXCEPT !.previous = Expired, !.state = Expired]), !.q = <<>>]

(* What a tick asks for when no handshake is in flight. *)
IdleRules(e, x) ==
  LET t == x.t
      since(name) == clock - t.timers[name]
      later(a, b) == t.timers[a] > t.timers[b]
      rekey == /\ t.is_initiator
               /\ \/ /\ later("LastDataPacketSent", "SessionEstablished")
                     /\ since("SessionEstablished") >= REKEY_AFTER_TIME
                  \/ /\ later("LastDataPacketReceived", "SessionEstablished")
                     /\ since("SessionEstablished")
                          >= REJECT_AFTER_TIME - KEEPALIVE_TIMEOUT - REKEY_TIMEOUT
      unanswered == /\ later("LastDataPacketSent", "LastPacketReceived")
                    /\ since("LastPacketReceived") >= KEEPALIVE_TIMEOUT + REKEY_TIMEOUT
      owed == /\ later("LastDataPacketReceived", "LastPacketSent")
              /\ since("LastPacketSent") >= KEEPALIVE_TIMEOUT
      persistent == /\ PERSISTENT_KEEPALIVE > 0
                    /\ \/ t.send_initial_keepalive
                       \/ since("PersistentKeepalive") >= PERSISTENT_KEEPALIVE
      handshake == rekey \/ (unanswered /\ t.want_handshake)
      keepalive == (owed /\ t.want_keepalive) \/ persistent
      heard == [t EXCEPT !.want_handshake = @ /\ ~unanswered]
      idle == [heard EXCEPT !.want_keepalive = @ /\ ~owed, !.send_initial_keepalive = FALSE]
      kept == IF persistent THEN timer_tick(idle, "PersistentKeepalive") ELSE idle
  IN  CASE handshake -> format_handshake_initiation(e, [x EXCEPT !.t = heard], TRUE)
        [] ~handshake /\ keepalive -> encapsulate(e, [x EXCEPT !.t = kept], "keepalive")
        [] OTHER -> [x EXCEPT !.t = kept]

RetryUnforced(e, y) ==   \* mutant: the handshake in progress suppresses its own retry
  IF clock - y.t.state.at >= REKEY_TIMEOUT
  THEN format_handshake_initiation(e, y, FALSE) ELSE y

(* Handshake Initiation Retransmission *)
Retry(e, y) ==
  IF clock - y.t.state.at >= REKEY_TIMEOUT
  THEN format_handshake_initiation(e, y, TRUE) ELSE y

update_timers(e, x) ==
  LET t == update_session_timers([x.t EXCEPT !.timers["Current"] = clock])
      y == [x EXCEPT !.t = t]
      since(name) == clock - t.timers[name]
      stale == since("SessionEstablished") >= 3 * REJECT_AFTER_TIME
      attempted == since("LastHandshakeStarted") >= REKEY_ATTEMPT_TIME
  IN  CASE t.state = Expired -> y
        [] t.state # Expired /\ (stale \/ (is_in_progress(t) /\ attempted)) -> GiveUp(y)
        [] is_in_progress(t) /\ ~stale /\ ~attempted -> Retry(e, y)
        [] OTHER -> IdleRules(e, y)
-----------------------------------------------------------------------------
(* Actions. *)

(* End e's part of the state becomes x; the rest of the network is rest. *)
Commit(e, x, rest) ==
  /\ x.t.allocated <= MaxIndex
  /\ Cardinality(rest \cup x.out) <= MaxNet
  /\ tunn' = [tunn EXCEPT ![e] = x.t]
  /\ waiting' = [waiting EXCEPT ![e] = x.q]
  /\ net' = rest \cup x.out

(* The network after m was taken out of it, or after a copy of it was. *)
Rest(m) == IF Prompt \/ m.kind = "data" THEN {net \ {m}} ELSE {net, net \ {m}}

(* A packet from the interface, or an envelope this end sends or forwards. *)
Encapsulate(e, what) ==
  /\ data < MaxData
  /\ data' = data + 1
  /\ Commit(e, encapsulate(e, Part(e), what), net)
  /\ UNCHANGED <<clock, ticked, lost>>

InitTwice(e, m) ==   \* mutant: the last stamp is accepted again
  ~after(tunn[e].last_timestamp, m.init.stamp)

(* The stamp of an initiation is after the last one accepted. *)
IsNewInit(e, m) == after(m.init.stamp, tunn[e].last_timestamp)

(* receive_handshake_initialization and format_handshake_response *)
Respond(e, m) ==
  LET t == tunn[e]
      index == NextIndex(t)
      session == [key |-> <<e, m.init, Fresh(t)>>, local |-> index, remote |-> m.sender,
                  initiator |-> FALSE, sent |-> 0, born |-> clock]
      u == [t EXCEPT !.last_timestamp = m.init.stamp, !.previous = t.state, !.state = NoHandshake,
                     !.allocated = @ + 1, !.sessions[Slot(index)] = session]
      v == timer_tick(timer_tick(u, "LastPacketReceived"), "LastPacketSent")
      w == timer_tick_session_established(v, FALSE, index)
  IN  [Part(e) EXCEPT !.t = set_current_session(w, index),
         !.out = {[kind |-> "resp", to |-> Other(e), sender |-> index,
                   receiver |-> m.sender, init |-> m.init, eph |-> Fresh(t)]}]

HandleHandshakeInit(e, m) ==
  /\ m.kind = "init" /\ m.to = e /\ IsNewInit(e, m)
  /\ \E rest \in Rest(m) : Commit(e, flush_queued_packets(e, Respond(e, m)), rest)
  /\ UNCHANGED <<clock, ticked, data, lost>>

(* The outstanding handshake a response names by its index, if any: the     *)
(* current one before the previous one.                                     *)
Expected(t, m) ==
  LET names(h) == h.tag = "sent" /\ h.index = m.receiver
  IN  CASE names(t.state) -> t.state
        [] ~names(t.state) /\ names(t.previous) -> t.previous
        [] OTHER -> NoHandshake

(* It is also the one the response answers: `encrypted_nothing` opens. *)
IsAnswer(e, m) ==
  LET h == Expected(tunn[e], m) IN h.tag = "sent" /\ h.init = m.init

(* receive_handshake_response: the first packet of the session is a keepalive. *)
Complete(e, m) ==
  LET t == tunn[e]
      h == Expected(t, m)
      session == [key |-> <<Other(e), m.init, m.eph>>, local |-> h.index, remote |-> m.sender,
                  initiator |-> TRUE, sent |-> 1, born |-> clock]
      taken == IF h = t.state THEN [t EXCEPT !.state = NoHandshake]
               ELSE [t EXCEPT !.previous = NoHandshake]
      u == timer_tick([taken EXCEPT !.sessions[Slot(h.index)] = session], "LastPacketReceived")
      v == timer_tick_session_established(u, TRUE, h.index)
  IN  [Part(e) EXCEPT !.t = set_current_session(v, h.index),
         !.out = {[kind |-> "data", to |-> Other(e), index |-> m.sender, key |-> session.key,
                   counter |-> 0, what |-> "keepalive"]}]

HandleHandshakeResponse(e, m) ==
  /\ m.kind = "resp" /\ m.to = e /\ IsAnswer(e, m)
  /\ \E rest \in Rest(m) : Commit(e, flush_queued_packets(e, Complete(e, m)), rest)
  /\ UNCHANGED <<clock, ticked, data, lost>>

(* The session in the packet's slot has its index and its key. *)
Opens(t, m) ==
  LET s == t.sessions[Slot(m.index)]
  IN  s # NoSession /\ s.local = m.index /\ s.key = m.key

(* An envelope is not looked at as an IP packet, and so ticks no data timer *)
(* at the end that gets it.                                                 *)
validate_decapsulated_packet(t, m) ==
  IF m.what = "ip" THEN timer_tick(t, "LastDataPacketReceived") ELSE t

HandleData(e, m) ==
  /\ m.kind = "data" /\ m.to = e /\ Opens(tunn[e], m)
  /\ LET t == timer_tick(set_current_session(tunn[e], m.index), "LastPacketReceived")
     IN  Commit(e, [Part(e) EXCEPT !.t = validate_decapsulated_packet(t, m)], net \ {m})
  /\ UNCHANGED <<clock, ticked, data, lost>>

(* WrongTimestamp, UnexpectedPacket, NoCurrentSession, WrongIndex, InvalidAeadTag; *)
(* a message for an index of before a restart may not even find the peer.   *)
Refuse(e, m) ==
  /\ m.to = e
  /\ \/ m.kind = "init" /\ ~IsNewInit(e, m)
     \/ m.kind = "resp" /\ ~IsAnswer(e, m)
     \/ m.kind = "data" /\ ~Opens(tunn[e], m)
  /\ net' = net \ {m}
  /\ \E q \in {waiting[e], Swept(waiting[e])} :
       /\ m.kind = "init" => q = Swept(waiting[e])
       /\ waiting' = [waiting EXCEPT ![e] = q]
  /\ UNCHANGED <<clock, ticked, tunn, data, lost>>

Lose(m) ==
  /\ lost < MaxLoss /\ lost + Boots < MaxTrouble
  /\ lost' = lost + 1
  /\ net' = net \ {m}
  /\ UNCHANGED <<clock, ticked, tunn, waiting, data>>

(* handle_timer_tick, for the one peer of this end *)
HandleTimerTick(e) ==
  /\ ticked' = ticked \cup {e}
  /\ Commit(e, update_timers(e, Part(e)), net)
  /\ UNCHANGED <<clock, data, lost>>

(* Time passes; the device's ticker has run since it last did. *)
Advance ==
  /\ clock < MaxTime
  /\ ticked = End
  /\ Prompt => net = {}
  /\ clock' = clock + 1 /\ ticked' = {}
  /\ UNCHANGED <<tunn, waiting, net, data, lost>>

(* What the wall clock may say when a stamper is made. *)
WallClock == clock..clock + STAMP_LAG

(* An end restarts: a new Tunn, with nothing of the old one. *)
Restart(e) ==
  /\ Boots < MaxBoot /\ lost + Boots < MaxTrouble
  /\ \E unix \in WallClock : tunn' = [tunn EXCEPT ![e] = NewTunn(@.boot + 1, unix)]
  /\ waiting' = [waiting EXCEPT ![e] = <<>>]
  /\ UNCHANGED <<clock, ticked, net, data, lost>>

Init ==
  /\ clock = 0 /\ ticked = {}
  /\ \E unix \in [End -> WallClock] : tunn = [e \in End |-> NewTunn(0, unix[e])]
  /\ waiting = [e \in End |-> <<>>]
  /\ net = {} /\ data = 0 /\ lost = 0

Next ==
  \/ \E e \in End, what \in Content \ {"keepalive"} : Encapsulate(e, what)
  \/ \E e \in End : HandleTimerTick(e) \/ Restart(e)
  \/ \E e \in End, m \in net :
       \/ HandleHandshakeInit(e, m) \/ HandleHandshakeResponse(e, m)
       \/ HandleData(e, m) \/ Refuse(e, m)
  \/ \E m \in net : Lose(m)
  \/ Advance

Spec == Init /\ [][Next]_vars
-----------------------------------------------------------------------------
Live(t) == {s \in DOMAIN t.sessions : t.sessions[s] # NoSession}
IsOutstanding(h) == /\ h.index \in 0..INDEXES - 1
                    /\ h.init.eph \in 1..(MaxBoot + 1) * MaxIndex
                    /\ h.at \in 0..clock

(* Every field of an end is in its range and no timer is in the future:     *)
(* `now - timer` in update_timers panics on a Duration below zero.          *)
TypeOK ==
  /\ clock \in 0..MaxTime /\ data \in 0..MaxData /\ lost \in 0..MaxLoss
  /\ \A e \in End :
       LET t == tunn[e]
       IN  /\ t.allocated \in 0..MaxIndex /\ t.current \in 0..INDEXES - 1
           /\ \A h \in {t.state, t.previous} : h \in {NoHandshake, Expired} \/ IsOutstanding(h)
           /\ \A n \in TimerName : t.timers[n] \in 0..t.timers["Current"]
           /\ t.timers["Current"] <= clock
           /\ \A s \in DOMAIN t.sessions : t.session_timers[s] \in 0..t.timers["Current"]
           /\ \A s \in Live(t) : t.sessions[s].sent \in 0..REJECT_AFTER_MESSAGES

(* Two ends that hold the same key address each other: what one calls its   *)
(* index the other sends to, and one of them initiated.  An initiation,     *)
(* however often it is delivered, makes one session at the responder        *)
(* (handle_handshake_init, handle_handshake_response).                      *)
SessionsPair ==
  \A e \in End : \A s \in Live(tunn[e]) :
    LET a == tunn[e].sessions[s]
    IN  /\ \A r \in Live(tunn[Other(e)]) :
             LET b == tunn[Other(e)].sessions[r]
             IN  a.key = b.key => /\ a.local = b.remote /\ a.remote = b.local
                                  /\ a.initiator # b.initiator
        /\ \A r \in Live(tunn[e]) \ {s} :
             LET b == tunn[e].sessions[r]
             IN  a.initiator = b.initiator => a.key[2] # b.key[2]

(* An end that holds any session sends on one, and on one no older than any *)
(* other it holds, whatever the order sessions are made, heard from and     *)
(* retired in and however indexes fall on slots (set_current_session,       *)
(* update_session_timers).                                                  *)
CurrentIsNewest ==
  \A e \in End :
    LET t == tunn[e]
        c == Slot(t.current)
    IN  Live(t) # {} => /\ c \in Live(t) /\ t.sessions[c].local = t.current
                        /\ \A s \in Live(t) : t.session_timers[s] <= t.session_timers[c]

(* No key outlives REJECT_AFTER_TIME by more than a tick, though slots are  *)
(* reused, their timers restarted and `clear` rewrites every other timer    *)
(* (update_session_timers).                                                 *)
SessionsRetire ==
  \A e \in End : \A s \in Live(tunn[e]) :
    clock - tunn[e].sessions[s].born <= REJECT_AFTER_TIME + 1

(* An end that has sent data and heard nothing since for the keepalive and  *)
(* rekey timeouts is trying a new handshake at the next tick, or has given  *)
(* up: a peer that restarted is noticed (update_timers, want_handshake).    *)
SilenceIsNoticed ==
  \A e \in End :
    LET t == tunn[e]
        now == t.timers["Current"]
        data_sent == t.timers["LastDataPacketSent"]
        received == t.timers["LastPacketReceived"]
    IN  ( /\ received < data_sent /\ data_sent < now
          /\ now - received >= KEEPALIVE_TIMEOUT + REKEY_TIMEOUT )
        => t.state.tag \in {"sent", "expired"}

(* On a network that delivers or loses a message within a unit of time,     *)
(* between ends that are not under load, a packet waits for a session at    *)
(* most one REKEY_TIMEOUT for each message lost.  At an end that has        *)
(* restarted it may be one more: the peer refuses its first initiation if   *)
(* the stamp is not after the last one from before the restart              *)
(* (encapsulate, update_timers, flush_queued_packets, Tai64N::after).       *)
WaitIsBounded ==
  \A e \in End : \A p \in Range(waiting[e]) :
    LET refused == IF tunn[e].boot = 0 THEN 0 ELSE 1
    IN  clock - p.at <= (lost + refused) * REKEY_TIMEOUT
=============================================================================
