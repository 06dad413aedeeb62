---------------------------- MODULE TunnelProofs ----------------------------
(***************************************************************************)
(* The invariants of Tunnel for every set of timer constants, every ring   *)
(* size and index width, and any number of losses, copies and restarts.    *)
(* The inductive invariant is one predicate on an end's Tunn, which every  *)
(* operator of timers.rs and noise/mod.rs is shown to keep, and one on the *)
(* messages in flight.  The bound on waiting has a second one on top of    *)
(* it, that relates an end's queue to its handshake, the messages that can *)
(* still answer it, the losses so far and the stamps its device may have   *)
(* made: a handshake started within REKEY_TIMEOUT of a restart may be      *)
(* refused for a stamp of before it, and is excused once for that.         *)
(***************************************************************************)
EXTENDS Tunnel, NaturalsInduction, WellFoundedInduction, TLAPS

Ring == 0..(N_SESSIONS - 1)
Index == 0..(INDEXES - 1)
Tai64N == [secs : Nat, nano : Nat]
Initiation == [eph : Nat, stamp : Tai64N]
Sent == [tag : {"sent"}, index : Index, init : Initiation, at : Nat]
Handshake == [tag : {"none"}] \cup [tag : {"expired"}] \cup Sent
Session == [key : End \X Initiation \X Nat, local : Index, remote : Index, initiator : BOOLEAN,
            sent : Nat, born : Nat]
Tunn == [boot : Nat, started : Nat, unix : Nat, allocated : Nat, last_timestamp : Tai64N,
         previous : Handshake, state : Handshake,
         sessions : [Ring -> Session \cup {NoSession}], current : Index,
         timers : [TimerName -> Nat], session_timers : [Ring -> Nat],
         is_initiator : BOOLEAN, want_keepalive : BOOLEAN, want_handshake : BOOLEAN,
         send_initial_keepalive : BOOLEAN]

(* The last ephemeral an end has made, and the index it was made with. *)
Made(t) == t.boot * MaxIndex + t.allocated
IndexOf(eph) == ((eph - 1) % MaxIndex) % INDEXES

Outstanding(t) == {h \in {t.state, t.previous} : h.tag = "sent"}

(* No timer is in the future, the last tick is at most one unit ago, and a  *)
(* session's timer is not after its birth nor more than REJECT_AFTER_TIME   *)
(* ago at the last tick; b: the ticker has run at this time.                *)
TimersInv(t, b) ==
  /\ \A n \in TimerName : t.timers[n] <= t.timers["Current"]
  /\ t.timers["Current"] <= clock /\ clock <= t.timers["Current"] + 1
  /\ b => t.timers["Current"] = clock
  /\ \A s \in Ring : t.session_timers[s] <= t.timers["Current"]
  /\ \A s \in Live(t) : /\ t.session_timers[s] <= t.sessions[s].born
                        /\ clock <= t.session_timers[s] + REJECT_AFTER_TIME + 1
                        /\ b => clock <= t.session_timers[s] + REJECT_AFTER_TIME

(* An outstanding handshake has an ephemeral of this end and its index. *)
HandshakesInv(t) ==
  /\ t.allocated <= MaxIndex /\ t.started <= clock
  /\ \A h \in Outstanding(t) :
       h.init.eph \in 1..Made(t) /\ h.index = IndexOf(h.init.eph) /\ h.at <= clock
  /\ t.state \in Outstanding(t) /\ t.previous \in Outstanding(t)
       => t.state.init.eph # t.previous.init.eph

(* A session is in the slot of its index, its key tells which end initiated *)
(* it and both indexes, and its initiation belongs to no other session made *)
(* in the same role and to no handshake still waiting for an answer.        *)
SessionInv(e, t, s) ==
  LET a == t.sessions[s]
  IN  /\ Slot(a.local) = s /\ a.sent <= REJECT_AFTER_MESSAGES
      /\ a.initiator <=> a.key[1] # e
      /\ a.initiator =>
           /\ a.local = IndexOf(a.key[2].eph) /\ a.remote = IndexOf(a.key[3])
           /\ a.key[2].eph <= Made(t)
           /\ \A h \in Outstanding(t) : h.init.eph # a.key[2].eph
      /\ ~a.initiator =>
           /\ a.local = IndexOf(a.key[3]) /\ a.remote = IndexOf(a.key[2].eph)
           /\ ~after(a.key[2].stamp, t.last_timestamp)
      /\ \A r \in Live(t) \ {s} :
           t.sessions[r].initiator = a.initiator => t.sessions[r].key[2] # a.key[2]

NewestInv(t) ==
  LET c == Slot(t.current)
  IN  Live(t) # {} => /\ c \in Live(t) /\ t.sessions[c].local = t.current
                      /\ \A s \in Live(t) : t.session_timers[s] <= t.session_timers[c]

(* An end that has sent data since it last heard anything wants a handshake. *)
SilenceInv(t) ==
  t.timers["LastPacketReceived"] < t.timers["LastDataPacketSent"] => t.want_handshake

CoreInv(e, t, b) ==
  /\ t \in Tunn /\ TimersInv(t, b) /\ HandshakesInv(t)
  /\ \A s \in Live(t) : SessionInv(e, t, s)
  /\ NewestInv(t)

TunnInv(e, t, b) == CoreInv(e, t, b) /\ SilenceInv(t)

(* SilenceIsNoticed, for one end. *)
Noticed(t) ==
  ( /\ t.timers["LastPacketReceived"] < t.timers["LastDataPacketSent"]
    /\ t.timers["LastDataPacketSent"] < t.timers["Current"]
    /\ t.timers["Current"] - t.timers["LastPacketReceived"] >= KEEPALIVE_TIMEOUT + REKEY_TIMEOUT )
  => t.state.tag \in {"sent", "expired"}

MessageInv(m) ==
  /\ m.kind \in {"init", "resp"} => m.init \in Initiation /\ m.sender \in Index
  /\ m.kind = "init" => m.init.eph # 0 /\ m.sender = IndexOf(m.init.eph)
  /\ m.kind = "resp" => m.eph \in Nat \ {0} /\ m.sender = IndexOf(m.eph)
  /\ m.kind = "data" => m.index \in Index

TunnelInv ==
  /\ clock \in 0..MaxTime /\ data \in 0..MaxData /\ lost \in 0..MaxLoss
  /\ ticked \subseteq End
  /\ DOMAIN tunn = End
  /\ \A e \in End : TunnInv(e, tunn[e], e \in ticked) /\ Noticed(tunn[e])
  /\ \A e \in End : tunn[e].boot + tunn[Other(e)].boot <= MaxBoot
  /\ \A m \in net : MessageInv(m)
-----------------------------------------------------------------------------
(* Arithmetic and types. *)

LEMMA Constants ==
  /\ N_SESSIONS \in Nat \ {0} /\ INDEXES \in Nat \ {0}
  /\ REJECT_AFTER_TIME \in Nat /\ REJECT_AFTER_MESSAGES \in Nat \ {0}
  /\ KEEPALIVE_TIMEOUT \in Nat /\ REKEY_TIMEOUT \in Nat
  /\ MaxTime \in Nat /\ MaxIndex \in Nat /\ MaxData \in Nat /\ MaxBoot \in Nat /\ MaxLoss \in Nat
  /\ STAMP_LAG \in Nat /\ STAMP_LAG < REKEY_TIMEOUT
  BY TimerAssumption

LEMMA Remainder ==
  ASSUME NEW a \in Nat, NEW b \in Nat \ {0}
  PROVE  a % b \in 0..(b - 1)
  OBVIOUS

LEMMA RemainderUnique ==
  ASSUME NEW b \in Nat \ {0}, NEW q \in Nat, NEW r \in 0..(b - 1)
  PROVE  ((q * b) + r) % b = r
<1> DEFINE a == (q * b) + r
           p == a \div b
           s == a % b
<1>1. a \in Nat /\ q * b \in Nat
  OBVIOUS
<1>2. p \in Nat /\ s \in Nat /\ s < b /\ a = (p * b) + s /\ p * b \in Nat
  BY <1>1
<1> HIDE DEF p, s
<1>3. ASSUME NEW i \in Nat, NEW j \in Nat, i + 1 <= j PROVE (i * b) + b <= j * b
  <2>1. (i + 1) * b <= j * b
    BY <1>3
  <2>2. (i + 1) * b = (i * b) + b
    OBVIOUS
  <2> QED  BY <2>1, <2>2
<1>4. ~(q + 1 <= p)
  BY <1>1, <1>2, <1>3
<1>5. ~(p + 1 <= q)
  BY <1>1, <1>2, <1>3
<1>6. p = q
  BY <1>2, <1>4, <1>5
<1>7. s = r
  BY <1>1, <1>2, <1>6
<1> QED  BY <1>7 DEF s

LEMMA SlotInRing == \A i \in Nat : Slot(i) \in Ring
  BY Constants, Remainder DEF Slot, Ring

LEMMA IndexOfType == \A n \in Nat \ {0} : MaxIndex # 0 => IndexOf(n) \in Index
<1> SUFFICES ASSUME NEW n \in Nat \ {0}, MaxIndex # 0 PROVE IndexOf(n) \in Index
  OBVIOUS
<1> DEFINE k == (n - 1) % MaxIndex
<1>1. k \in Nat
  BY Constants, Remainder
<1> HIDE DEF k
<1>2. k % INDEXES \in Index
  BY <1>1, Constants, Remainder DEF Index
<1> QED  BY <1>2 DEF IndexOf, k

(* The index an end gives to its next ephemeral. *)
LEMMA FreshIs ==
  ASSUME NEW t \in Tunn, t.allocated < MaxIndex
  PROVE  /\ Made(t) \in Nat /\ Fresh(t) = Made(t) + 1 /\ Fresh(t) \in Nat \ {0}
         /\ NextIndex(t) = IndexOf(Fresh(t)) /\ NextIndex(t) \in Index
<1>1. t.boot \in Nat /\ t.allocated \in Nat /\ MaxIndex \in Nat \ {0} /\ INDEXES \in Nat \ {0}
  BY Constants DEF Tunn
<1> DEFINE B == t.boot
           a == t.allocated
           M == MaxIndex
<1> HIDE DEF B, a, M
<1>2. B \in Nat /\ a \in 0..(M - 1) /\ M \in Nat \ {0}
  BY <1>1 DEF B, a, M
<1>3. (B * M) \in Nat
  BY <1>2
<1>4. ((B * M) + a) % M = a
  BY <1>2, RemainderUnique
<1>5. ((((B * M) + a) + 1) - 1) = (B * M) + a
  BY <1>2, <1>3
<1>6. Made(t) = (B * M) + a /\ Fresh(t) = ((B * M) + a) + 1
  BY <1>2, <1>3 DEF Made, Fresh, B, a, M
<1>7. IndexOf(Fresh(t)) = a % INDEXES
  BY <1>4, <1>5, <1>6 DEF IndexOf, M
<1>8. a % INDEXES \in Index
  BY <1>1, <1>2, Remainder DEF Index
<1> QED  BY <1>2, <1>3, <1>6, <1>7, <1>8 DEF NextIndex, a

LEMMA NewInitIs ==
  ASSUME NEW t \in Tunn, clock \in Nat, t.started <= clock
  PROVE  /\ NewInit(t) \in Initiation /\ NewInit(t).eph = Fresh(t) /\ NewInit(t).stamp = stamp(t)
         /\ stamp(t) \in Tai64N /\ stamp(t).nano = t.allocated + 1
         /\ stamp(t).secs = t.unix + (clock - t.started)
<1>1. t.boot \in Nat /\ t.allocated \in Nat /\ t.unix \in Nat /\ t.started \in Nat
  BY DEF Tunn
<1>2. Fresh(t) \in Nat
  <2>1. t.boot * MaxIndex \in Nat
    BY <1>1, Constants
  <2> QED  BY <1>1, <2>1 DEF Fresh
<1>3. t.unix + (clock - t.started) \in Nat
  BY <1>1
<1>4. stamp(t) \in Tai64N /\ stamp(t).nano = t.allocated + 1
      /\ stamp(t).secs = t.unix + (clock - t.started)
  BY <1>1, <1>3 DEF stamp, Tai64N
<1> QED  BY <1>2, <1>4 DEF NewInit, Initiation

(* Being after is an order of stamps. *)
LEMMA StampOrder ==
  /\ \A a \in Tai64N : ~after(a, a)
  /\ \A a, b \in Tai64N : after(a, b) => ~after(b, a)
  /\ \A a, b, c \in Tai64N : ~after(a, b) /\ ~after(b, c) => ~after(a, c)
  BY DEF after, Tai64N

LEMMA MadeType == \A t \in Tunn : Made(t) \in Nat
  BY Constants DEF Made, Tunn

LEMMA SessionIsSome == \A s \in Session : s # NoSession
  BY DEF Session, NoSession

LEMMA LiveIs ==
  ASSUME NEW t \in Tunn
  PROVE  /\ Live(t) \subseteq Ring
         /\ \A s \in Ring : s \in Live(t) <=> t.sessions[s] \in Session
         /\ \A s \in Ring : s \notin Live(t) <=> t.sessions[s] = NoSession
  BY SessionIsSome DEF Live, Tunn
-----------------------------------------------------------------------------
(* timers.rs *)

SameRing(t, u) ==
  u.sessions = t.sessions /\ u.session_timers = t.session_timers /\ u.current = t.current
SameHandshakes(t, u) ==
  /\ u.state = t.state /\ u.previous = t.previous
  /\ u.boot = t.boot /\ u.allocated = t.allocated /\ u.last_timestamp = t.last_timestamp
  /\ u.started = t.started /\ u.unix = t.unix

(* Steps that touch only timers and wishes keep the invariant. *)
LEMMA SameKeeps ==
  ASSUME NEW e \in End, NEW b \in BOOLEAN, NEW t, CoreInv(e, t, b), NEW u \in Tunn, clock \in Nat,
         SameRing(t, u), SameHandshakes(t, u),
         \A n \in TimerName : u.timers[n] <= u.timers["Current"],
         t.timers["Current"] <= u.timers["Current"], u.timers["Current"] <= clock
  PROVE  CoreInv(e, u, b)
<1>1. t \in Tunn /\ Live(u) = Live(t) /\ Outstanding(u) = Outstanding(t) /\ Made(u) = Made(t)
  BY DEF CoreInv, SameRing, SameHandshakes, Live, Outstanding, Made
<1>2. /\ t.timers["Current"] \in Nat /\ u.timers["Current"] \in Nat
      /\ \A s \in Ring : t.session_timers[s] \in Nat
  BY DEF CoreInv, Tunn, TimerName
<1>3. TimersInv(u, b)
  BY <1>1, <1>2 DEF CoreInv, TimersInv, SameRing
<1>4. HandshakesInv(u)
  BY <1>1 DEF CoreInv, HandshakesInv, SameHandshakes
<1>5. \A s \in Live(u) : SessionInv(e, u, s)
  BY <1>1 DEF CoreInv, SessionInv, SameRing, SameHandshakes
<1>6. NewestInv(u)
  BY <1>1 DEF CoreInv, NewestInv, SameRing
<1> QED  BY <1>3, <1>4, <1>5, <1>6 DEF CoreInv

LEMMA TickIs ==
  ASSUME NEW t \in Tunn, NEW name \in TimerName
  PROVE  LET u == timer_tick(t, name)
         IN  /\ u \in Tunn /\ SameRing(t, u) /\ SameHandshakes(t, u)
             /\ u.timers = [t.timers EXCEPT ![name] = t.timers["Current"]]
             /\ name = "LastPacketReceived" => u.want_handshake = FALSE
             /\ name = "LastPacketSent" => u.want_handshake = TRUE
             /\ name \notin {"LastPacketReceived", "LastPacketSent"}
                  => u.want_handshake = t.want_handshake
  BY DEF timer_tick, Tunn, TimerName, SameRing, SameHandshakes

LEMMA TickKeeps ==
  ASSUME NEW e \in End, NEW b \in BOOLEAN, NEW t, CoreInv(e, t, b), clock \in Nat,
         NEW name \in TimerName \ {"Current"}
  PROVE  /\ CoreInv(e, timer_tick(t, name), b)
         /\ SilenceInv(t) /\ (name = "LastDataPacketSent" => t.want_handshake)
              => SilenceInv(timer_tick(t, name))
<1> DEFINE u == timer_tick(t, name)
<1>1. t \in Tunn /\ \A n \in TimerName : t.timers[n] \in Nat
  BY DEF CoreInv, Tunn
<1>2. /\ u \in Tunn /\ SameRing(t, u) /\ SameHandshakes(t, u)
      /\ u.timers = [t.timers EXCEPT ![name] = t.timers["Current"]]
      /\ name = "LastPacketSent" => u.want_handshake = TRUE
      /\ name \notin {"LastPacketReceived", "LastPacketSent"}
           => u.want_handshake = t.want_handshake
  BY <1>1, TickIs
<1> HIDE DEF u
<1>3. /\ t.timers \in [TimerName -> Nat]
      /\ "Current" \in TimerName /\ "LastPacketReceived" \in TimerName
      /\ "LastDataPacketSent" \in TimerName
  BY <1>1 DEF Tunn, TimerName
<1>4. /\ u.timers["Current"] = t.timers["Current"]
      /\ \A n \in TimerName : u.timers[n] = t.timers[n] \/ u.timers[n] = t.timers["Current"]
      /\ name # "LastPacketReceived" => u.timers["LastPacketReceived"] = t.timers["LastPacketReceived"]
      /\ name # "LastDataPacketSent" => u.timers["LastDataPacketSent"] = t.timers["LastDataPacketSent"]
      /\ u.timers[name] = t.timers["Current"]
  BY <1>2, <1>3
<1>5. \A n \in TimerName : t.timers[n] <= t.timers["Current"]
  BY DEF CoreInv, TimersInv
<1>6. t.timers["Current"] <= clock
  BY DEF CoreInv, TimersInv
<1>7. SilenceInv(t) /\ (name = "LastDataPacketSent" => t.want_handshake) => SilenceInv(u)
  <2>1. SUFFICES ASSUME SilenceInv(t), name = "LastDataPacketSent" => t.want_handshake
                 PROVE  SilenceInv(u)
    OBVIOUS
  <2>2. CASE name = "LastPacketReceived"
    BY <1>1, <1>3, <1>4, <1>5, <2>2 DEF SilenceInv
  <2>3. CASE name = "LastPacketSent"
    BY <1>2, <2>3 DEF SilenceInv
  <2>4. CASE name = "LastDataPacketSent"
    BY <1>2, <2>1, <2>4 DEF SilenceInv
  <2>5. CASE name \notin {"LastPacketReceived", "LastPacketSent", "LastDataPacketSent"}
    BY <1>2, <1>4, <2>1, <2>5 DEF SilenceInv
  <2> QED  BY <2>2, <2>3, <2>4, <2>5
<1>8. \A n \in TimerName : u.timers[n] <= u.timers["Current"]
  BY <1>1, <1>3, <1>4, <1>5
<1>9. t.timers["Current"] <= u.timers["Current"] /\ u.timers["Current"] <= clock
  BY <1>1, <1>3, <1>4, <1>6
<1>10. CoreInv(e, u, b)
  BY <1>2, <1>8, <1>9, SameKeeps
<1> QED  BY <1>7, <1>10 DEF u

LEMMA ClearIs ==
  ASSUME NEW t \in Tunn, clock \in Nat
  PROVE  LET u == clear(t)
         IN  /\ u \in Tunn /\ SameRing(t, u) /\ SameHandshakes(t, u)
             /\ u.timers = [n \in TimerName |-> clock]
<1>1. (PERSISTENT_KEEPALIVE > 0) \in BOOLEAN
  OBVIOUS
<1> QED  BY <1>1 DEF clear, Tunn, SameRing, SameHandshakes

LEMMA ClearKeeps ==
  ASSUME NEW e \in End, NEW b \in BOOLEAN, NEW t, CoreInv(e, t, b), clock \in Nat
  PROVE  TunnInv(e, clear(t), b) /\ Noticed(clear(t))
<1> DEFINE u == clear(t)
<1>1. u \in Tunn /\ SameRing(t, u) /\ SameHandshakes(t, u) /\ u.timers = [n \in TimerName |-> clock]
  BY ClearIs DEF CoreInv
<1> HIDE DEF u
<1>2. \A n \in {"Current", "LastPacketReceived", "LastDataPacketSent"} : u.timers[n] = clock
  BY <1>1 DEF TimerName
<1>3. SilenceInv(u) /\ Noticed(u)
  BY <1>2 DEF SilenceInv, Noticed
<1>4. t.timers["Current"] <= clock
  BY DEF CoreInv, TimersInv
<1>5. \A n \in TimerName : u.timers[n] <= u.timers["Current"]
  BY <1>1, <1>2
<1>6. CoreInv(e, u, b)
  BY <1>1, <1>2, <1>4, <1>5, SameKeeps
<1> QED  BY <1>3, <1>6 DEF u, TunnInv

(* The tick's first two lines: the time is noted and old sessions retire. *)
Retired(t) == update_session_timers([t EXCEPT !.timers["Current"] = clock])

LEMMA RetiredIs ==
  ASSUME NEW t \in Tunn, clock \in Nat
  PROVE  LET u == Retired(t)
             old(s) == clock - t.session_timers[s] > REJECT_AFTER_TIME
         IN  /\ u \in Tunn /\ SameHandshakes(t, u) /\ u.current = t.current
             /\ u.timers = [t.timers EXCEPT !["Current"] = clock]
             /\ u.want_handshake = t.want_handshake
             /\ \A s \in Ring :
                  /\ old(s) => u.sessions[s] = NoSession
                  /\ ~old(s) => /\ u.sessions[s] = t.sessions[s]
                                /\ u.session_timers[s] = t.session_timers[s]
                  /\ u.session_timers[s] \in {clock, t.session_timers[s]}
<1> DEFINE v == [t EXCEPT !.timers["Current"] = clock]
           old == {s \in Ring : clock - t.session_timers[s] > REJECT_AFTER_TIME}
           S == [s \in Ring |-> IF s \in old THEN NoSession ELSE t.sessions[s]]
           T == [s \in Ring |-> IF s \in old THEN clock ELSE t.session_timers[s]]
<1>1. /\ v \in Tunn /\ SameHandshakes(t, v) /\ v.current = t.current
      /\ v.sessions = t.sessions /\ v.session_timers = t.session_timers
      /\ v.timers = [t.timers EXCEPT !["Current"] = clock]
      /\ v.want_handshake = t.want_handshake
  BY DEF Tunn, SameHandshakes, TimerName
<1> HIDE DEF v
<1>2. DOMAIN v.sessions = Ring /\ DOMAIN v.session_timers = Ring
  BY <1>1 DEF Tunn
<1>3. update_session_timers(v) = [v EXCEPT !.sessions = S, !.session_timers = T]
  BY <1>1, <1>2 DEF update_session_timers
<1>4. S \in [Ring -> Session \cup {NoSession}] /\ T \in [Ring -> Nat]
  BY DEF Tunn
<1> HIDE DEF S, T
<1> DEFINE u == [v EXCEPT !.sessions = S, !.session_timers = T]
<1>5. /\ u \in Tunn /\ SameHandshakes(v, u) /\ u.current = v.current /\ u.timers = v.timers
      /\ u.want_handshake = v.want_handshake /\ u.sessions = S /\ u.session_timers = T
  BY <1>1, <1>4 DEF Tunn, SameHandshakes
<1> HIDE DEF u
<1>6. Retired(t) = u
  BY <1>3 DEF Retired, u, v
<1>7. \A s \in Ring :
        /\ s \in old => S[s] = NoSession
        /\ s \notin old => S[s] = t.sessions[s] /\ T[s] = t.session_timers[s]
        /\ T[s] \in {clock, t.session_timers[s]}
  BY DEF S, T
<1> QED  BY <1>1, <1>5, <1>6, <1>7 DEF SameHandshakes

LEMMA RetireKeeps ==
  ASSUME NEW e \in End, NEW b \in BOOLEAN, NEW t, TunnInv(e, t, b), clock \in Nat
  PROVE  TunnInv(e, Retired(t), TRUE)
<1> DEFINE u == Retired(t)
           old(s) == clock - t.session_timers[s] > REJECT_AFTER_TIME
<1>1. t \in Tunn /\ TimersInv(t, b)
  BY DEF TunnInv, CoreInv
<1>2. /\ u \in Tunn /\ SameHandshakes(t, u) /\ u.current = t.current
      /\ u.timers = [t.timers EXCEPT !["Current"] = clock]
      /\ u.want_handshake = t.want_handshake
      /\ \A s \in Ring :
           /\ old(s) => u.sessions[s] = NoSession
           /\ ~old(s) => /\ u.sessions[s] = t.sessions[s]
                         /\ u.session_timers[s] = t.session_timers[s]
           /\ u.session_timers[s] \in {clock, t.session_timers[s]}
  BY <1>1, RetiredIs
<1> HIDE DEF u
<1>3. /\ Live(u) = {s \in Live(t) : ~old(s)} /\ Live(u) \subseteq Ring /\ Live(t) \subseteq Ring
      /\ \A s \in Live(u) : /\ u.sessions[s] = t.sessions[s]
                            /\ u.session_timers[s] = t.session_timers[s]
  BY <1>1, <1>2, LiveIs
<1>4. Outstanding(u) = Outstanding(t) /\ Made(u) = Made(t)
  BY <1>2 DEF SameHandshakes, Outstanding, Made
<1>5. /\ \A n \in TimerName : t.timers[n] \in Nat /\ t.timers[n] <= clock /\ u.timers[n] <= clock
      /\ u.timers["Current"] = clock
      /\ u.timers["LastPacketReceived"] = t.timers["LastPacketReceived"]
      /\ u.timers["LastDataPacketSent"] = t.timers["LastDataPacketSent"]
  <2>1. t.timers \in [TimerName -> Nat] /\ "Current" \in TimerName
        /\ "LastPacketReceived" \in TimerName /\ "LastDataPacketSent" \in TimerName
    BY <1>1 DEF Tunn, TimerName
  <2>2. \A n \in TimerName : t.timers[n] <= clock
    BY <1>1, <2>1 DEF TimersInv
  <2> QED  BY <1>2, <2>1, <2>2
<1>6. \A s \in Ring : t.session_timers[s] \in Nat /\ t.session_timers[s] <= clock
  BY <1>1, <1>5 DEF Tunn, TimersInv, TimerName
<1>7. TimersInv(u, TRUE)
  <2>1. \A s \in Ring : u.session_timers[s] <= u.timers["Current"]
    BY <1>2, <1>5, <1>6
  <2>2. \A s \in Live(u) : /\ u.session_timers[s] <= u.sessions[s].born
                           /\ clock <= u.session_timers[s] + REJECT_AFTER_TIME
    BY <1>1, <1>3, <1>6, Constants DEF TimersInv
  <2>3. \A s \in Live(u) : clock <= u.session_timers[s] + REJECT_AFTER_TIME + 1
    BY <1>3, <1>6, <2>2, Constants
  <2> QED  BY <1>5, <2>1, <2>2, <2>3 DEF TimersInv
<1>8. HandshakesInv(u)
  BY <1>2, <1>4 DEF TunnInv, CoreInv, HandshakesInv, SameHandshakes
<1>9. \A s \in Live(u) : SessionInv(e, u, s)
  BY <1>2, <1>3, <1>4 DEF TunnInv, CoreInv, SessionInv, SameHandshakes
<1>10. NewestInv(u)
  <2>1. SUFFICES ASSUME NEW s \in Live(u)
                 PROVE  LET c == Slot(t.current)
                        IN  /\ c \in Live(u) /\ u.sessions[c].local = u.current
                            /\ \A r \in Live(u) : u.session_timers[r] <= u.session_timers[c]
    BY <1>2 DEF NewestInv
  <2> DEFINE c == Slot(t.current)
  <2>2. /\ c \in Live(t) /\ t.sessions[c].local = t.current
        /\ \A r \in Live(t) : t.session_timers[r] <= t.session_timers[c]
    BY <1>3 DEF TunnInv, CoreInv, NewestInv
  <2> HIDE DEF c
  <2>3. ~old(c)
    BY <1>3, <1>6, <2>2, Constants
  <2>4. c \in Live(u)
    BY <1>3, <2>2, <2>3
  <2> QED  BY <1>2, <1>3, <2>2, <2>4 DEF c
<1>11. SilenceInv(u)
  BY <1>2, <1>5 DEF TunnInv, CoreInv, SilenceInv
<1>12. TunnInv(e, u, TRUE)
  BY <1>2, <1>7, <1>8, <1>9, <1>10, <1>11 DEF TunnInv, CoreInv
<1> QED  BY <1>12 DEF u
-----------------------------------------------------------------------------
(* noise/mod.rs *)

(* The current session with n more nonces spent. *)
Spent(t, n) == [t EXCEPT !.sessions[Slot(t.current)].sent = @ + n]

LEMMA SpentIs ==
  ASSUME NEW t \in Tunn, NEW n \in Nat, HasSession(t)
  PROVE  LET u == Spent(t, n)
             c == Slot(t.current)
         IN  /\ u \in Tunn /\ SameHandshakes(t, u) /\ u.current = t.current
             /\ u.timers = t.timers /\ u.session_timers = t.session_timers
             /\ u.want_handshake = t.want_handshake
             /\ c \in Ring /\ t.sessions[c] \in Session
             /\ u.sessions = [t.sessions EXCEPT ![c] = [t.sessions[c] EXCEPT !.sent = t.sessions[c].sent + n]]
<1> DEFINE c == Slot(t.current)
           a == [t.sessions[c] EXCEPT !.sent = t.sessions[c].sent + n]
<1>1. c \in Ring
  BY SlotInRing DEF Tunn, Index
<1>2. t.sessions[c] \in Session
  BY <1>1 DEF HasSession, Tunn
<1>3. a \in Session
  BY <1>2 DEF Session
<1> HIDE DEF c
<1>4. [t.sessions EXCEPT ![c] = a] \in [Ring -> Session \cup {NoSession}]
  BY <1>1, <1>3 DEF Tunn
<1>5. Spent(t, n) = [t EXCEPT !.sessions = [t.sessions EXCEPT ![c] = a]]
  BY <1>1 DEF Spent, c, Tunn
<1> HIDE DEF a
<1>6. LET u == Spent(t, n)
      IN  /\ u \in Tunn /\ SameHandshakes(t, u) /\ u.current = t.current
          /\ u.timers = t.timers /\ u.session_timers = t.session_timers
          /\ u.want_handshake = t.want_handshake
          /\ u.sessions = [t.sessions EXCEPT ![c] = a]
  BY <1>4, <1>5 DEF Tunn, SameHandshakes
<1> QED  BY <1>1, <1>2, <1>6 DEF c, a

LEMMA SpendKeeps ==
  ASSUME NEW e \in End, NEW b \in BOOLEAN, NEW t, TunnInv(e, t, b), NEW n \in Nat, HasSession(t),
         t.sessions[Slot(t.current)].sent + n <= REJECT_AFTER_MESSAGES
  PROVE  TunnInv(e, Spent(t, n), b)
<1> DEFINE u == Spent(t, n)
           c == Slot(t.current)
<1>1. t \in Tunn
  BY DEF TunnInv, CoreInv
<1>2. /\ u \in Tunn /\ SameHandshakes(t, u) /\ u.current = t.current
      /\ u.timers = t.timers /\ u.session_timers = t.session_timers
      /\ u.want_handshake = t.want_handshake
      /\ c \in Ring /\ t.sessions[c] \in Session
      /\ u.sessions = [t.sessions EXCEPT ![c] = [t.sessions[c] EXCEPT !.sent = t.sessions[c].sent + n]]
  BY <1>1, SpentIs
<1>3. t.sessions[c].sent + n <= REJECT_AFTER_MESSAGES
  OBVIOUS
<1> HIDE DEF u, c
<1>4. /\ u.sessions[c].sent = t.sessions[c].sent + n
      /\ u.sessions[c].key = t.sessions[c].key /\ u.sessions[c].local = t.sessions[c].local
      /\ u.sessions[c].remote = t.sessions[c].remote /\ u.sessions[c].born = t.sessions[c].born
      /\ u.sessions[c].initiator = t.sessions[c].initiator
      /\ \A s \in Ring : s # c => u.sessions[s] = t.sessions[s]
      /\ u.sessions[c] \in Session
  <2>1. t.sessions \in [Ring -> Session \cup {NoSession}]
    BY <1>1 DEF Tunn
  <2>2. u.sessions[c] = [t.sessions[c] EXCEPT !.sent = t.sessions[c].sent + n]
    BY <1>2, <2>1
  <2>3. \A s \in Ring : s # c => u.sessions[s] = t.sessions[s]
    BY <1>2, <2>1
  <2> QED  BY <1>2, <2>2, <2>3 DEF Session
<1>5. Live(u) = Live(t) /\ Live(t) \subseteq Ring
  BY <1>1, <1>2, <1>4, LiveIs
<1>6. Outstanding(u) = Outstanding(t) /\ Made(u) = Made(t)
  BY <1>2 DEF SameHandshakes, Outstanding, Made
<1>7. \A s \in Live(t) : /\ u.sessions[s].key = t.sessions[s].key
                         /\ u.sessions[s].local = t.sessions[s].local
                         /\ u.sessions[s].remote = t.sessions[s].remote
                         /\ u.sessions[s].born = t.sessions[s].born
                         /\ u.sessions[s].initiator = t.sessions[s].initiator
                         /\ u.sessions[s].sent = t.sessions[s].sent
                              \/ u.sessions[s].sent <= REJECT_AFTER_MESSAGES
  BY <1>3, <1>4, <1>5
<1>8. TimersInv(u, b)
  BY <1>2, <1>5, <1>7 DEF TunnInv, CoreInv, TimersInv
<1>9. HandshakesInv(u)
  BY <1>2, <1>6 DEF TunnInv, CoreInv, HandshakesInv, SameHandshakes
<1>10. \A s \in Live(u) : SessionInv(e, u, s)
  BY <1>2, <1>5, <1>6, <1>7 DEF TunnInv, CoreInv, SessionInv, SameHandshakes
<1>11. NewestInv(u)
  BY <1>2, <1>5, <1>7 DEF TunnInv, CoreInv, NewestInv
<1>12. SilenceInv(u)
  BY <1>2 DEF TunnInv, CoreInv, SilenceInv
<1>13. TunnInv(e, u, b)
  BY <1>2, <1>8, <1>9, <1>10, <1>11, <1>12 DEF TunnInv, CoreInv
<1> QED  BY <1>13 DEF u

(* An end's part of a step: its tunnel keeps the invariant and what it      *)
(* sends is well formed.                                                    *)
IsPart(x) == x = [t |-> x.t, q |-> x.q, out |-> x.out]
Good(e, x, b) == IsPart(x) /\ TunnInv(e, x.t, b) /\ \A m \in x.out : MessageInv(m)

LEMMA TimerNames ==
  ASSUME NEW t \in Tunn
  PROVE  /\ \A n \in {"Current", "LastPacketReceived", "LastPacketSent", "LastDataPacketReceived",
                      "LastDataPacketSent", "SessionEstablished", "LastHandshakeStarted",
                      "PersistentKeepalive"} : n \in TimerName /\ t.timers[n] \in Nat
         /\ t.timers \in [TimerName -> Nat]
  BY DEF Tunn, TimerName

(* The ticks of a packet that is sent. *)
LEMMA SentTicks ==
  ASSUME NEW e \in End, NEW b \in BOOLEAN, NEW t, TunnInv(e, t, b), Noticed(t), clock \in Nat
  PROVE  LET u == timer_tick(t, "LastPacketSent")
             v == timer_tick(u, "LastDataPacketSent")
         IN  /\ TunnInv(e, u, b) /\ Noticed(u) /\ u.boot = t.boot /\ u.allocated = t.allocated
             /\ TunnInv(e, v, b) /\ Noticed(v) /\ v.boot = t.boot /\ v.allocated = t.allocated
<1> DEFINE u == timer_tick(t, "LastPacketSent")
           v == timer_tick(u, "LastDataPacketSent")
<1>1. t \in Tunn
  BY DEF TunnInv, CoreInv
<1>2. TunnInv(e, u, b)
  BY <1>1, TickKeeps, TimerNames DEF TunnInv
<1>3. /\ u \in Tunn /\ SameHandshakes(t, u) /\ u.want_handshake = TRUE
      /\ u.timers = [t.timers EXCEPT !["LastPacketSent"] = t.timers["Current"]]
  BY <1>1, TickIs, TimerNames
<1> HIDE DEF u
<1>4. TunnInv(e, v, b)
  BY <1>2, <1>3, TickKeeps, TimerNames DEF TunnInv
<1>5. /\ SameHandshakes(u, v)
      /\ v.timers = [u.timers EXCEPT !["LastDataPacketSent"] = u.timers["Current"]]
  BY <1>3, TickIs, TimerNames
<1> HIDE DEF v
<1>6. Noticed(u)
  BY <1>1, <1>3, TimerNames DEF Noticed, SameHandshakes
<1>7. Noticed(v)
  BY <1>3, <1>5, TimerNames DEF Noticed
<1>8. u.boot = t.boot /\ u.allocated = t.allocated /\ v.boot = t.boot /\ v.allocated = t.allocated
  BY <1>3, <1>5 DEF SameHandshakes
<1> QED  BY <1>2, <1>4, <1>6, <1>7, <1>8 DEF u, v

LEMMA CanSendIs ==
  ASSUME NEW e \in End, NEW b \in BOOLEAN, NEW t, TunnInv(e, t, b), CanSend(t)
  PROVE  /\ t \in Tunn /\ HasSession(t) /\ t.sessions[Slot(t.current)] \in Session
         /\ t.sessions[Slot(t.current)].sent \in Nat
         /\ t.sessions[Slot(t.current)].sent < REJECT_AFTER_MESSAGES
<1>1. t \in Tunn /\ Slot(t.current) \in Ring
  BY SlotInRing DEF TunnInv, CoreInv, Tunn, Index
<1>2. t.sessions[Slot(t.current)] \in Session
  BY <1>1 DEF CanSend, HasSession, Tunn
<1> QED  BY <1>1, <1>2 DEF CanSend, Session

LEMMA SealedIs ==
  ASSUME NEW e, NEW t, NEW what, t.sessions[Slot(t.current)] \in Session
  PROVE  /\ MessageInv(Sealed(e, t, what))
         /\ \A n : MessageInv([Sealed(e, t, what) EXCEPT !.counter = n])
  BY DEF Sealed, MessageInv, Session

LEMMA SpentNoticed ==
  ASSUME NEW t \in Tunn, Noticed(t), NEW n \in Nat, HasSession(t)
  PROVE  /\ Noticed(Spent(t, n)) /\ Spent(t, n).boot = t.boot
         /\ Spent(t, n).allocated = t.allocated
<1>1. Spent(t, n).timers = t.timers /\ SameHandshakes(t, Spent(t, n))
  BY SpentIs
<1> QED  BY <1>1 DEF Noticed, SameHandshakes

LEMMA SendDataKeeps ==
  ASSUME NEW e \in End, NEW b \in BOOLEAN, clock \in Nat, NEW x, Good(e, x, b), Noticed(x.t),
         NEW what, CanSend(x.t)
  PROVE  LET y == SendData(e, x, what)
         IN  Good(e, y, b) /\ Noticed(y.t) /\ y.t.boot = x.t.boot /\ y.t.allocated = x.t.allocated
<1> DEFINE t == x.t
           u == Spent(t, 1)
           v == timer_tick(u, "LastPacketSent")
           w == IF what = "keepalive" THEN v ELSE timer_tick(v, "LastDataPacketSent")
           o == x.out \cup {Sealed(e, t, what)}
           y == SendData(e, x, what)
<1>1. TunnInv(e, t, b) /\ IsPart(x) /\ \A m \in x.out : MessageInv(m)
  BY DEF Good
<1>2. /\ t \in Tunn /\ HasSession(t) /\ t.sessions[Slot(t.current)] \in Session
      /\ t.sessions[Slot(t.current)].sent \in Nat
      /\ t.sessions[Slot(t.current)].sent < REJECT_AFTER_MESSAGES
  BY <1>1, CanSendIs
<1>3. y = [x EXCEPT !.t = w, !.out = o]
  BY DEF SendData, Spent
<1>4. TunnInv(e, u, b)
  <2>1. t.sessions[Slot(t.current)].sent + 1 <= REJECT_AFTER_MESSAGES
    BY <1>2, Constants
  <2> QED  BY <1>1, <1>2, <2>1, SpendKeeps
<1>5. Noticed(u) /\ u.boot = t.boot /\ u.allocated = t.allocated
  BY <1>2, SpentNoticed
<1> HIDE DEF u
<1>6. TunnInv(e, w, b) /\ Noticed(w) /\ w.boot = t.boot /\ w.allocated = t.allocated
  BY <1>4, <1>5, SentTicks
<1>7. \A m \in o : MessageInv(m)
  BY <1>1, <1>2, SealedIs
<1> HIDE DEF w, o, t
<1>8. y = [t |-> w, q |-> x.q, out |-> o]
  BY <1>1, <1>3 DEF IsPart
<1> HIDE DEF y
<1>9. y.t = w /\ y.out = o /\ IsPart(y)
  BY <1>8 DEF IsPart
<1>10. Good(e, y, b) /\ Noticed(y.t) /\ y.t.boot = t.boot /\ y.t.allocated = t.allocated
  BY <1>6, <1>7, <1>9 DEF Good
<1> QED  BY <1>10 DEF y, t

LEMMA FlushKeeps ==
  ASSUME NEW e \in End, NEW b \in BOOLEAN, clock \in Nat, NEW x, Good(e, x, b), Noticed(x.t)
  PROVE  LET y == flush_queued_packets(e, x)
         IN  Good(e, y, b) /\ Noticed(y.t) /\ y.t.boot = x.t.boot /\ y.t.allocated = x.t.allocated
<1> DEFINE t == x.t
           c == Slot(t.current)
           room == IF CanSend(t) THEN REJECT_AFTER_MESSAGES - t.sessions[c].sent ELSE 0
           n == IF Len(x.q) \in 0..room THEN Len(x.q) ELSE room
           u == Spent(t, n)
           v == timer_tick(u, "LastPacketSent")
           w == IF \E i \in 1..n : x.q[i].what # "keepalive"
                THEN timer_tick(v, "LastDataPacketSent") ELSE v
           p == SubSeq(x.q, n + 1, Len(x.q))
           f(i) == [Sealed(e, t, x.q[i].what) EXCEPT !.counter = Sealed(e, t, x.q[i].what).counter + i - 1]
           o == x.out \cup {f(i) : i \in 1..n}
           y == flush_queued_packets(e, x)
<1>1. TunnInv(e, t, b) /\ IsPart(x) /\ \A m \in x.out : MessageInv(m)
  BY DEF Good
<1>2. CASE n = 0
  <2>1. y = x
    BY <1>2 DEF flush_queued_packets, CanSend
  <2> HIDE DEF y
  <2>2. Good(e, y, b) /\ Noticed(y.t) /\ y.t.boot = x.t.boot /\ y.t.allocated = x.t.allocated
    BY <2>1
  <2> QED  BY <2>2 DEF y
<1>3. CASE n # 0
  <2>1. CanSend(t)
    BY <1>3
  <2>2. /\ t \in Tunn /\ HasSession(t) /\ t.sessions[c] \in Session
        /\ t.sessions[c].sent \in Nat /\ t.sessions[c].sent < REJECT_AFTER_MESSAGES
    BY <1>1, <2>1, CanSendIs
  <2>3. n \in Nat /\ t.sessions[c].sent + n <= REJECT_AFTER_MESSAGES
    BY <2>1, <2>2, Constants
  <2>4. y = [x EXCEPT !.t = w, !.q = p, !.out = o]
    BY <1>3 DEF flush_queued_packets, Spent
  <2> HIDE DEF n
  <2>5. TunnInv(e, u, b)
    BY <1>1, <2>2, <2>3, SpendKeeps
  <2>6. Noticed(u) /\ u.boot = t.boot /\ u.allocated = t.allocated
    BY <2>2, <2>3, SpentNoticed
  <2> HIDE DEF u
  <2>7. TunnInv(e, w, b) /\ Noticed(w) /\ w.boot = t.boot /\ w.allocated = t.allocated
    BY <2>5, <2>6, SentTicks
  <2>8. \A m \in o : MessageInv(m)
    BY <1>1, <2>2, SealedIs
  <2> HIDE DEF w, o, p, t
  <2>9. y = [t |-> w, q |-> p, out |-> o]
    BY <1>1, <2>4 DEF IsPart
  <2> HIDE DEF y
  <2>10. y.t = w /\ y.out = o /\ IsPart(y)
    BY <2>9 DEF IsPart
  <2>11. Good(e, y, b) /\ Noticed(y.t) /\ y.t.boot = t.boot /\ y.t.allocated = t.allocated
    BY <2>7, <2>8, <2>10 DEF Good
  <2> QED  BY <2>11 DEF y, t
<1> QED  BY <1>2, <1>3

(* Sending allocates no index. *)
LEMMA FlushAllocates ==
  ASSUME NEW e \in End, NEW x, IsPart(x), x.t \in Tunn
  PROVE  flush_queued_packets(e, x).t.allocated = x.t.allocated
<1> DEFINE t == x.t
           c == Slot(t.current)
           room == IF CanSend(t) THEN REJECT_AFTER_MESSAGES - t.sessions[c].sent ELSE 0
           n == IF Len(x.q) \in 0..room THEN Len(x.q) ELSE room
           u == Spent(t, n)
           v == timer_tick(u, "LastPacketSent")
           w == IF \E i \in 1..n : x.q[i].what # "keepalive"
                THEN timer_tick(v, "LastDataPacketSent") ELSE v
           y == flush_queued_packets(e, x)
<1>1. CASE n = 0
  BY <1>1 DEF flush_queued_packets, CanSend
<1>2. CASE n # 0
  <2>1. CanSend(t)
    BY <1>2
  <2>2. c \in Ring /\ HasSession(t)
    BY <2>1, SlotInRing DEF CanSend, Tunn, Index
  <2>3. t.sessions[c] \in Session
    BY <2>2 DEF HasSession, Tunn
  <2>4. n \in Nat
    BY <2>1, <2>3, Constants DEF CanSend, Session
  <2>5. y.t = w
    <3>1. y.t = [x EXCEPT !.t = w, !.q = SubSeq(x.q, n + 1, Len(x.q)), !.out = y.out].t
      BY <1>2 DEF flush_queued_packets, Spent
    <3> HIDE DEF w, y, n
    <3> QED  BY <3>1 DEF IsPart
  <2> HIDE DEF n, y
  <2>6. u \in Tunn /\ SameHandshakes(t, u)
    BY <2>2, <2>4, SpentIs
  <2> HIDE DEF u
  <2>7. v \in Tunn /\ SameHandshakes(u, v)
    BY <2>6, TickIs, TimerNames
  <2> HIDE DEF v
  <2>8. SameHandshakes(v, timer_tick(v, "LastDataPacketSent"))
    BY <2>7, TickIs, TimerNames
  <2>9. y.t.allocated = t.allocated
    BY <2>5, <2>6, <2>7, <2>8 DEF SameHandshakes
  <2> QED  BY <2>9 DEF y
<1> QED  BY <1>1, <1>2

(* A tunnel with a new handshake outstanding. *)
Started(u) ==
  [u EXCEPT !.allocated = @ + 1, !.previous = u.state,
            !.state = [tag |-> "sent", index |-> NextIndex(u), init |-> NewInit(u), at |-> clock]]

LEMMA StartedType ==
  ASSUME NEW u \in Tunn,
         [tag |-> "sent", index |-> NextIndex(u), init |-> NewInit(u), at |-> clock] \in Handshake
  PROVE  /\ Started(u) \in Tunn /\ SameRing(u, Started(u)) /\ Started(u).timers = u.timers
         /\ Started(u).want_handshake = u.want_handshake
         /\ Started(u).previous = u.state /\ Started(u).last_timestamp = u.last_timestamp
         /\ Started(u).allocated = u.allocated + 1 /\ Started(u).boot = u.boot
         /\ Started(u).started = u.started /\ Started(u).unix = u.unix
         /\ Started(u).state = [tag |-> "sent", index |-> NextIndex(u), init |-> NewInit(u), at |-> clock]
<1> DEFINE h == [tag |-> "sent", index |-> NextIndex(u), init |-> NewInit(u), at |-> clock]
           a == u.allocated + 1
           v == [u EXCEPT !.allocated = a, !.previous = u.state, !.state = h]
<1>1. a \in Nat /\ h \in Handshake /\ u.state \in Handshake
  BY DEF Tunn
<1>2. Started(u) = v
  BY DEF Started
<1> HIDE DEF a, h
<1>3. v \in Tunn
  BY <1>1 DEF Tunn
<1>4. v.state = h /\ v.previous = u.state /\ v.allocated = a
  BY DEF Tunn
<1>5. SameRing(u, v) /\ v.timers = u.timers /\ v.want_handshake = u.want_handshake
      /\ v.last_timestamp = u.last_timestamp /\ v.boot = u.boot
      /\ v.started = u.started /\ v.unix = u.unix
  BY DEF Tunn, SameRing
<1> HIDE DEF v
<1> QED  BY <1>2, <1>3, <1>4, <1>5 DEF a, h

LEMMA StartedKeeps ==
  ASSUME NEW e \in End, NEW b \in BOOLEAN, clock \in Nat, NEW u, CoreInv(e, u, b),
         u.allocated < MaxIndex
  PROVE  CoreInv(e, Started(u), b)
<1> DEFINE h == [tag |-> "sent", index |-> NextIndex(u), init |-> NewInit(u), at |-> clock]
           v == Started(u)
<1>1. /\ u \in Tunn /\ Made(u) \in Nat /\ Fresh(u) = Made(u) + 1 /\ Fresh(u) \in Nat \ {0}
      /\ NextIndex(u) = IndexOf(Fresh(u)) /\ NextIndex(u) \in Index
  BY FreshIs DEF CoreInv
<1>2. h \in Handshake /\ h.tag = "sent" /\ h.init.eph = Fresh(u) /\ h.index = NextIndex(u) /\ h.at = clock
  <2>1. u.started <= clock
    BY DEF CoreInv, HandshakesInv
  <2>2. NewInit(u) \in Initiation /\ NewInit(u).eph = Fresh(u)
    BY <1>1, <2>1, NewInitIs
  <2> QED  BY <1>1, <2>2 DEF Handshake, Sent
<1>4. /\ v \in Tunn /\ SameRing(u, v) /\ v.timers = u.timers
      /\ v.want_handshake = u.want_handshake
      /\ v.previous = u.state /\ v.last_timestamp = u.last_timestamp
      /\ v.allocated = u.allocated + 1 /\ v.boot = u.boot /\ v.state = h
      /\ v.started = u.started /\ v.unix = u.unix
  BY <1>1, <1>2, StartedType
<1> HIDE DEF h, v
<1>5. Live(v) = Live(u) /\ Live(u) \subseteq Ring
  BY <1>1, <1>4, LiveIs DEF SameRing, Live
<1>6. Made(v) = Made(u) + 1
  <2>1. (u.boot * MaxIndex) \in Nat /\ u.allocated \in Nat
    BY <1>1, Constants DEF Tunn
  <2> QED  BY <1>4, <2>1 DEF Made
<1>7. \A k \in Outstanding(u) : k.init.eph \in Nat /\ k.init.eph <= Made(u)
  BY <1>1 DEF CoreInv, HandshakesInv
<1>8. \A k \in Outstanding(v) : k = h \/ k \in Outstanding(u)
  BY <1>4 DEF Outstanding
<1>9. TimersInv(v, b)
  BY <1>4, <1>5 DEF CoreInv, TimersInv, SameRing
<1>10. HandshakesInv(v)
  <2>1. v.allocated <= MaxIndex /\ v.started <= clock
    BY <1>1, <1>4, Constants DEF Tunn, CoreInv, HandshakesInv
  <2>2. ASSUME NEW k \in Outstanding(v)
        PROVE  k.init.eph \in 1..Made(v) /\ k.index = IndexOf(k.init.eph) /\ k.at <= clock
    <3>1. CASE k = h
      BY <1>1, <1>2, <1>6, <3>1
    <3>2. CASE k \in Outstanding(u)
      BY <1>1, <1>6, <3>2 DEF CoreInv, HandshakesInv
    <3> QED  BY <1>8, <3>1, <3>2
  <2>3. v.state \in Outstanding(v) /\ v.previous \in Outstanding(v) => v.state.init.eph # v.previous.init.eph
    <3>1. SUFFICES ASSUME u.state.tag = "sent" PROVE h.init.eph # u.state.init.eph
      BY <1>4 DEF Outstanding
    <3>2. u.state \in Outstanding(u)
      BY <3>1 DEF Outstanding
    <3> QED  BY <1>1, <1>2, <1>7, <3>2
  <2> QED  BY <2>1, <2>2, <2>3 DEF HandshakesInv
<1>11. ASSUME NEW s \in Live(v) PROVE SessionInv(e, v, s)
  <2>1. SessionInv(e, u, s) /\ v.sessions = u.sessions /\ u.sessions[s] \in Session
    BY <1>1, <1>4, <1>5, LiveIs DEF CoreInv, SameRing
  <2>2. u.sessions[s].key[2].eph \in Nat
    BY <2>1 DEF Session, Initiation
  <2>3. u.sessions[s].initiator => /\ u.sessions[s].key[2].eph <= Made(v)
                                   /\ \A k \in Outstanding(v) : k.init.eph # u.sessions[s].key[2].eph
    BY <1>1, <1>2, <1>6, <1>8, <2>1, <2>2 DEF SessionInv
  <2> QED  BY <1>4, <1>5, <2>1, <2>3 DEF SessionInv
<1>12. NewestInv(v)
  BY <1>4, <1>5 DEF CoreInv, NewestInv, SameRing
<1>13. CoreInv(e, v, b)
  BY <1>4, <1>9, <1>10, <1>11, <1>12 DEF CoreInv
<1> QED  BY <1>13 DEF v

LEMMA StartedIs ==
  ASSUME NEW u \in Tunn
  PROVE  /\ Started(u).allocated = u.allocated + 1 /\ Started(u).boot = u.boot
         /\ Started(u).started = u.started /\ Started(u).unix = u.unix
         /\ Started(u).state.tag = "sent"
  BY DEF Started, Tunn

LEMMA InitiateKeeps ==
  ASSUME NEW e \in End, NEW b \in BOOLEAN, clock \in Nat, NEW x, IsPart(x), CoreInv(e, x.t, b),
         \A m \in x.out : MessageInv(m), Initiate(e, x).t.allocated <= MaxIndex
  PROVE  LET y == Initiate(e, x)
         IN  Good(e, y, b) /\ Noticed(y.t) /\ y.t.boot = x.t.boot
<1> DEFINE t == x.t
           u == IF t.state = Expired THEN clear(t) ELSE t
           v == Started(u)
           w == IF is_in_progress(t) THEN v ELSE timer_tick(v, "LastHandshakeStarted")
           z == timer_tick(w, "LastPacketSent")
           m == [kind |-> "init", to |-> Other(e), sender |-> NextIndex(u), init |-> NewInit(u)]
           o == x.out \cup {m}
           y == Initiate(e, x)
<1>1. CoreInv(e, t, b) /\ (\A k \in x.out : MessageInv(k)) /\ t \in Tunn
  BY DEF CoreInv
<1>2. CoreInv(e, u, b) /\ u \in Tunn /\ u.boot = t.boot /\ u.allocated = t.allocated
      /\ u.started = t.started /\ u.unix = t.unix
  <2>1. CASE t.state = Expired
    BY <1>1, <2>1, ClearKeeps, ClearIs DEF SameHandshakes, TunnInv
  <2>2. CASE t.state # Expired
    BY <1>1, <2>2
  <2> QED  BY <2>1, <2>2
<1>3. y = [x EXCEPT !.t = z, !.out = o]
  BY DEF Initiate, Started
<1> HIDE DEF u, z, o
<1>4. y = [t |-> z, q |-> x.q, out |-> o]
  BY <1>3 DEF IsPart
<1> HIDE DEF y
<1>5. y.t = z /\ y.out = o /\ IsPart(y)
  BY <1>4 DEF IsPart
<1>6. v.allocated = u.allocated + 1 /\ v.boot = u.boot /\ v.state.tag = "sent"
      /\ v.started = u.started /\ v.unix = u.unix
  BY <1>2, StartedIs
<1>7. SUFFICES ASSUME z.allocated <= MaxIndex
               PROVE  TunnInv(e, z, b) /\ Noticed(z) /\ z.boot = t.boot /\ (\A k \in o : MessageInv(k))
  BY <1>1, <1>5 DEF Good, y, t
<1>8. ASSUME v \in Tunn
      PROVE  w \in Tunn /\ w.state = v.state /\ w.allocated = v.allocated /\ w.boot = v.boot
             /\ w.started = v.started /\ w.unix = v.unix
             /\ z \in Tunn /\ z.state = v.state /\ z.allocated = v.allocated /\ z.boot = v.boot
             /\ z.started = v.started /\ z.unix = v.unix
  <2> HIDE DEF v
  <2>1. w \in Tunn /\ SameHandshakes(v, w)
    <3>1. CASE is_in_progress(t)
      BY <1>8, <3>1 DEF SameHandshakes
    <3>2. CASE ~is_in_progress(t)
      BY <1>8, <3>2, TickIs, TimerNames
    <3> QED  BY <3>1, <3>2
  <2> HIDE DEF w
  <2>2. z \in Tunn /\ SameHandshakes(w, z)
    BY <2>1, TickIs, TimerNames DEF z
  <2> QED  BY <2>1, <2>2 DEF SameHandshakes
<1>9. v \in Tunn
  <2>1. NextIndex(u) \in Index /\ NewInit(u) \in Initiation
    <3>1. u.allocated \in Nat /\ u.started <= clock
      BY <1>2 DEF Tunn, CoreInv, HandshakesInv
    <3>2. u.allocated % INDEXES \in Index
      BY <3>1, Constants, Remainder DEF Index
    <3> QED  BY <1>2, <3>1, <3>2, NewInitIs DEF NextIndex
  <2>2. [tag |-> "sent", index |-> NextIndex(u), init |-> NewInit(u), at |-> clock] \in Handshake
    BY <2>1 DEF Handshake, Sent
  <2> QED  BY <1>2, <2>2, StartedType
<1>10. u.allocated < MaxIndex
  BY <1>2, <1>6, <1>7, <1>8, <1>9, Constants DEF Tunn
<1>11. CoreInv(e, v, b)
  BY <1>2, <1>10, StartedKeeps
<1>12. TunnInv(e, z, b)
  <2> HIDE DEF v
  <2>1. CoreInv(e, w, b)
    BY <1>9, <1>11, TickKeeps, TimerNames
  <2>2. w \in Tunn
    BY <1>8, <1>9
  <2> HIDE DEF w
  <2>3. CoreInv(e, z, b)
    BY <2>1, <2>2, TickKeeps, TimerNames DEF z
  <2>4. z.want_handshake = TRUE
    BY <2>2, TickIs, TimerNames DEF z
  <2> QED  BY <2>3, <2>4 DEF TunnInv, SilenceInv
<1>13. Noticed(z) /\ z.boot = t.boot
  BY <1>2, <1>6, <1>8, <1>9 DEF Noticed
<1>14. MessageInv(m)
  <2>1. u.started <= clock
    BY <1>2 DEF CoreInv, HandshakesInv
  <2>2. NewInit(u) \in Initiation /\ NewInit(u).eph = Fresh(u)
    BY <1>2, <2>1, NewInitIs
  <2> QED  BY <1>2, <1>10, <2>2, FreshIs DEF MessageInv
<1> QED  BY <1>1, <1>12, <1>13, <1>14 DEF o

(* A packet that waits, and the handshake it waits for. *)
LEMMA EncapsulateKeeps ==
  ASSUME NEW e \in End, NEW b \in BOOLEAN, clock \in Nat, NEW x, Good(e, x, b), Noticed(x.t),
         NEW what, encapsulate(e, x, what).t.allocated <= MaxIndex
  PROVE  LET y == encapsulate(e, x, what)
         IN  Good(e, y, b) /\ Noticed(y.t) /\ y.t.boot = x.t.boot
<1> DEFINE z == queue_packet(x, what)
           y == encapsulate(e, x, what)
<1>1. CASE CanSend(x.t)
  <2>1. y = SendData(e, x, what)
    BY <1>1 DEF encapsulate
  <2> QED  BY <1>1, <2>1, SendDataKeeps
<1>2. CASE ~CanSend(x.t)
  <2> DEFINE p == Append(Swept(x.q), [at |-> clock, what |-> what])
  <2>0. z = [x EXCEPT !.q = p]
    BY DEF queue_packet
  <2> HIDE DEF p
  <2>1. z = [t |-> x.t, q |-> p, out |-> x.out]
    <3>1. x = [t |-> x.t, q |-> x.q, out |-> x.out]
      BY DEF Good, IsPart
    <3> QED  BY ONLY <2>0, <3>1
  <2>2. y = format_handshake_initiation(e, z, FALSE)
    BY <1>2 DEF encapsulate
  <2> HIDE DEF z
  <2>3. z.t = x.t /\ z.out = x.out
    BY <2>1
  <2>4. Good(e, z, b)
    BY <2>1, <2>3 DEF Good, IsPart
  <2>5. y = z \/ y = Initiate(e, z)
    BY <2>2 DEF format_handshake_initiation
  <2>6. y.t.allocated <= MaxIndex
    OBVIOUS
  <2> HIDE DEF y
  <2>7. Good(e, y, b) /\ Noticed(y.t) /\ y.t.boot = x.t.boot
    <3>1. CASE y = z
      BY <2>3, <2>4, <3>1
    <3>2. CASE y = Initiate(e, z)
      BY <2>3, <2>4, <2>6, <3>2, InitiateKeeps DEF Good, TunnInv
    <3> QED  BY <2>5, <3>1, <3>2
  <2> QED  BY <2>7 DEF y
<1> QED  BY <1>1, <1>2

(* Handshakes that are given up. *)
LEMMA GiveUpKeeps ==
  ASSUME NEW e \in End, NEW b \in BOOLEAN, clock \in Nat, NEW x, Good(e, x, b)
  PROVE  LET y == GiveUp(x)
         IN  Good(e, y, b) /\ Noticed(y.t) /\ y.t.boot = x.t.boot
<1> DEFINE t == x.t
           u == [t EXCEPT !.previous = Expired, !.state = Expired]
           v == clear(u)
           y == GiveUp(x)
<1>1. t \in Tunn /\ CoreInv(e, t, b)
  BY DEF Good, TunnInv, CoreInv
<1>2. Expired \in Handshake /\ Expired.tag # "sent"
  BY DEF Expired, Handshake
<1>3. /\ u \in Tunn /\ SameRing(t, u) /\ u.timers = t.timers /\ u.state = Expired /\ u.previous = Expired
      /\ u.boot = t.boot /\ u.allocated = t.allocated /\ u.last_timestamp = t.last_timestamp
      /\ u.started = t.started /\ u.unix = t.unix
  BY <1>1, <1>2 DEF Tunn, SameRing
<1> HIDE DEF u
<1>4. Live(u) = Live(t) /\ Outstanding(u) = {} /\ Made(u) = Made(t)
  BY <1>2, <1>3 DEF SameRing, Live, Outstanding, Made
<1>5. TimersInv(u, b) /\ NewestInv(u)
  BY <1>1, <1>3, <1>4 DEF CoreInv, TimersInv, NewestInv, SameRing
<1>6. HandshakesInv(u)
  BY <1>1, <1>3, <1>4 DEF CoreInv, HandshakesInv
<1>7. \A s \in Live(u) : SessionInv(e, u, s)
  BY <1>1, <1>3, <1>4 DEF CoreInv, SessionInv, SameRing
<1>8. CoreInv(e, u, b)
  BY <1>3, <1>5, <1>6, <1>7 DEF CoreInv
<1>9. TunnInv(e, v, b) /\ Noticed(v) /\ v.boot = t.boot
  BY <1>3, <1>8, ClearKeeps, ClearIs DEF SameHandshakes
<1>10. y = [x EXCEPT !.t = v, !.q = <<>>]
  BY DEF GiveUp, u
<1> HIDE DEF v
<1>11. y = [t |-> v, q |-> <<>>, out |-> x.out]
  BY <1>10 DEF Good, IsPart
<1> HIDE DEF y
<1>12. Good(e, y, b) /\ Noticed(y.t) /\ y.t.boot = t.boot
  BY <1>9, <1>11 DEF Good, IsPart
<1> QED  BY <1>12 DEF y, t

LEMMA RetryKeeps ==
  ASSUME NEW e \in End, NEW b \in BOOLEAN, clock \in Nat, NEW x, Good(e, x, b),
         is_in_progress(x.t), Retry(e, x).t.allocated <= MaxIndex
  PROVE  LET y == Retry(e, x)
         IN  Good(e, y, b) /\ Noticed(y.t) /\ y.t.boot = x.t.boot
<1> DEFINE y == Retry(e, x)
<1>1. y = x \/ y = Initiate(e, x)
  BY DEF Retry, format_handshake_initiation
<1>2. Noticed(x.t)
  BY DEF is_in_progress, Noticed
<1>3. y.t.allocated <= MaxIndex
  OBVIOUS
<1> HIDE DEF y
<1>4. Good(e, y, b) /\ Noticed(y.t) /\ y.t.boot = x.t.boot
  <2>1. CASE y = x
    BY <1>2, <2>1
  <2>2. CASE y = Initiate(e, x)
    BY <1>3, <2>2, InitiateKeeps DEF Good, TunnInv
  <2> QED  BY <1>1, <2>1, <2>2
<1> QED  BY <1>4 DEF y

(* The rules of a tick without a handshake in flight: silence since data    *)
(* was sent starts one, and nothing else takes the wish for one away.       *)
LEMMA IdleRulesKeep ==
  ASSUME NEW e \in End, NEW b \in BOOLEAN, b = TRUE, clock \in Nat, NEW x, Good(e, x, b),
         IdleRules(e, x).t.allocated <= MaxIndex
  PROVE  LET y == IdleRules(e, x)
         IN  Good(e, y, b) /\ Noticed(y.t) /\ y.t.boot = x.t.boot
<1> DEFINE t == x.t
           since(name) == clock - t.timers[name]
           later(c, d) == t.timers[c] > t.timers[d]
           rekey == /\ t.is_initiator
                    /\ \/ /\ later("LastDataPacketSent", "SessionEstablished")
                          /\ since("SessionEstablished") >= REKEY_AFTER_TIME
                       \/ /\ later("LastDataPacketReceived", "SessionEstablished")
                          /\ since("SessionEstablished")
                               >= REJECT_AFTER_TIME - KEEPALIVE_TIMEOUT - REKEY_TIMEOUT
           unanswered == /\ later("LastDataPacketSent", "LastPacketReceived")
                         /\ since("LastPacketReceived") >= KEEPALIVE_TIMEOUT + REKEY_TIMEOUT
           owed == /\ later("LastDataPacketReceived", "LastPacketSent")
                   /\ since("LastPacketSent") >= KEEPALIVE_TIMEOUT
           persistent == /\ PERSISTENT_KEEPALIVE > 0
                         /\ \/ t.send_initial_keepalive
                            \/ since("PersistentKeepalive") >= PERSISTENT_KEEPALIVE
           handshake == rekey \/ (unanswered /\ t.want_handshake)
           keepalive == (owed /\ t.want_keepalive) \/ persistent
           heard == [t EXCEPT !.want_handshake = t.want_handshake /\ ~unanswered]
           idle == [heard EXCEPT !.want_keepalive = heard.want_keepalive /\ ~owed,
                                 !.send_initial_keepalive = FALSE]
           kept == IF persistent THEN timer_tick(idle, "PersistentKeepalive") ELSE idle
           y == IdleRules(e, x)
<1>1. t \in Tunn /\ CoreInv(e, t, b) /\ SilenceInv(t) /\ IsPart(x) /\ \A m \in x.out : MessageInv(m)
  BY DEF Good, TunnInv, CoreInv
<1>2. y = CASE handshake -> format_handshake_initiation(e, [x EXCEPT !.t = heard], TRUE)
            [] ~handshake /\ keepalive -> encapsulate(e, [x EXCEPT !.t = kept], "keepalive")
            [] OTHER -> [x EXCEPT !.t = kept]
  BY DEF IdleRules
<1>3. heard \in Tunn /\ SameRing(t, heard) /\ SameHandshakes(t, heard) /\ heard.timers = t.timers
      /\ (heard.want_handshake <=> t.want_handshake /\ ~unanswered)
  BY <1>1 DEF Tunn, SameRing, SameHandshakes
<1>4. t.timers["Current"] = clock /\ \A n \in TimerName : t.timers[n] <= t.timers["Current"]
  BY <1>1 DEF CoreInv, TimersInv
<1>5. unanswered => t.want_handshake
  BY <1>1, TimerNames DEF SilenceInv
<1>6. ~unanswered => Noticed(t)
  BY <1>1, <1>4, TimerNames, Constants DEF Noticed
<1> HIDE DEF rekey, unanswered, owed, persistent, heard
<1>7. CoreInv(e, heard, b)
  <2>1. t.timers["Current"] <= heard.timers["Current"] /\ heard.timers["Current"] <= clock
        /\ \A n \in TimerName : heard.timers[n] <= heard.timers["Current"]
    BY <1>3, <1>4
  <2> QED  BY <1>1, <1>3, <2>1, SameKeeps
<1>8. CASE handshake
  <2> DEFINE z == [x EXCEPT !.t = heard]
  <2>1. z = [t |-> heard, q |-> x.q, out |-> x.out]
    BY <1>1 DEF IsPart
  <2>2. y = Initiate(e, z)
    BY <1>2, <1>8 DEF format_handshake_initiation
  <2> HIDE DEF z
  <2>3. z.t = heard /\ z.out = x.out /\ IsPart(z)
    BY <2>1 DEF IsPart
  <2>4. y.t.allocated <= MaxIndex
    OBVIOUS
  <2> HIDE DEF y
  <2>5. Good(e, y, b) /\ Noticed(y.t) /\ y.t.boot = t.boot
    BY <1>1, <1>3, <1>7, <2>2, <2>3, <2>4, InitiateKeeps DEF SameHandshakes
  <2> QED  BY <2>5 DEF y, t
<1>9. CASE ~handshake
  <2>1. ~unanswered /\ SilenceInv(heard) /\ Noticed(heard)
    BY <1>1, <1>3, <1>5, <1>6, <1>9 DEF SilenceInv, Noticed, SameHandshakes
  <2>2. idle \in Tunn /\ SameRing(heard, idle) /\ SameHandshakes(heard, idle)
        /\ idle.timers = heard.timers /\ idle.want_handshake = heard.want_handshake
    BY <1>3 DEF Tunn, SameRing, SameHandshakes
  <2> HIDE DEF idle
  <2>3. TunnInv(e, idle, b) /\ Noticed(idle) /\ idle.boot = t.boot
    <3>1. CoreInv(e, idle, b)
      <4>1. heard.timers["Current"] <= idle.timers["Current"] /\ idle.timers["Current"] <= clock
            /\ \A n \in TimerName : idle.timers[n] <= idle.timers["Current"]
        BY <1>3, <1>4, <2>2
      <4> QED  BY <1>7, <2>2, <4>1, SameKeeps
    <3>2. SilenceInv(idle) /\ Noticed(idle) /\ idle.boot = t.boot
      BY <1>3, <2>1, <2>2 DEF SilenceInv, Noticed, SameHandshakes
    <3> QED  BY <3>1, <3>2 DEF TunnInv
  <2>4. TunnInv(e, kept, b) /\ Noticed(kept) /\ kept.boot = t.boot
    <3>1. CASE ~persistent
      BY <2>3, <3>1
    <3>2. CASE persistent
      <4>1. TunnInv(e, kept, b)
        BY <2>2, <2>3, <3>2, TickKeeps, TimerNames DEF TunnInv
      <4>2. SameHandshakes(idle, kept)
            /\ kept.timers = [idle.timers EXCEPT !["PersistentKeepalive"] = idle.timers["Current"]]
        BY <2>2, <3>2, TickIs, TimerNames
      <4> HIDE DEF kept
      <4>3. Noticed(kept) /\ kept.boot = t.boot
        BY <2>2, <2>3, <4>2, TimerNames DEF Noticed, SameHandshakes
      <4> QED  BY <4>1, <4>3
    <3> QED  BY <3>1, <3>2
  <2> DEFINE z == [x EXCEPT !.t = kept]
  <2>5. y = z \/ y = encapsulate(e, z, "keepalive")
    BY <1>2, <1>9
  <2> HIDE DEF kept
  <2>6. z = [t |-> kept, q |-> x.q, out |-> x.out]
    BY <1>1 DEF IsPart
  <2> HIDE DEF z
  <2>7. z.t = kept /\ Good(e, z, b)
    BY <1>1, <2>4, <2>6 DEF Good, IsPart
  <2>8. y.t.allocated <= MaxIndex
    OBVIOUS
  <2> HIDE DEF y
  <2>9. Good(e, y, b) /\ Noticed(y.t) /\ y.t.boot = t.boot
    <3>1. CASE y = z
      BY <2>4, <2>7, <3>1
    <3>2. CASE y = encapsulate(e, z, "keepalive")
      BY <2>4, <2>7, <2>8, <3>2, EncapsulateKeeps
    <3> QED  BY <2>5, <3>1, <3>2
  <2> QED  BY <2>9 DEF y, t
<1> QED  BY <1>8, <1>9

LEMMA UpdateTimersKeep ==
  ASSUME NEW e \in End, NEW b \in BOOLEAN, clock \in Nat, NEW x, Good(e, x, b),
         update_timers(e, x).t.allocated <= MaxIndex
  PROVE  LET y == update_timers(e, x)
         IN  Good(e, y, TRUE) /\ Noticed(y.t) /\ y.t.boot = x.t.boot
<1> DEFINE t == Retired(x.t)
           z == [x EXCEPT !.t = t]
           y == update_timers(e, x)
           stale == clock - t.timers["SessionEstablished"] >= 3 * REJECT_AFTER_TIME
           attempted == clock - t.timers["LastHandshakeStarted"] >= REKEY_ATTEMPT_TIME
<1>1. TunnInv(e, t, TRUE) /\ t.boot = x.t.boot
  <2>1. x.t \in Tunn
    BY DEF Good, TunnInv, CoreInv
  <2> QED  BY <2>1, RetireKeeps, RetiredIs DEF Good, SameHandshakes
<1>2. y = CASE t.state = Expired -> z
            [] t.state # Expired /\ (stale \/ (is_in_progress(t) /\ attempted)) -> GiveUp(z)
            [] is_in_progress(t) /\ ~stale /\ ~attempted -> Retry(e, z)
            [] OTHER -> IdleRules(e, z)
  BY DEF update_timers, Retired
<1> HIDE DEF t
<1>3. z = [t |-> t, q |-> x.q, out |-> x.out]
  BY DEF Good, IsPart
<1> HIDE DEF z, stale, attempted
<1>4. z.t = t /\ Good(e, z, TRUE)
  BY <1>1, <1>3 DEF Good, IsPart
<1>5. y.t.allocated <= MaxIndex
  OBVIOUS
<1>6. \/ t.state = Expired /\ y = z
      \/ y = GiveUp(z)
      \/ is_in_progress(t) /\ y = Retry(e, z)
      \/ y = IdleRules(e, z)
  BY <1>2 DEF is_in_progress, Expired
<1> HIDE DEF y
<1>7. Good(e, y, TRUE) /\ Noticed(y.t) /\ y.t.boot = x.t.boot
  <2>1. CASE t.state = Expired /\ y = z
    <3>1. Noticed(t)
      BY <2>1 DEF Noticed, Expired
    <3> QED  BY <1>1, <1>4, <2>1, <3>1
  <2>2. CASE y = GiveUp(z)
    BY <1>1, <1>4, <2>2, GiveUpKeeps
  <2>3. CASE is_in_progress(t) /\ y = Retry(e, z)
    BY <1>1, <1>4, <1>5, <2>3, RetryKeeps
  <2>4. CASE y = IdleRules(e, z)
    <3>1. \A c \in BOOLEAN : c = TRUE => Good(e, z, c)
      BY <1>4
    <3> QED  BY <1>1, <1>4, <1>5, <2>4, <3>1, IdleRulesKeep
  <2> QED  BY <1>6, <2>1, <2>2, <2>3, <2>4
<1> QED  BY <1>7 DEF y
-----------------------------------------------------------------------------
(* Sessions that are made or heard from. *)

LEMMA EstablishedIs ==
  ASSUME NEW t \in Tunn, NEW initiator \in BOOLEAN, NEW index \in Index
  PROVE  LET u == timer_tick_session_established(t, initiator, index)
         IN  /\ u \in Tunn /\ SameHandshakes(t, u) /\ u.sessions = t.sessions /\ u.current = t.current
             /\ u.timers = [t.timers EXCEPT !["SessionEstablished"] = t.timers["Current"]]
             /\ u.session_timers = [t.session_timers EXCEPT ![Slot(index)] = t.timers["Current"]]
<1> DEFINE v == timer_tick(t, "SessionEstablished")
           T == [t.session_timers EXCEPT ![Slot(index)] = t.timers["Current"]]
           u == timer_tick_session_established(t, initiator, index)
<1>1. /\ v \in Tunn /\ SameRing(t, v) /\ SameHandshakes(t, v)
      /\ v.timers = [t.timers EXCEPT !["SessionEstablished"] = t.timers["Current"]]
  BY TickIs, TimerNames
<1> HIDE DEF v
<1>2. Slot(index) \in Ring /\ t.session_timers \in [Ring -> Nat] /\ t.timers["Current"] \in Nat
  BY SlotInRing, TimerNames DEF Index, Tunn
<1>3. T \in [Ring -> Nat]
  BY <1>2
<1>4. u = [v EXCEPT !.session_timers = T, !.is_initiator = initiator]
  BY <1>1 DEF timer_tick_session_established, v, SameRing
<1> HIDE DEF T, u
<1>5. u \in Tunn /\ SameHandshakes(v, u) /\ u.sessions = v.sessions /\ u.current = v.current
      /\ u.timers = v.timers /\ u.session_timers = T
  BY <1>1, <1>3, <1>4 DEF Tunn, SameHandshakes
<1> QED  BY <1>1, <1>5 DEF SameHandshakes, SameRing, T, u

LEMMA SetCurrentIs ==
  ASSUME NEW t \in Tunn, NEW new \in Index
  PROVE  LET u == set_current_session(t, new)
         IN  /\ u \in Tunn /\ SameHandshakes(t, u) /\ u.sessions = t.sessions
             /\ u.session_timers = t.session_timers /\ u.timers = t.timers
             /\ u.want_handshake = t.want_handshake
             /\ IF \/ t.sessions[Slot(t.current)] = NoSession
                   \/ t.session_timers[Slot(new)] >= t.session_timers[Slot(t.current)]
                THEN u.current = new ELSE u.current = t.current
  BY DEF set_current_session, Tunn, SameHandshakes

(* A session a has just been made in t, with f the result: the other        *)
(* sessions and the handshakes that are left are as they were.              *)
LEMMA EstablishKeeps ==
  ASSUME NEW e \in End, NEW b \in BOOLEAN, clock \in Nat, NEW t, CoreInv(e, t, b),
         NEW f \in Tunn, NEW a \in Session,
         f.sessions = [t.sessions EXCEPT ![Slot(a.local)] = a],
         f.session_timers = [t.session_timers EXCEPT ![Slot(a.local)] = t.timers["Current"]],
         f.current = a.local, a.born = clock, a.sent <= REJECT_AFTER_MESSAGES,
         f.timers["Current"] = t.timers["Current"],
         \A n \in TimerName : f.timers[n] \in {t.timers[n], t.timers["Current"]},
         HandshakesInv(f), Made(f) >= Made(t), Outstanding(f) \subseteq Outstanding(t),
         ~after(t.last_timestamp, f.last_timestamp),
         a.initiator <=> a.key[1] # e,
         a.initiator =>
           /\ a.local = IndexOf(a.key[2].eph) /\ a.remote = IndexOf(a.key[3])
           /\ a.key[2].eph <= Made(f) /\ (\A h \in Outstanding(f) : h.init.eph # a.key[2].eph),
         ~a.initiator =>
           /\ a.local = IndexOf(a.key[3]) /\ a.remote = IndexOf(a.key[2].eph)
           /\ ~after(a.key[2].stamp, f.last_timestamp),
         \A r \in Live(t) : t.sessions[r].initiator = a.initiator => t.sessions[r].key[2] # a.key[2]
  PROVE  CoreInv(e, f, b)
<1> DEFINE c == Slot(a.local)
           now == t.timers["Current"]
<1>1. /\ t \in Tunn /\ c \in Ring /\ now \in Nat /\ t.session_timers \in [Ring -> Nat]
      /\ t.sessions \in [Ring -> Session \cup {NoSession}]
      /\ Made(t) \in Nat /\ Made(f) \in Nat /\ t.last_timestamp \in Tai64N /\ f.last_timestamp \in Tai64N
  <2>1. t \in Tunn
    BY DEF CoreInv
  <2>2. a.local \in Nat
    BY DEF Session, Index
  <2>3. c \in Ring
    BY <2>2, SlotInRing
  <2>4. now \in Nat
    BY <2>1, TimerNames
  <2>5. Made(t) \in Nat /\ Made(f) \in Nat
    BY <2>1, MadeType
  <2>6. /\ t.session_timers \in [Ring -> Nat] /\ t.sessions \in [Ring -> Session \cup {NoSession}]
        /\ t.last_timestamp \in Tai64N /\ f.last_timestamp \in Tai64N
    BY <2>1 DEF Tunn
  <2> QED  BY <2>1, <2>3, <2>4, <2>5, <2>6
<1>2. /\ f.sessions[c] = a /\ f.session_timers[c] = now
      /\ \A s \in Ring : s # c => /\ f.sessions[s] = t.sessions[s]
                                  /\ f.session_timers[s] = t.session_timers[s]
  BY <1>1
<1>3. Slot(f.current) = c
  OBVIOUS
<1> HIDE DEF c, now
<1>4. Live(f) = Live(t) \cup {c} /\ Live(t) \subseteq Ring
  BY <1>1, <1>2, LiveIs
<1>5. now = f.timers["Current"] /\ now <= clock /\ clock <= now + 1
      /\ (\A s \in Ring : t.session_timers[s] <= now) /\ (b => now = clock)
  BY DEF CoreInv, TimersInv, now
<1>6. TimersInv(f, b)
  <2>1. \A n \in TimerName : f.timers[n] <= now
    BY <1>1 DEF CoreInv, TimersInv, now
  <2>2. \A s \in Ring : f.session_timers[s] <= now
    BY <1>1, <1>2, <1>5
  <2>3. ASSUME NEW s \in Live(f)
        PROVE  /\ f.session_timers[s] <= f.sessions[s].born
               /\ clock <= f.session_timers[s] + REJECT_AFTER_TIME + 1
               /\ b => clock <= f.session_timers[s] + REJECT_AFTER_TIME
    <3>1. CASE s = c
      BY <1>1, <1>2, <1>5, <3>1, Constants
    <3>2. CASE s # c
      BY <1>2, <1>4, <3>2 DEF CoreInv, TimersInv
    <3> QED  BY <3>1, <3>2
  <2> QED  BY <1>5, <2>1, <2>2, <2>3 DEF TimersInv
<1>7. NewestInv(f)
  <2>1. \A s \in Live(f) : f.session_timers[s] <= f.session_timers[c]
    BY <1>1, <1>2, <1>4, <1>5
  <2> QED  BY <1>2, <1>3, <1>4, <2>1 DEF NewestInv
<1>8. ASSUME NEW s \in Live(f) PROVE SessionInv(e, f, s)
  <2>1. CASE s = c
    <3>1. \A r \in Live(f) \ {s} : f.sessions[r] = t.sessions[r] /\ r \in Live(t)
      BY <1>2, <1>4, <2>1
    <3>2. f.sessions[s] = a /\ Slot(a.local) = s
      BY <1>2, <2>1 DEF c
    <3> QED  BY <3>1, <3>2 DEF SessionInv
  <2>2. CASE s # c
    <3>1. f.sessions[s] = t.sessions[s] /\ s \in Live(t) /\ t.sessions[s] \in Session
      BY <1>1, <1>2, <1>4, <2>2, LiveIs
    <3>2. SessionInv(e, t, s)
      BY <3>1 DEF CoreInv
    <3>3. t.sessions[s].key[2].eph \in Nat /\ t.sessions[s].key[2].stamp \in Tai64N
      BY <3>1 DEF Session, Initiation
    <3>4. \A r \in Live(f) \ {s} : t.sessions[s].initiator = f.sessions[r].initiator
                                     => f.sessions[r].key[2] # t.sessions[s].key[2]
      <4>1. SUFFICES ASSUME NEW r \in Live(f) \ {s}, t.sessions[s].initiator = f.sessions[r].initiator
                     PROVE  f.sessions[r].key[2] # t.sessions[s].key[2]
        OBVIOUS
      <4>2. CASE r = c
        BY <1>2, <3>1, <4>1, <4>2
      <4>3. CASE r # c
        BY <1>2, <1>4, <3>2, <4>1, <4>3 DEF SessionInv
      <4> QED  BY <4>2, <4>3
    <3>5. t.sessions[s].initiator => /\ t.sessions[s].key[2].eph <= Made(f)
                                     /\ \A h \in Outstanding(f) : h.init.eph # t.sessions[s].key[2].eph
      BY <1>1, <3>2, <3>3 DEF SessionInv
    <3>6. ~t.sessions[s].initiator => ~after(t.sessions[s].key[2].stamp, f.last_timestamp)
      BY <1>1, <3>2, <3>3, StampOrder DEF SessionInv
    <3> QED  BY <3>1, <3>2, <3>4, <3>5, <3>6 DEF SessionInv
  <2> QED  BY <2>1, <2>2
<1> QED  BY <1>6, <1>7, <1>8 DEF CoreInv

(* An end that has just heard from its peer owes no handshake. *)
LEMMA HeardIsNoticed ==
  ASSUME NEW e \in End, NEW b \in BOOLEAN, NEW t, CoreInv(e, t, b),
         t.timers["LastPacketReceived"] = t.timers["Current"]
  PROVE  SilenceInv(t) /\ Noticed(t)
<1>1. t \in Tunn /\ \A n \in TimerName : t.timers[n] <= t.timers["Current"]
  BY DEF CoreInv, TimersInv
<1> QED  BY <1>1, TimerNames DEF SilenceInv, Noticed

LEMMA HandleDataKeeps ==
  ASSUME NEW e \in End, NEW b \in BOOLEAN, clock \in Nat, NEW t, TunnInv(e, t, b),
         NEW m, m.index \in Index, Opens(t, m)
  PROVE  LET v == timer_tick(set_current_session(t, m.index), "LastPacketReceived")
             w == validate_decapsulated_packet(v, m)
         IN  TunnInv(e, w, b) /\ Noticed(w) /\ w.boot = t.boot
<1> DEFINE u == set_current_session(t, m.index)
           v == timer_tick(u, "LastPacketReceived")
           w == validate_decapsulated_packet(v, m)
           c == Slot(m.index)
<1>1. t \in Tunn /\ c \in Ring /\ CoreInv(e, t, b) /\ \A s \in Ring : t.session_timers[s] \in Nat
  BY SlotInRing DEF TunnInv, CoreInv, Index, Tunn
<1>2. c \in Live(t) /\ t.sessions[c].local = m.index
  BY <1>1, LiveIs DEF Opens
<1>3. /\ u \in Tunn /\ SameHandshakes(t, u) /\ u.sessions = t.sessions
      /\ u.session_timers = t.session_timers /\ u.timers = t.timers
      /\ IF \/ t.sessions[Slot(t.current)] = NoSession
            \/ t.session_timers[c] >= t.session_timers[Slot(t.current)]
         THEN u.current = m.index ELSE u.current = t.current
  BY <1>1, SetCurrentIs
<1> HIDE DEF u
<1>4. Live(u) = Live(t) /\ Live(t) \subseteq Ring /\ Outstanding(u) = Outstanding(t) /\ Made(u) = Made(t)
  BY <1>1, <1>3, LiveIs DEF Live, Outstanding, Made, SameHandshakes
<1>5. NewestInv(u)
  <2>1. /\ Slot(t.current) \in Live(t) /\ t.sessions[Slot(t.current)].local = t.current
        /\ \A s \in Live(t) : t.session_timers[s] <= t.session_timers[Slot(t.current)]
    BY <1>1, <1>2 DEF CoreInv, NewestInv
  <2>2. t.sessions[Slot(t.current)] # NoSession
    BY <2>1 DEF Live
  <2>3. CASE t.session_timers[c] >= t.session_timers[Slot(t.current)]
    <3>1. u.current = m.index
      BY <1>3, <2>3
    <3>2. \A s \in Live(t) : t.session_timers[s] <= t.session_timers[c]
      BY <1>1, <1>2, <1>4, <2>1, <2>3
    <3> QED  BY <1>2, <1>3, <1>4, <3>1, <3>2 DEF NewestInv
  <2>4. CASE ~(t.session_timers[c] >= t.session_timers[Slot(t.current)])
    BY <1>3, <1>4, <2>1, <2>2, <2>4 DEF NewestInv
  <2> QED  BY <2>3, <2>4
<1>6. TimersInv(u, b) /\ HandshakesInv(u)
  BY <1>1, <1>3, <1>4 DEF CoreInv, TimersInv, HandshakesInv, SameHandshakes
<1>7. \A s \in Live(u) : SessionInv(e, u, s)
  BY <1>1, <1>3, <1>4 DEF CoreInv, SessionInv, SameHandshakes
<1>8. CoreInv(e, u, b)
  BY <1>3, <1>5, <1>6, <1>7 DEF CoreInv
<1>9. CoreInv(e, v, b)
  BY <1>3, <1>8, TickKeeps, TimerNames
<1>10. /\ v \in Tunn /\ SameHandshakes(u, v)
       /\ v.timers = [u.timers EXCEPT !["LastPacketReceived"] = u.timers["Current"]]
  BY <1>3, TickIs, TimerNames
<1> HIDE DEF v
<1>11. v.timers["LastPacketReceived"] = v.timers["Current"]
  BY <1>3, <1>10, TimerNames
<1>12. CoreInv(e, w, b) /\ w.timers["LastPacketReceived"] = w.timers["Current"] /\ w.boot = v.boot
  <2>1. CASE m.what = "ip"
    <3>1. w = timer_tick(v, "LastDataPacketReceived")
      BY <2>1 DEF validate_decapsulated_packet
    <3> HIDE DEF w
    <3>2. CoreInv(e, w, b)
      BY <1>9, <1>10, <3>1, TickKeeps, TimerNames
    <3>3. SameHandshakes(v, w)
          /\ w.timers = [v.timers EXCEPT !["LastDataPacketReceived"] = v.timers["Current"]]
      BY <1>10, <3>1, TickIs, TimerNames
    <3> QED  BY <1>10, <1>11, <3>2, <3>3, TimerNames DEF SameHandshakes
  <2>2. CASE m.what # "ip"
    BY <1>9, <1>11, <2>2 DEF validate_decapsulated_packet
  <2> QED  BY <2>1, <2>2
<1> HIDE DEF w
<1>13. SilenceInv(w) /\ Noticed(w)
  BY <1>12, HeardIsNoticed
<1>14. TunnInv(e, w, b) /\ Noticed(w) /\ w.boot = t.boot
  BY <1>3, <1>10, <1>12, <1>13 DEF TunnInv, SameHandshakes
<1> QED  BY <1>14 DEF w, v, u

(* The last steps of both halves of a handshake: v holds the new session a  *)
(* in its slot and has just heard from the peer.                            *)
LEMMA EstablishTail ==
  ASSUME NEW e \in End, NEW b \in BOOLEAN, clock \in Nat, NEW t, CoreInv(e, t, b),
         NEW v \in Tunn, NEW a \in Session, NEW initiator \in BOOLEAN,
         v.sessions = [t.sessions EXCEPT ![Slot(a.local)] = a],
         v.session_timers = t.session_timers,
         a.born = clock, a.sent <= REJECT_AFTER_MESSAGES,
         v.timers["Current"] = t.timers["Current"],
         v.timers["LastPacketReceived"] = t.timers["Current"],
         \A n \in TimerName : v.timers[n] \in {t.timers[n], t.timers["Current"]},
         HandshakesInv(v), Made(v) >= Made(t), Outstanding(v) \subseteq Outstanding(t),
         ~after(t.last_timestamp, v.last_timestamp),
         a.initiator <=> a.key[1] # e,
         a.initiator =>
           /\ a.local = IndexOf(a.key[2].eph) /\ a.remote = IndexOf(a.key[3])
           /\ a.key[2].eph <= Made(v) /\ (\A h \in Outstanding(v) : h.init.eph # a.key[2].eph),
         ~a.initiator =>
           /\ a.local = IndexOf(a.key[3]) /\ a.remote = IndexOf(a.key[2].eph)
           /\ ~after(a.key[2].stamp, v.last_timestamp),
         \A r \in Live(t) : t.sessions[r].initiator = a.initiator => t.sessions[r].key[2] # a.key[2]
  PROVE  LET f == set_current_session(timer_tick_session_established(v, initiator, a.local), a.local)
         IN  /\ TunnInv(e, f, b) /\ Noticed(f) /\ SameHandshakes(v, f)
             /\ f.current = a.local /\ f.sessions = v.sessions
<1> DEFINE w == timer_tick_session_established(v, initiator, a.local)
           f == set_current_session(w, a.local)
           c == Slot(a.local)
           now == t.timers["Current"]
<1>1. a.local \in Index /\ t \in Tunn /\ v \in Tunn /\ initiator \in BOOLEAN
  BY DEF Session, CoreInv
<1>2. /\ w \in Tunn /\ SameHandshakes(v, w) /\ w.sessions = v.sessions
      /\ w.timers = [v.timers EXCEPT !["SessionEstablished"] = v.timers["Current"]]
      /\ w.session_timers = [v.session_timers EXCEPT ![c] = v.timers["Current"]]
  BY ONLY <1>1, EstablishedIs
<1> HIDE DEF w
<1>3. /\ f \in Tunn /\ SameHandshakes(w, f) /\ f.sessions = w.sessions
      /\ f.session_timers = w.session_timers /\ f.timers = w.timers
      /\ w.session_timers[c] >= w.session_timers[Slot(w.current)] => f.current = a.local
  BY ONLY <1>1, <1>2, SetCurrentIs
<1> HIDE DEF f
<1>4. c \in Ring /\ Slot(w.current) \in Ring
  BY <1>1, <1>2, SlotInRing DEF Index, Tunn
<1>5. \A s \in Ring : t.session_timers[s] \in Nat /\ t.session_timers[s] <= now
  BY <1>1 DEF CoreInv, TimersInv, Tunn
<1>6. now \in Nat /\ t.session_timers \in [Ring -> Nat] /\ v.timers \in [TimerName -> Nat]
      /\ \A n \in {"Current", "LastPacketReceived", "SessionEstablished"} : n \in TimerName
  BY <1>1, TimerNames DEF Tunn
<1>7. f.current = a.local
  BY <1>2, <1>3, <1>4, <1>5, <1>6
<1>8. /\ f.timers["Current"] = now /\ f.timers["LastPacketReceived"] = now
      /\ \A n \in TimerName : f.timers[n] \in {t.timers[n], now}
  BY <1>2, <1>3, <1>6
<1>9. /\ f.boot = v.boot /\ f.allocated = v.allocated /\ f.last_timestamp = v.last_timestamp
      /\ f.started = v.started /\ f.unix = v.unix
      /\ f.state = v.state /\ f.previous = v.previous
  BY <1>2, <1>3 DEF SameHandshakes
<1>10. Made(f) = Made(v) /\ Outstanding(f) = Outstanding(v)
  BY <1>9 DEF Made, Outstanding
<1>11. HandshakesInv(f)
  BY <1>9, <1>10 DEF HandshakesInv
<1>12. /\ f.sessions = [t.sessions EXCEPT ![c] = a]
       /\ f.session_timers = [t.session_timers EXCEPT ![c] = now]
  BY <1>2, <1>3
<1>13. CoreInv(e, f, b)
  <2>1. Made(f) >= Made(t) /\ Outstanding(f) \subseteq Outstanding(t)
        /\ ~after(t.last_timestamp, f.last_timestamp)
    BY <1>9, <1>10
  <2>2. a.initiator =>
           /\ a.local = IndexOf(a.key[2].eph) /\ a.remote = IndexOf(a.key[3])
           /\ a.key[2].eph <= Made(f) /\ (\A h \in Outstanding(f) : h.init.eph # a.key[2].eph)
    BY <1>10
  <2>3. ~a.initiator =>
           /\ a.local = IndexOf(a.key[3]) /\ a.remote = IndexOf(a.key[2].eph)
           /\ ~after(a.key[2].stamp, f.last_timestamp)
    BY <1>9
  <2> QED  BY <1>3, <1>7, <1>8, <1>11, <1>12, <2>1, <2>2, <2>3, EstablishKeeps
<1>14. SilenceInv(f) /\ Noticed(f)
  BY <1>8, <1>13, HeardIsNoticed
<1>15. TunnInv(e, f, b) /\ Noticed(f) /\ SameHandshakes(v, f)
       /\ f.current = a.local /\ f.sessions = v.sessions
  BY <1>2, <1>3, <1>7, <1>9, <1>13, <1>14 DEF TunnInv, SameHandshakes
<1> QED  BY <1>15 DEF f, w

LEMMA NoHandshakeIs == NoHandshake \in Handshake /\ NoHandshake.tag # "sent"
  BY DEF NoHandshake, Handshake

(* The current session has sent n packets. *)
HasSent(t, n) == HasSession(t) /\ t.sessions[Slot(t.current)].sent = n

LEMMA NewSessionIs ==
  ASSUME NEW t \in Tunn, NEW a \in Session, NEW v \in Tunn, NEW f,
         v.sessions = [t.sessions EXCEPT ![Slot(a.local)] = a],
         f.current = a.local, f.sessions = v.sessions
  PROVE  HasSent(f, a.sent)
<1>1. Slot(a.local) \in Ring
  BY SlotInRing DEF Session, Index
<1>2. f.sessions[Slot(f.current)] = a
  BY <1>1 DEF Tunn
<1> QED  BY <1>2, SessionIsSome DEF HasSent, HasSession

(* The responder's tunnel with the new session in its slot. *)
Answered(t, session, index, stamped) ==
  [t EXCEPT !.last_timestamp = stamped, !.previous = t.state, !.state = NoHandshake,
            !.allocated = @ + 1, !.sessions[Slot(index)] = session]

LEMMA AnsweredIs ==
  ASSUME NEW t \in Tunn, NEW session \in Session, NEW index \in Index, NEW stamped \in Tai64N
  PROVE  LET u == Answered(t, session, index, stamped)
         IN  /\ u \in Tunn /\ u.sessions = [t.sessions EXCEPT ![Slot(index)] = session]
             /\ u.session_timers = t.session_timers /\ u.timers = t.timers
             /\ u.last_timestamp = stamped /\ u.allocated = t.allocated + 1 /\ u.boot = t.boot
             /\ u.started = t.started /\ u.unix = t.unix
             /\ u.previous = t.state /\ u.state = NoHandshake
<1> DEFINE c == Slot(index)
           S == [t.sessions EXCEPT ![c] = session]
           n == t.allocated + 1
           h == t.state
           u == [t EXCEPT !.last_timestamp = stamped, !.previous = h, !.state = NoHandshake,
                          !.allocated = n, !.sessions = S]
<1>1. c \in Ring
  BY SlotInRing DEF Index
<1>2. S \in [Ring -> Session \cup {NoSession}] /\ n \in Nat /\ h \in Handshake
  BY <1>1 DEF Tunn
<1>3. Answered(t, session, index, stamped) = u
  BY DEF Answered
<1> HIDE DEF c, S, n, h
<1>4. u \in Tunn
  BY <1>2, NoHandshakeIs DEF Tunn
<1>5. u.sessions = S /\ u.last_timestamp = stamped /\ u.allocated = n /\ u.previous = h
      /\ u.state = NoHandshake
  BY DEF Tunn
<1>6. u.session_timers = t.session_timers /\ u.timers = t.timers /\ u.boot = t.boot
      /\ u.started = t.started /\ u.unix = t.unix
  BY DEF Tunn
<1> HIDE DEF u
<1> QED  BY <1>3, <1>4, <1>5, <1>6 DEF c, S, n, h

LEMMA RespondKeeps ==
  ASSUME NEW e \in End, NEW b \in BOOLEAN, clock \in Nat, TunnInv(e, tunn[e], b),
         NEW m, m.kind = "init", MessageInv(m), IsNewInit(e, m),
         flush_queued_packets(e, Respond(e, m)).t.allocated <= MaxIndex
  PROVE  LET x == Respond(e, m)
         IN  /\ Good(e, x, b) /\ Noticed(x.t) /\ x.t.boot = tunn[e].boot
             /\ x.t.started = tunn[e].started /\ x.t.unix = tunn[e].unix
             /\ x.t.allocated = tunn[e].allocated + 1 /\ x.t.last_timestamp = m.init.stamp
             /\ x.t.state = NoHandshake /\ HasSent(x.t, 0) /\ x.q = Swept(waiting[e])
             /\ x.out = {[kind |-> "resp", to |-> Other(e), sender |-> NextIndex(tunn[e]),
                          receiver |-> m.sender, init |-> m.init, eph |-> Fresh(tunn[e])]}
<1> DEFINE t == tunn[e]
           index == NextIndex(t)
           a == [key |-> <<e, m.init, Fresh(t)>>, local |-> index, remote |-> m.sender,
                 initiator |-> FALSE, sent |-> 0, born |-> clock]
           u == Answered(t, a, index, m.init.stamp)
           v == timer_tick(u, "LastPacketReceived")
           w == timer_tick(v, "LastPacketSent")
           f == set_current_session(timer_tick_session_established(w, FALSE, index), index)
           o == {[kind |-> "resp", to |-> Other(e), sender |-> index,
                  receiver |-> m.sender, init |-> m.init, eph |-> Fresh(t)]}
           x == Respond(e, m)
<1>1. x = [Part(e) EXCEPT !.t = f, !.out = o]
  BY DEF Respond, Answered
<1>2. TunnInv(e, t, b) /\ CoreInv(e, t, b) /\ t \in Tunn
  BY DEF TunnInv, CoreInv
<1>3. /\ m.init \in Initiation /\ m.init.eph # 0 /\ m.sender = IndexOf(m.init.eph) /\ m.sender \in Index
      /\ m.init.stamp \in Tai64N /\ after(m.init.stamp, t.last_timestamp)
  BY DEF MessageInv, IsNewInit, Initiation
<1>4. flush_queued_packets(e, x).t.allocated <= MaxIndex
  OBVIOUS
<1> HIDE DEF t, f, o, x
<1>5. x = [t |-> f, q |-> Swept(waiting[e]), out |-> o]
  BY <1>1 DEF Part
<1>6. x.t = f /\ x.out = o /\ x.q = Swept(waiting[e]) /\ IsPart(x)
  BY <1>5 DEF IsPart
<1>7. index \in Index /\ Fresh(t) \in Nat
  <2>1. t.allocated \in Nat /\ Made(t) \in Nat
    BY <1>2, MadeType DEF Tunn
  <2>2. t.allocated % INDEXES \in Index
    BY <2>1, Constants, Remainder DEF Index
  <2>3. Fresh(t) = Made(t) + 1
    BY DEF Fresh, Made
  <2> QED  BY <2>1, <2>2, <2>3 DEF NextIndex
<1>8. a \in Session /\ a.local = index /\ a.born = clock /\ a.sent = 0 /\ a.initiator = FALSE
      /\ a.remote = m.sender /\ a.key[1] = e /\ a.key[2] = m.init /\ a.key[3] = Fresh(t)
  <2> HIDE DEF index
  <2> DEFINE k == <<e, m.init, Fresh(t)>>
  <2>1. k \in End \X Initiation \X Nat /\ k[1] = e /\ k[2] = m.init /\ k[3] = Fresh(t)
    BY <1>3, <1>7
  <2> HIDE DEF k
  <2>2. a = [key |-> k, local |-> index, remote |-> m.sender,
             initiator |-> FALSE, sent |-> 0, born |-> clock]
    BY DEF k
  <2> HIDE DEF a
  <2>3. m.sender \in Index
    BY DEF MessageInv
  <2> QED  BY <1>7, <2>1, <2>2, <2>3 DEF Session
<1> HIDE DEF a, index
<1>9. /\ u \in Tunn /\ u.sessions = [t.sessions EXCEPT ![Slot(index)] = a]
      /\ u.session_timers = t.session_timers /\ u.timers = t.timers
      /\ u.last_timestamp = m.init.stamp /\ u.allocated = t.allocated + 1 /\ u.boot = t.boot
      /\ u.started = t.started /\ u.unix = t.unix
      /\ u.previous = t.state /\ u.state = NoHandshake
  <2>1. m.init.stamp \in Tai64N
    BY <1>3
  <2> QED  BY ONLY <1>2, <1>7, <1>8, <2>1, AnsweredIs
<1> HIDE DEF u
<1>10. /\ w \in Tunn /\ SameRing(u, w) /\ SameHandshakes(u, w)
       /\ w.timers["Current"] = t.timers["Current"]
       /\ w.timers["LastPacketReceived"] = t.timers["Current"]
       /\ \A n \in TimerName : w.timers[n] \in {t.timers[n], t.timers["Current"]}
  <2>1. v \in Tunn /\ SameRing(u, v) /\ SameHandshakes(u, v)
        /\ v.timers = [u.timers EXCEPT !["LastPacketReceived"] = u.timers["Current"]]
    BY ONLY <1>9, TickIs, TimerNames
  <2> HIDE DEF v
  <2>2. w \in Tunn /\ SameRing(v, w) /\ SameHandshakes(v, w)
        /\ w.timers = [v.timers EXCEPT !["LastPacketSent"] = v.timers["Current"]]
    BY ONLY <2>1, TickIs, TimerNames
  <2> HIDE DEF w
  <2>3. t.timers \in [TimerName -> Nat] /\ "Current" \in TimerName
        /\ "LastPacketReceived" \in TimerName /\ "LastPacketSent" \in TimerName
    BY <1>2, TimerNames
  <2>4. /\ w.timers["Current"] = t.timers["Current"]
        /\ w.timers["LastPacketReceived"] = t.timers["Current"]
        /\ \A n \in TimerName : w.timers[n] \in {t.timers[n], t.timers["Current"]}
    BY ONLY <1>9, <2>1, <2>2, <2>3
  <2>5. SameRing(u, w) /\ SameHandshakes(u, w)
    BY ONLY <2>1, <2>2 DEF SameRing, SameHandshakes
  <2> QED  BY <2>2, <2>4, <2>5
<1> HIDE DEF w, v
<1>11. /\ w.sessions = [t.sessions EXCEPT ![Slot(a.local)] = a]
       /\ w.session_timers = t.session_timers
       /\ w.last_timestamp = m.init.stamp /\ w.allocated = t.allocated + 1 /\ w.boot = t.boot
       /\ w.started = t.started /\ w.unix = t.unix
       /\ w.previous = t.state /\ w.state = NoHandshake
  BY ONLY <1>8, <1>9, <1>10 DEF SameRing, SameHandshakes
<1>12. f.allocated = w.allocated /\ f \in Tunn
  <2> DEFINE g == timer_tick_session_established(w, FALSE, index)
  <2>1. g \in Tunn /\ SameHandshakes(w, g)
    BY ONLY <1>7, <1>10, EstablishedIs
  <2> HIDE DEF g
  <2>2. SameHandshakes(g, set_current_session(g, index)) /\ set_current_session(g, index) \in Tunn
    BY ONLY <1>7, <2>1, SetCurrentIs
  <2> QED  BY <2>1, <2>2 DEF SameHandshakes, f, g
<1>13. t.allocated < MaxIndex /\ w.allocated <= MaxIndex
  <2>1. f.allocated <= MaxIndex
    BY <1>4, <1>6, <1>12, FlushAllocates
  <2> QED  BY <1>2, <1>11, <1>12, <2>1, Constants DEF Tunn
<1>14. /\ Made(t) \in Nat /\ Fresh(t) = Made(t) + 1 /\ Fresh(t) \in Nat \ {0}
       /\ index = IndexOf(Fresh(t))
  BY <1>2, <1>13, FreshIs DEF index
<1>15. Made(w) = Made(t) + 1
  <2>1. (t.boot * MaxIndex) \in Nat /\ t.allocated \in Nat
    BY <1>2, Constants DEF Tunn
  <2> QED  BY <1>11, <2>1 DEF Made
<1>16. Outstanding(w) \subseteq Outstanding(t)
  BY <1>11, NoHandshakeIs DEF Outstanding
<1>17. HandshakesInv(w)
  <2>1. \A h \in Outstanding(w) :
           h.init.eph \in 1..Made(w) /\ h.index = IndexOf(h.init.eph) /\ h.at <= clock
    BY <1>2, <1>14, <1>15, <1>16 DEF CoreInv, HandshakesInv
  <2>2. w.state \notin Outstanding(w)
    BY <1>11, NoHandshakeIs DEF Outstanding
  <2>3. w.started <= clock
    BY <1>2, <1>11 DEF CoreInv, HandshakesInv
  <2> QED  BY <1>13, <2>1, <2>2, <2>3 DEF HandshakesInv
<1>18. \A r \in Live(t) : t.sessions[r].initiator = a.initiator => t.sessions[r].key[2] # a.key[2]
  <2>1. SUFFICES ASSUME NEW r \in Live(t), ~t.sessions[r].initiator
                 PROVE  t.sessions[r].key[2] # m.init
    BY <1>8
  <2>2. ~after(t.sessions[r].key[2].stamp, t.last_timestamp)
    BY <1>2, <2>1 DEF CoreInv, SessionInv
  <2> QED  BY <1>3, <2>2
<1>19. TunnInv(e, f, b) /\ Noticed(f) /\ SameHandshakes(w, f)
       /\ f.current = a.local /\ f.sessions = w.sessions
  <2>1. Made(w) >= Made(t) /\ ~after(t.last_timestamp, w.last_timestamp)
    BY <1>2, <1>3, <1>11, <1>14, <1>15, StampOrder DEF Tunn
  <2>2. a.initiator <=> a.key[1] # e
    BY <1>8
  <2>3. a.initiator =>
           /\ a.local = IndexOf(a.key[2].eph) /\ a.remote = IndexOf(a.key[3])
           /\ a.key[2].eph <= Made(w) /\ (\A h \in Outstanding(w) : h.init.eph # a.key[2].eph)
    BY <1>8
  <2>4. ~a.initiator =>
           /\ a.local = IndexOf(a.key[3]) /\ a.remote = IndexOf(a.key[2].eph)
           /\ ~after(a.key[2].stamp, w.last_timestamp)
    BY <1>3, <1>8, <1>11, <1>14, StampOrder
  <2>5. a.born = clock /\ a.sent <= REJECT_AFTER_MESSAGES
    BY <1>8, Constants
  <2> DEFINE i == a.initiator
  <2>6. f = set_current_session(timer_tick_session_established(w, i, a.local), a.local)
    BY <1>8 DEF f
  <2> HIDE DEF i
  <2>7. e \in End /\ b \in BOOLEAN /\ clock \in Nat /\ i \in BOOLEAN
    BY <1>8 DEF i
  <2> QED  BY ONLY <1>2, <1>8, <1>10, <1>11, <1>16, <1>17, <1>18, <2>1, <2>2, <2>3, <2>4, <2>5,
                   <2>6, <2>7, EstablishTail
<1>20. \A k \in o : MessageInv(k)
  BY <1>3, <1>7, <1>14 DEF o, MessageInv
<1>21. HasSent(f, 0)
  BY <1>2, <1>8, <1>10, <1>11, <1>19, NewSessionIs
<1>22. /\ Good(e, x, b) /\ Noticed(x.t) /\ x.t.boot = t.boot
       /\ x.t.started = t.started /\ x.t.unix = t.unix
       /\ x.t.allocated = t.allocated + 1 /\ x.t.last_timestamp = m.init.stamp
       /\ x.t.state = NoHandshake /\ HasSent(x.t, 0) /\ x.q = Swept(waiting[e]) /\ x.out = o
  BY <1>6, <1>11, <1>19, <1>20, <1>21 DEF Good, SameHandshakes
<1> QED  BY <1>22 DEF x, t, o, index

LEMMA OtherIs ==
  ASSUME NEW e \in End
  PROVE  /\ Other(e) \in End /\ Other(e) # e /\ End = {e, Other(e)}
         /\ \A f \in End : f # e => f = Other(e)
         /\ Other(Other(e)) = e
<1>1. PICK c \in End, d \in End : c # d /\ End = {c, d}
  BY TimerAssumption
<1>2. \A f \in End : Other(f) \in End /\ Other(f) # f
  BY <1>1 DEF Other
<1> QED  BY <1>1, <1>2

(* The handshake an answer is for is outstanding, and is taken. *)
Taken(t, h) ==
  IF h = t.state THEN [t EXCEPT !.state = NoHandshake] ELSE [t EXCEPT !.previous = NoHandshake]

LEMMA ExpectedIs ==
  ASSUME NEW t \in Tunn, NEW m, Expected(t, m).tag = "sent"
  PROVE  /\ Expected(t, m) \in Outstanding(t)
         /\ Expected(t, m) \in Sent
<1>1. Expected(t, m) \in {t.state, t.previous, NoHandshake}
  BY DEF Expected
<1>2. Expected(t, m) \in {t.state, t.previous} /\ Expected(t, m) \in Handshake
  BY <1>1, NoHandshakeIs DEF Tunn
<1> QED  BY <1>2 DEF Outstanding, Handshake, Sent

LEMMA TakenIs ==
  ASSUME NEW t \in Tunn, HandshakesInv(t), NEW h \in Outstanding(t)
  PROVE  LET u == Taken(t, h)
         IN  /\ u \in Tunn /\ SameRing(t, u) /\ u.timers = t.timers
             /\ u.boot = t.boot /\ u.allocated = t.allocated /\ u.last_timestamp = t.last_timestamp
             /\ u.started = t.started /\ u.unix = t.unix
             /\ HandshakesInv(u) /\ Outstanding(u) \subseteq Outstanding(t) /\ Made(u) = Made(t)
             /\ \A k \in Outstanding(u) : k.init.eph # h.init.eph
             /\ u.state \in {t.state, NoHandshake}
<1> DEFINE u == Taken(t, h)
<1>1. /\ u \in Tunn /\ SameRing(t, u) /\ u.timers = t.timers
      /\ u.boot = t.boot /\ u.allocated = t.allocated /\ u.last_timestamp = t.last_timestamp
      /\ u.started = t.started /\ u.unix = t.unix
      /\ \/ h = t.state /\ u.state = NoHandshake /\ u.previous = t.previous
         \/ h # t.state /\ u.state = t.state /\ u.previous = NoHandshake
  <2>1. CASE h = t.state
    <3>1. u = [t EXCEPT !.state = NoHandshake]
      BY <2>1 DEF Taken
    <3> HIDE DEF u
    <3> QED  BY <2>1, <3>1, NoHandshakeIs DEF Tunn, SameRing
  <2>2. CASE h # t.state
    <3>1. u = [t EXCEPT !.previous = NoHandshake]
      BY <2>2 DEF Taken
    <3> HIDE DEF u
    <3> QED  BY <2>2, <3>1, NoHandshakeIs DEF Tunn, SameRing
  <2> QED  BY <2>1, <2>2
<1> HIDE DEF u
<1>2. h.tag = "sent" /\ h \in {t.state, t.previous}
  BY DEF Outstanding
<1>3. Outstanding(u) \subseteq Outstanding(t) /\ Made(u) = Made(t)
  BY <1>1, NoHandshakeIs DEF Outstanding, Made
<1>4. \A k \in Outstanding(u) : k.init.eph # h.init.eph
  <2>1. SUFFICES ASSUME NEW k \in Outstanding(u) PROVE k.init.eph # h.init.eph
    OBVIOUS
  <2>2. \/ h = t.state /\ k = t.previous
        \/ h = t.previous /\ k = t.state
    BY <1>1, <1>2, NoHandshakeIs DEF Outstanding
  <2> QED  BY <1>2, <1>3, <2>2 DEF HandshakesInv, Outstanding
<1>5. HandshakesInv(u)
  <2>1. ~(u.state \in Outstanding(u) /\ u.previous \in Outstanding(u))
    BY <1>1, NoHandshakeIs DEF Outstanding
  <2> QED  BY <1>1, <1>3, <2>1 DEF HandshakesInv
<1>6. /\ u \in Tunn /\ SameRing(t, u) /\ u.timers = t.timers
      /\ u.boot = t.boot /\ u.allocated = t.allocated /\ u.last_timestamp = t.last_timestamp
      /\ u.started = t.started /\ u.unix = t.unix
      /\ HandshakesInv(u) /\ Outstanding(u) \subseteq Outstanding(t) /\ Made(u) = Made(t)
      /\ (\A k \in Outstanding(u) : k.init.eph # h.init.eph) /\ u.state \in {t.state, NoHandshake}
  BY <1>1, <1>3, <1>4, <1>5
<1> QED  BY <1>6 DEF u

LEMMA PlacedIs ==
  ASSUME NEW t \in Tunn, NEW a \in Session, NEW index \in Index
  PROVE  LET u == [t EXCEPT !.sessions[Slot(index)] = a]
         IN  /\ u \in Tunn /\ SameHandshakes(t, u)
             /\ u.sessions = [t.sessions EXCEPT ![Slot(index)] = a]
             /\ u.session_timers = t.session_timers /\ u.timers = t.timers
<1> DEFINE c == Slot(index)
           S == [t.sessions EXCEPT ![c] = a]
           u == [t EXCEPT !.sessions = S]
<1>1. c \in Ring
  BY SlotInRing DEF Index
<1>2. S \in [Ring -> Session \cup {NoSession}]
  BY <1>1 DEF Tunn
<1>3. [t EXCEPT !.sessions[Slot(index)] = a] = u
  OBVIOUS
<1> HIDE DEF c, S
<1>4. u \in Tunn /\ SameHandshakes(t, u) /\ u.sessions = S
      /\ u.session_timers = t.session_timers /\ u.timers = t.timers
  BY <1>2 DEF Tunn, SameHandshakes
<1> HIDE DEF u
<1> QED  BY <1>3, <1>4 DEF c, S

LEMMA CompleteKeeps ==
  ASSUME NEW e \in End, NEW b \in BOOLEAN, clock \in Nat, TunnInv(e, tunn[e], b),
         NEW m, m.kind = "resp", MessageInv(m), IsAnswer(e, m)
  PROVE  LET x == Complete(e, m)
         IN  /\ Good(e, x, b) /\ Noticed(x.t) /\ x.t.boot = tunn[e].boot
             /\ x.t.started = tunn[e].started /\ x.t.unix = tunn[e].unix
             /\ x.t.allocated = tunn[e].allocated /\ x.t.last_timestamp = tunn[e].last_timestamp
             /\ x.t.state \in {tunn[e].state, NoHandshake}
             /\ x.t.state.tag = "sent" => x.t.state.init # m.init
             /\ HasSent(x.t, 1) /\ x.q = Swept(waiting[e])
             /\ \A k \in x.out : k.kind = "data"
<1> DEFINE t == tunn[e]
           h == Expected(t, m)
           a == [key |-> <<Other(e), m.init, m.eph>>, local |-> h.index, remote |-> m.sender,
                 initiator |-> TRUE, sent |-> 1, born |-> clock]
           u == Taken(t, h)
           v == [u EXCEPT !.sessions[Slot(h.index)] = a]
           w == timer_tick(v, "LastPacketReceived")
           f == set_current_session(timer_tick_session_established(w, TRUE, h.index), h.index)
           o == {[kind |-> "data", to |-> Other(e), index |-> m.sender, key |-> a.key,
                  counter |-> 0, what |-> "keepalive"]}
           x == Complete(e, m)
<1>1. x = [Part(e) EXCEPT !.t = f, !.out = o]
  BY DEF Complete, Taken
<1>2. TunnInv(e, t, b) /\ CoreInv(e, t, b) /\ t \in Tunn /\ HandshakesInv(t)
  BY DEF TunnInv, CoreInv
<1>3. m.eph \in Nat \ {0} /\ m.sender \in Index /\ m.sender = IndexOf(m.eph) /\ m.init \in Initiation
  BY DEF MessageInv
<1>4. h.tag = "sent" /\ h.init = m.init
  BY DEF IsAnswer
<1>5. \A k \in o : MessageInv(k) /\ k.kind = "data"
  BY <1>3 DEF MessageInv
<1> HIDE DEF t, f, o, x
<1>6. x = [t |-> f, q |-> Swept(waiting[e]), out |-> o]
  BY <1>1 DEF Part
<1>7. x.t = f /\ x.out = o /\ x.q = Swept(waiting[e]) /\ IsPart(x)
  BY <1>6 DEF IsPart
<1>8. h \in Outstanding(t) /\ h.index \in Index /\ h.init.eph \in Nat
  BY <1>2, <1>4, ExpectedIs DEF Sent, Initiation
<1> HIDE DEF h
<1>9. h.init.eph <= Made(t) /\ h.index = IndexOf(h.init.eph) /\ Made(t) \in Nat
  BY <1>2, <1>8, MadeType DEF HandshakesInv
<1>10. a \in Session /\ a.local = h.index /\ a.born = clock /\ a.sent = 1 /\ a.initiator = TRUE
       /\ a.remote = m.sender /\ a.key[1] # e /\ a.key[2] = h.init /\ a.key[3] = m.eph
  <2> DEFINE k == <<Other(e), m.init, m.eph>>
  <2>1. k \in End \X Initiation \X Nat /\ k[1] # e /\ k[2] = m.init /\ k[3] = m.eph
    BY <1>3, OtherIs
  <2> HIDE DEF k
  <2>2. a = [key |-> k, local |-> h.index, remote |-> m.sender,
             initiator |-> TRUE, sent |-> 1, born |-> clock]
    BY DEF k
  <2> HIDE DEF a
  <2> QED  BY <1>3, <1>4, <1>8, <2>1, <2>2 DEF Session
<1> HIDE DEF a
<1>11. /\ u \in Tunn /\ SameRing(t, u) /\ u.timers = t.timers
       /\ u.boot = t.boot /\ u.allocated = t.allocated /\ u.last_timestamp = t.last_timestamp
       /\ u.started = t.started /\ u.unix = t.unix
       /\ HandshakesInv(u) /\ Outstanding(u) \subseteq Outstanding(t) /\ Made(u) = Made(t)
       /\ (\A k \in Outstanding(u) : k.init.eph # h.init.eph) /\ u.state \in {t.state, NoHandshake}
  BY ONLY <1>2, <1>8, TakenIs
<1> HIDE DEF u
<1>12. /\ v \in Tunn /\ SameHandshakes(u, v)
       /\ v.sessions = [u.sessions EXCEPT ![Slot(h.index)] = a]
       /\ v.session_timers = u.session_timers /\ v.timers = u.timers
  BY ONLY <1>8, <1>10, <1>11, PlacedIs
<1> HIDE DEF v
<1>13. w \in Tunn /\ SameRing(v, w) /\ SameHandshakes(v, w)
       /\ w.timers = [v.timers EXCEPT !["LastPacketReceived"] = v.timers["Current"]]
  BY ONLY <1>12, TickIs, TimerNames
<1> HIDE DEF w
<1>14. /\ w.timers["Current"] = t.timers["Current"]
       /\ w.timers["LastPacketReceived"] = t.timers["Current"]
       /\ \A n \in TimerName : w.timers[n] \in {t.timers[n], t.timers["Current"]}
  <2>1. t.timers \in [TimerName -> Nat] /\ "Current" \in TimerName
        /\ "LastPacketReceived" \in TimerName
    BY <1>2, TimerNames
  <2> QED  BY ONLY <1>11, <1>12, <1>13, <2>1
<1>15. /\ w.sessions = [t.sessions EXCEPT ![Slot(a.local)] = a]
       /\ w.session_timers = t.session_timers
  BY ONLY <1>10, <1>11, <1>12, <1>13 DEF SameRing
<1>16. SameHandshakes(u, w)
  BY ONLY <1>12, <1>13 DEF SameHandshakes
<1>17. Made(w) = Made(t) /\ Outstanding(w) = Outstanding(u)
  BY ONLY <1>11, <1>16 DEF SameHandshakes, Made, Outstanding
<1>18. HandshakesInv(w)
  <2>1. Made(w) = Made(u)
    BY <1>11, <1>17
  <2> QED  BY ONLY <1>11, <1>16, <1>17, <2>1 DEF SameHandshakes, HandshakesInv
<1>19. \A r \in Live(t) : t.sessions[r].initiator = a.initiator => t.sessions[r].key[2] # a.key[2]
  BY <1>2, <1>8, <1>10 DEF CoreInv, SessionInv
<1>20. TunnInv(e, f, b) /\ Noticed(f) /\ SameHandshakes(w, f)
       /\ f.current = a.local /\ f.sessions = w.sessions
  <2>1. Made(w) >= Made(t) /\ ~after(t.last_timestamp, w.last_timestamp)
        /\ Outstanding(w) \subseteq Outstanding(t)
    BY <1>2, <1>9, <1>11, <1>16, <1>17, StampOrder DEF SameHandshakes, Tunn
  <2>2. a.initiator <=> a.key[1] # e
    BY <1>10
  <2>3. a.initiator =>
           /\ a.local = IndexOf(a.key[2].eph) /\ a.remote = IndexOf(a.key[3])
           /\ a.key[2].eph <= Made(w) /\ (\A k \in Outstanding(w) : k.init.eph # a.key[2].eph)
    BY <1>3, <1>9, <1>10, <1>11, <1>17
  <2>4. ~a.initiator =>
           /\ a.local = IndexOf(a.key[3]) /\ a.remote = IndexOf(a.key[2].eph)
           /\ ~after(a.key[2].stamp, w.last_timestamp)
    BY <1>10
  <2>5. a.born = clock /\ a.sent <= REJECT_AFTER_MESSAGES
    BY <1>10, Constants
  <2> DEFINE i == a.initiator
  <2>6. f = set_current_session(timer_tick_session_established(w, i, a.local), a.local)
    BY <1>10 DEF f
  <2> HIDE DEF i
  <2>7. e \in End /\ b \in BOOLEAN /\ clock \in Nat /\ i \in BOOLEAN
    BY <1>10 DEF i
  <2>8. a \in Session /\ w \in Tunn
    BY <1>10, <1>13
  <2> QED  BY ONLY <1>2, <2>8, <1>14, <1>15, <1>18, <1>19, <2>1, <2>2, <2>3, <2>4, <2>5,
                   <2>6, <2>7, EstablishTail
<1>21. SameHandshakes(u, f)
  BY <1>16, <1>20 DEF SameHandshakes
<1>22. HasSent(f, 1)
  BY <1>2, <1>10, <1>13, <1>15, <1>20, NewSessionIs
<1>23. f.state.tag = "sent" => f.state.init # m.init
  BY <1>4, <1>11, <1>21 DEF SameHandshakes, Outstanding
<1>24. /\ Good(e, x, b) /\ Noticed(x.t) /\ x.t.boot = t.boot
       /\ x.t.started = t.started /\ x.t.unix = t.unix
       /\ x.t.allocated = t.allocated /\ x.t.last_timestamp = t.last_timestamp
       /\ x.t.state \in {t.state, NoHandshake}
       /\ x.t.state.tag = "sent" => x.t.state.init # m.init
       /\ HasSent(x.t, 1) /\ x.q = Swept(waiting[e]) /\ \A k \in x.out : k.kind = "data"
  BY <1>5, <1>7, <1>11, <1>20, <1>21, <1>22, <1>23 DEF Good, SameHandshakes
<1> QED  BY <1>24 DEF x, t
-----------------------------------------------------------------------------
(* The steps. *)

(* What is true of an end stays true while neither it nor the time changes. *)
LEMMA SameTime ==
  ASSUME NEW e \in End, NEW t, NEW b \in BOOLEAN, TunnInv(e, t, b), Noticed(t),
         tunn'[e] = t, clock' = clock, b <=> e \in ticked'
  PROVE  (TunnInv(e, tunn[e], e \in ticked) /\ Noticed(tunn[e]))'
<1>1. (TimersInv(tunn[e], e \in ticked))'
  BY DEF TunnInv, CoreInv, TimersInv
<1>2. (HandshakesInv(tunn[e]))'
  BY DEF TunnInv, CoreInv, HandshakesInv
<1>3. (\A s \in Live(tunn[e]) : SessionInv(e, tunn[e], s))'
  BY DEF TunnInv, CoreInv
<1>4. (NewestInv(tunn[e]) /\ SilenceInv(tunn[e]) /\ Noticed(tunn[e]) /\ tunn[e] \in Tunn)'
  BY DEF TunnInv, CoreInv
<1> QED  BY <1>1, <1>2, <1>3, <1>4 DEF TunnInv, CoreInv

LEMMA EndIs ==
  ASSUME TunnelInv, NEW e \in End
  PROVE  /\ clock \in Nat /\ tunn[e] \in Tunn /\ tunn[e].boot \in Nat
         /\ \E b \in BOOLEAN :
              /\ b <=> e \in ticked
              /\ TunnInv(e, tunn[e], b) /\ Noticed(tunn[e])
              /\ Good(e, Part(e), b) /\ Noticed(Part(e).t) /\ Part(e).t = tunn[e]
<1>1. clock \in Nat /\ TunnInv(e, tunn[e], e \in ticked) /\ Noticed(tunn[e])
  BY Constants DEF TunnelInv
<1>2. tunn[e] \in Tunn
  BY <1>1 DEF TunnInv, CoreInv
<1>3. tunn[e].boot \in Nat
  BY <1>2 DEF Tunn
<1> DEFINE b == e \in ticked
<1>4. b \in BOOLEAN /\ TunnInv(e, tunn[e], b)
  BY <1>1
<1>5. Part(e) = [t |-> tunn[e], q |-> Swept(waiting[e]), out |-> {}]
  BY DEF Part
<1>6. Part(e).t = tunn[e] /\ Part(e).out = {} /\ IsPart(Part(e))
  BY <1>5 DEF IsPart
<1>7. Good(e, Part(e), b)
  BY <1>4, <1>6 DEF Good
<1> HIDE DEF b
<1>8. b <=> e \in ticked
  BY DEF b
<1> QED  BY <1>1, <1>2, <1>3, <1>4, <1>6, <1>7, <1>8

LEMMA BootsIs ==
  ASSUME TunnelInv, NEW e \in End
  PROVE  Boots = tunn[e].boot + tunn[Other(e)].boot /\ Boots \in Nat
<1> DEFINE a == CHOOSE f \in End : TRUE
<1>1. a \in End
  OBVIOUS
<1>2. Boots = tunn[a].boot + tunn[Other(a)].boot
  BY DEF Boots
<1> HIDE DEF a
<1>3. a = e \/ (a = Other(e) /\ Other(a) = e)
  BY <1>1, OtherIs
<1>4. tunn[e].boot \in Nat /\ tunn[Other(e)].boot \in Nat
  BY EndIs, OtherIs
<1> QED  BY <1>2, <1>3, <1>4

(* A step that replaces end e's part by x keeps the invariant if x is good. *)
LEMMA StepKeeps ==
  ASSUME TunnelInv, NEW e \in End, NEW b \in BOOLEAN, NEW x, Good(e, x, b), Noticed(x.t),
         x.t.boot = tunn[e].boot, tunn' = [tunn EXCEPT ![e] = x.t],
         \A m \in net' : m \in net \/ m \in x.out,
         clock' = clock, ticked' \subseteq End, b <=> e \in ticked',
         \A f \in End : f # e => (f \in ticked' <=> f \in ticked),
         data' \in 0..MaxData, lost' \in 0..MaxLoss
  PROVE  TunnelInv'
<1>1. /\ DOMAIN tunn' = End /\ tunn'[e] = x.t
      /\ \A f \in End : f # e => tunn'[f] = tunn[f]
  BY DEF TunnelInv
<1>2. ASSUME NEW f \in End PROVE (TunnInv(f, tunn[f], f \in ticked) /\ Noticed(tunn[f]))'
  <2>1. CASE f = e
    <3>1. TunnInv(e, x.t, b)
      BY DEF Good
    <3> QED  BY <1>1, <2>1, <3>1, SameTime
  <2>2. CASE f # e
    <3>1. PICK c \in BOOLEAN : (c <=> f \in ticked) /\ TunnInv(f, tunn[f], c) /\ Noticed(tunn[f])
      BY EndIs
    <3> QED  BY <1>1, <2>2, <3>1, SameTime
  <2> QED  BY <2>1, <2>2
<1>3. \A f \in End : tunn'[f].boot + tunn'[Other(f)].boot <= MaxBoot
  <2>1. \A f \in End : tunn'[f].boot = tunn[f].boot
    BY <1>1
  <2> QED  BY <2>1, OtherIs DEF TunnelInv
<1>4. \A m \in net' : MessageInv(m)
  BY DEF TunnelInv, Good
<1>5. clock' \in 0..MaxTime
  BY DEF TunnelInv
<1> QED  BY <1>1, <1>2, <1>3, <1>4, <1>5 DEF TunnelInv

LEMMA RestIs ==
  ASSUME NEW m, NEW r \in Rest(m)
  PROVE  r \subseteq net
  BY DEF Rest

LEMMA EncapsulateInv ==
  ASSUME TunnelInv, NEW e \in End, NEW what, Encapsulate(e, what)
  PROVE  TunnelInv'
<1> DEFINE x == encapsulate(e, Part(e), what)
<1>1. PICK b \in BOOLEAN : /\ b <=> e \in ticked
                           /\ Good(e, Part(e), b) /\ Noticed(Part(e).t) /\ Part(e).t = tunn[e]
  BY EndIs
<1>2. clock \in Nat
  BY EndIs
<1>3. x.t.allocated <= MaxIndex /\ tunn' = [tunn EXCEPT ![e] = x.t] /\ net' = net \cup x.out
  BY DEF Encapsulate, Commit
<1>4. Good(e, x, b) /\ Noticed(x.t) /\ x.t.boot = tunn[e].boot
  BY <1>1, <1>2, <1>3, EncapsulateKeeps
<1> HIDE DEF x
<1>5. data' \in 0..MaxData /\ lost' \in 0..MaxLoss /\ clock' = clock /\ ticked' = ticked
  BY Constants DEF Encapsulate, TunnelInv
<1>6. ticked' \subseteq End
  BY <1>5 DEF TunnelInv
<1> QED  BY <1>1, <1>3, <1>4, <1>5, <1>6, StepKeeps

LEMMA HandshakeInitInv ==
  ASSUME TunnelInv, NEW e \in End, NEW m \in net, HandleHandshakeInit(e, m)
  PROVE  TunnelInv'
<1> DEFINE y == Respond(e, m)
           x == flush_queued_packets(e, y)
<1>1. PICK b \in BOOLEAN : (b <=> e \in ticked) /\ TunnInv(e, tunn[e], b)
  BY EndIs
<1>2. clock \in Nat
  BY EndIs
<1>3. PICK r \in Rest(m) : Commit(e, x, r)
  BY DEF HandleHandshakeInit
<1>4. x.t.allocated <= MaxIndex /\ tunn' = [tunn EXCEPT ![e] = x.t] /\ net' = r \cup x.out
  BY <1>3 DEF Commit
<1>5. m.kind = "init" /\ MessageInv(m) /\ IsNewInit(e, m)
  BY DEF HandleHandshakeInit, TunnelInv
<1>6. Good(e, y, b) /\ Noticed(y.t) /\ y.t.boot = tunn[e].boot
  BY <1>1, <1>2, <1>4, <1>5, RespondKeeps
<1> HIDE DEF y
<1>7. Good(e, x, b) /\ Noticed(x.t) /\ x.t.boot = tunn[e].boot
  BY <1>2, <1>6, FlushKeeps
<1> HIDE DEF x
<1>8. data' \in 0..MaxData /\ lost' \in 0..MaxLoss /\ clock' = clock /\ ticked' = ticked
  BY DEF HandleHandshakeInit, TunnelInv
<1>9. ticked' \subseteq End /\ \A k \in net' : k \in net \/ k \in x.out
  BY <1>3, <1>4, <1>8, RestIs DEF TunnelInv
<1> QED  BY <1>1, <1>4, <1>7, <1>8, <1>9, StepKeeps

LEMMA HandshakeResponseInv ==
  ASSUME TunnelInv, NEW e \in End, NEW m \in net, HandleHandshakeResponse(e, m)
  PROVE  TunnelInv'
<1> DEFINE y == Complete(e, m)
           x == flush_queued_packets(e, y)
<1>1. PICK b \in BOOLEAN : (b <=> e \in ticked) /\ TunnInv(e, tunn[e], b)
  BY EndIs
<1>2. clock \in Nat
  BY EndIs
<1>3. PICK r \in Rest(m) : Commit(e, x, r)
  BY DEF HandleHandshakeResponse
<1>4. tunn' = [tunn EXCEPT ![e] = x.t] /\ net' = r \cup x.out
  BY <1>3 DEF Commit
<1>5. m.kind = "resp" /\ MessageInv(m) /\ IsAnswer(e, m)
  BY DEF HandleHandshakeResponse, TunnelInv
<1>6. Good(e, y, b) /\ Noticed(y.t) /\ y.t.boot = tunn[e].boot
  BY <1>1, <1>2, <1>5, CompleteKeeps
<1> HIDE DEF y
<1>7. Good(e, x, b) /\ Noticed(x.t) /\ x.t.boot = tunn[e].boot
  BY <1>2, <1>6, FlushKeeps
<1> HIDE DEF x
<1>8. data' \in 0..MaxData /\ lost' \in 0..MaxLoss /\ clock' = clock /\ ticked' = ticked
  BY DEF HandleHandshakeResponse, TunnelInv
<1>9. ticked' \subseteq End /\ \A k \in net' : k \in net \/ k \in x.out
  BY <1>3, <1>4, <1>8, RestIs DEF TunnelInv
<1> QED  BY <1>1, <1>4, <1>7, <1>8, <1>9, StepKeeps

LEMMA DataInv ==
  ASSUME TunnelInv, NEW e \in End, NEW m \in net, HandleData(e, m)
  PROVE  TunnelInv'
<1> DEFINE v == timer_tick(set_current_session(tunn[e], m.index), "LastPacketReceived")
           w == validate_decapsulated_packet(v, m)
           x == [Part(e) EXCEPT !.t = w]
<1>1. PICK b \in BOOLEAN : (b <=> e \in ticked) /\ TunnInv(e, tunn[e], b)
  BY EndIs
<1>2. clock \in Nat
  BY EndIs
<1>3. tunn' = [tunn EXCEPT ![e] = x.t] /\ net' = (net \ {m}) \cup x.out
  BY DEF HandleData, Commit
<1>4. m.index \in Index /\ Opens(tunn[e], m)
  BY DEF HandleData, TunnelInv, MessageInv
<1>5. TunnInv(e, w, b) /\ Noticed(w) /\ w.boot = tunn[e].boot
  BY <1>1, <1>2, <1>4, HandleDataKeeps
<1> HIDE DEF w
<1>6. x = [t |-> w, q |-> Swept(waiting[e]), out |-> {}]
  BY DEF Part
<1> HIDE DEF x
<1>7. Good(e, x, b) /\ Noticed(x.t) /\ x.t.boot = tunn[e].boot
  BY <1>5, <1>6 DEF Good, IsPart
<1>8. data' \in 0..MaxData /\ lost' \in 0..MaxLoss /\ clock' = clock /\ ticked' = ticked
  BY DEF HandleData, TunnelInv
<1>9. ticked' \subseteq End /\ \A k \in net' : k \in net \/ k \in x.out
  BY <1>3, <1>8 DEF TunnelInv
<1> QED  BY <1>1, <1>3, <1>7, <1>8, <1>9, StepKeeps

LEMMA TimerTickInv ==
  ASSUME TunnelInv, NEW e \in End, HandleTimerTick(e)
  PROVE  TunnelInv'
<1> DEFINE x == update_timers(e, Part(e))
<1>1. PICK b \in BOOLEAN : Good(e, Part(e), b) /\ Part(e).t = tunn[e]
  BY EndIs
<1>2. clock \in Nat
  BY EndIs
<1>3. x.t.allocated <= MaxIndex /\ tunn' = [tunn EXCEPT ![e] = x.t] /\ net' = net \cup x.out
  BY DEF HandleTimerTick, Commit
<1>4. Good(e, x, TRUE) /\ Noticed(x.t) /\ x.t.boot = tunn[e].boot
  BY <1>1, <1>2, <1>3, UpdateTimersKeep
<1> HIDE DEF x
<1>5. data' \in 0..MaxData /\ lost' \in 0..MaxLoss /\ clock' = clock /\ ticked' = ticked \cup {e}
  BY DEF HandleTimerTick, TunnelInv
<1>6. ticked' \subseteq End /\ \A k \in net' : k \in net \/ k \in x.out
  BY <1>3, <1>5 DEF TunnelInv
<1>7. PICK c \in BOOLEAN : c = TRUE
  OBVIOUS
<1>8. Good(e, x, c) /\ (c <=> e \in ticked')
  BY <1>4, <1>5, <1>7
<1> QED  BY <1>3, <1>4, <1>5, <1>6, <1>8, StepKeeps

(* Messages that are refused or lost, and steps that leave all as it is. *)
LEMMA QuietKeeps ==
  ASSUME TunnelInv, tunn' = tunn, clock' = clock, ticked' = ticked, net' \subseteq net,
         data' = data, lost' \in 0..MaxLoss
  PROVE  TunnelInv'
<1>1. ASSUME NEW f \in End PROVE (TunnInv(f, tunn[f], f \in ticked) /\ Noticed(tunn[f]))'
  <2>1. PICK c \in BOOLEAN : (c <=> f \in ticked) /\ TunnInv(f, tunn[f], c) /\ Noticed(tunn[f])
    BY EndIs
  <2>2. tunn'[f] = tunn[f] /\ (c <=> f \in ticked')
    BY <2>1
  <2> QED  BY <2>1, <2>2, SameTime
<1> QED  BY <1>1 DEF TunnelInv

LEMMA AdvanceInv ==
  ASSUME TunnelInv, Advance
  PROVE  TunnelInv'
<1>1. ticked = End /\ clock' = clock + 1 /\ ticked' = {} /\ tunn' = tunn /\ net' = net
      /\ data' = data /\ lost' = lost /\ clock < MaxTime /\ clock \in Nat
  BY Constants DEF Advance, TunnelInv
<1>2. ASSUME NEW f \in End PROVE (TunnInv(f, tunn[f], f \in ticked) /\ Noticed(tunn[f]))'
  <2>1. PICK c \in BOOLEAN : (c <=> f \in ticked) /\ TunnInv(f, tunn[f], c) /\ Noticed(tunn[f])
    BY EndIs
  <2>2. tunn'[f] = tunn[f] /\ f \notin ticked' /\ c
    BY <1>1, <2>1
  <2>3. tunn[f] \in Tunn
    BY EndIs
  <2> DEFINE t == tunn[f]
  <2> HIDE DEF t
  <2>4. t \in Tunn /\ TunnInv(f, t, c) /\ tunn'[f] = t /\ Noticed(t)
    BY <2>1, <2>2, <2>3 DEF t
  <2>5. t.timers["Current"] \in Nat /\ (\A s \in Ring : t.session_timers[s] \in Nat)
        /\ (\A s \in Live(t) : s \in Ring)
    BY <2>4, TimerNames, LiveIs DEF Tunn
  <2>6. t.timers["Current"] = clock
        /\ (\A s \in Live(t) : clock <= t.session_timers[s] + REJECT_AFTER_TIME)
    BY <2>2, <2>4 DEF TunnInv, CoreInv, TimersInv
  <2>7. t.timers["Current"] <= clock' /\ clock' <= t.timers["Current"] + 1
        /\ \A s \in Live(t) : clock' <= t.session_timers[s] + REJECT_AFTER_TIME + 1
    BY <1>1, <2>5, <2>6, Constants
  <2>8. (TimersInv(tunn[f], f \in ticked))'
    BY <2>2, <2>4, <2>7 DEF TunnInv, CoreInv, TimersInv
  <2>9. (HandshakesInv(tunn[f]))'
    <3>1. \A h \in Outstanding(t) : h.at \in Nat
      BY <2>4 DEF Outstanding, Tunn, Handshake, Sent
    <3>2. t.started <= clock' /\ \A h \in Outstanding(t) : h.at <= clock'
      BY <1>1, <2>4, <3>1 DEF Tunn, TunnInv, CoreInv, HandshakesInv
    <3> QED  BY <2>4, <3>2 DEF TunnInv, CoreInv, HandshakesInv
  <2>10. (\A s \in Live(tunn[f]) : SessionInv(f, tunn[f], s))'
    BY <2>4 DEF TunnInv, CoreInv
  <2>11. (NewestInv(tunn[f]) /\ SilenceInv(tunn[f]) /\ Noticed(tunn[f]) /\ tunn[f] \in Tunn)'
    BY <2>4 DEF TunnInv, CoreInv
  <2> QED  BY <2>8, <2>9, <2>10, <2>11 DEF TunnInv, CoreInv
<1>3. clock' \in 0..MaxTime
  BY <1>1, Constants
<1>4. ticked' \subseteq End
  BY <1>1
<1> QED  BY <1>1, <1>2, <1>3, <1>4 DEF TunnelInv

(* A new Tunn is idle, with every timer at the present time. *)
LEMMA NewTunnIs ==
  ASSUME NEW e \in End, NEW b \in BOOLEAN, NEW boot \in Nat, NEW unix \in Nat, clock \in Nat
  PROVE  LET t == NewTunn(boot, unix)
         IN  /\ TunnInv(e, t, b) /\ Noticed(t) /\ t.boot = boot /\ t.started = clock
             /\ t.unix = unix /\ t.last_timestamp = zero /\ t.state = NoHandshake
<1> DEFINE S == [s \in Ring |-> NoSession]
           T == [n \in TimerName |-> clock]
           U == [s \in Ring |-> clock]
           k == PERSISTENT_KEEPALIVE > 0
           t == NewTunn(boot, unix)
<1>1. t = [boot |-> boot, started |-> clock, unix |-> unix, allocated |-> 0, last_timestamp |-> zero,
           previous |-> NoHandshake, state |-> NoHandshake, sessions |-> S, current |-> 0,
           timers |-> T, session_timers |-> U, is_initiator |-> FALSE,
           want_keepalive |-> FALSE, want_handshake |-> FALSE, send_initial_keepalive |-> k]
  BY DEF NewTunn, Ring
<1>2. /\ S \in [Ring -> Session \cup {NoSession}] /\ T \in [TimerName -> Nat]
      /\ U \in [Ring -> Nat] /\ k \in BOOLEAN /\ 0 \in Index
      /\ zero \in Tai64N
  BY Constants DEF Index, zero, Tai64N
<1>3. (\A s \in Ring : S[s] = NoSession /\ U[s] = clock) /\ (\A n \in TimerName : T[n] = clock)
      /\ "Current" \in TimerName /\ "LastPacketReceived" \in TimerName
      /\ "LastDataPacketSent" \in TimerName
  BY DEF TimerName
<1> HIDE DEF S, T, U, k, t
<1>4. t \in Tunn
  BY <1>1, <1>2, NoHandshakeIs DEF Tunn
<1>5. /\ t.sessions = S /\ t.timers = T /\ t.session_timers = U /\ t.allocated = 0
      /\ t.state = NoHandshake /\ t.previous = NoHandshake /\ t.boot = boot
      /\ t.started = clock /\ t.unix = unix /\ t.last_timestamp = zero
  BY <1>1
<1>6. Live(t) = {} /\ Outstanding(t) = {}
  BY <1>3, <1>4, <1>5, LiveIs, NoHandshakeIs DEF Outstanding
<1>7. TimersInv(t, b)
  BY <1>3, <1>5, <1>6 DEF TimersInv
<1>8. HandshakesInv(t) /\ NewestInv(t)
  BY <1>5, <1>6, Constants DEF HandshakesInv, NewestInv
<1>9. SilenceInv(t) /\ Noticed(t)
  BY <1>3, <1>5 DEF SilenceInv, Noticed
<1>10. TunnInv(e, t, b)
  BY <1>4, <1>6, <1>7, <1>8, <1>9 DEF TunnInv, CoreInv
<1> QED  BY <1>5, <1>9, <1>10 DEF t

LEMMA RestartInv ==
  ASSUME TunnelInv, NEW e \in End, Restart(e)
  PROVE  TunnelInv'
<1>0. PICK unix \in WallClock : tunn' = [tunn EXCEPT ![e] = NewTunn(@.boot + 1, unix)]
  BY DEF Restart
<1> DEFINE t == NewTunn(tunn[e].boot + 1, unix)
<1>1. tunn' = [tunn EXCEPT ![e] = t] /\ clock' = clock /\ ticked' = ticked /\ net' = net
      /\ data' = data /\ lost' = lost /\ Boots < MaxBoot
  BY <1>0 DEF Restart
<1>2. clock \in Nat /\ tunn[e].boot \in Nat /\ unix \in Nat
  BY EndIs, Constants DEF WallClock
<1>3. PICK b \in BOOLEAN : b <=> e \in ticked
  BY EndIs
<1>4. TunnInv(e, t, b) /\ Noticed(t) /\ t.boot = tunn[e].boot + 1
  BY <1>2, NewTunnIs
<1> HIDE DEF t
<1>5. /\ DOMAIN tunn' = End /\ tunn'[e] = t
      /\ \A f \in End : f # e => tunn'[f] = tunn[f]
  BY <1>1 DEF TunnelInv
<1>6. ASSUME NEW f \in End PROVE (TunnInv(f, tunn[f], f \in ticked) /\ Noticed(tunn[f]))'
  <2>1. CASE f = e
    BY <1>1, <1>3, <1>4, <1>5, <2>1, SameTime
  <2>2. CASE f # e
    <3>1. PICK c \in BOOLEAN : (c <=> f \in ticked) /\ TunnInv(f, tunn[f], c) /\ Noticed(tunn[f])
      BY EndIs
    <3>2. tunn'[f] = tunn[f] /\ (c <=> f \in ticked')
      BY <1>1, <1>5, <2>2, <3>1
    <3> QED  BY <1>1, <3>1, <3>2, SameTime
  <2> QED  BY <2>1, <2>2
<1>7. ASSUME NEW f \in End PROVE tunn'[f].boot + tunn'[Other(f)].boot <= MaxBoot
  <2> DEFINE g == Other(e)
  <2>1. g \in End /\ g # e /\ ((f = e /\ Other(f) = g) \/ (f = g /\ Other(f) = e))
    BY OtherIs
  <2>2. Boots = tunn[e].boot + tunn[g].boot /\ tunn[g].boot \in Nat
    BY <2>1, BootsIs, EndIs
  <2> HIDE DEF g
  <2>3. tunn'[e].boot = tunn[e].boot + 1 /\ tunn'[g].boot = tunn[g].boot
    BY <1>4, <1>5, <2>1
  <2>4. tunn'[e].boot + tunn'[g].boot <= MaxBoot /\ tunn'[g].boot + tunn'[e].boot <= MaxBoot
    BY <1>1, <1>2, <2>2, <2>3, Constants
  <2> QED  BY <2>1, <2>4
<1> QED  BY <1>1, <1>5, <1>6, <1>7 DEF TunnelInv

LEMMA InitInv == Init => TunnelInv
<1> SUFFICES ASSUME Init PROVE TunnelInv
  OBVIOUS
<1>1. clock = 0 /\ ticked = {} /\ net = {} /\ data = 0 /\ lost = 0 /\ DOMAIN tunn = End
      /\ \E unix \in [End -> WallClock] : \A e \in End : tunn[e] = NewTunn(0, unix[e])
  BY DEF Init
<1>2. ASSUME NEW e \in End PROVE TunnInv(e, tunn[e], e \in ticked) /\ Noticed(tunn[e]) /\ tunn[e].boot = 0
  <2>1. PICK b \in BOOLEAN : b <=> e \in ticked
    BY <1>1
  <2>2. PICK unix \in [End -> WallClock] : \A f \in End : tunn[f] = NewTunn(0, unix[f])
    BY <1>1
  <2>3. clock \in Nat /\ 0 \in Nat /\ unix[e] \in Nat /\ tunn[e] = NewTunn(0, unix[e])
    BY <1>1, <2>2, Constants DEF WallClock
  <2>4. TunnInv(e, tunn[e], b) /\ Noticed(tunn[e]) /\ tunn[e].boot = 0
    BY <2>3, NewTunnIs
  <2> QED  BY <1>1, <2>1, <2>4 DEF TunnInv, CoreInv, TimersInv
<1>3. \A e \in End : tunn[e].boot + tunn[Other(e)].boot <= MaxBoot
  BY <1>2, OtherIs, Constants
<1> QED  BY <1>1, <1>2, <1>3, Constants DEF TunnelInv

LEMMA NextInv == TunnelInv /\ [Next]_vars => TunnelInv'
<1> SUFFICES ASSUME TunnelInv, [Next]_vars PROVE TunnelInv'
  OBVIOUS
<1>1. CASE UNCHANGED vars
  <2>1. lost' \in 0..MaxLoss
    BY <1>1 DEF vars, TunnelInv
  <2> QED  BY <1>1, <2>1, QuietKeeps DEF vars
<1>2. ASSUME NEW e \in End, NEW what, Encapsulate(e, what) PROVE TunnelInv'
  BY <1>2, EncapsulateInv
<1>3. ASSUME NEW e \in End, HandleTimerTick(e) PROVE TunnelInv'
  BY <1>3, TimerTickInv
<1>4. ASSUME NEW e \in End, Restart(e) PROVE TunnelInv'
  BY <1>4, RestartInv
<1>5. ASSUME NEW e \in End, NEW m \in net, HandleHandshakeInit(e, m) PROVE TunnelInv'
  BY <1>5, HandshakeInitInv
<1>6. ASSUME NEW e \in End, NEW m \in net, HandleHandshakeResponse(e, m) PROVE TunnelInv'
  BY <1>6, HandshakeResponseInv
<1>7. ASSUME NEW e \in End, NEW m \in net, HandleData(e, m) PROVE TunnelInv'
  BY <1>7, DataInv
<1>8. ASSUME NEW e \in End, NEW m \in net, Refuse(e, m) PROVE TunnelInv'
  <2>1. lost' \in 0..MaxLoss /\ net' \subseteq net
    BY <1>8 DEF Refuse, TunnelInv
  <2> QED  BY <1>8, <2>1, QuietKeeps DEF Refuse
<1>9. ASSUME NEW m \in net, Lose(m) PROVE TunnelInv'
  <2>1. lost' \in 0..MaxLoss /\ net' \subseteq net
    BY <1>9, Constants DEF Lose, TunnelInv
  <2> QED  BY <1>9, <2>1, QuietKeeps DEF Lose
<1>10. CASE Advance
  BY <1>10, AdvanceInv
<1> QED  BY <1>1, <1>2, <1>3, <1>4, <1>5, <1>6, <1>7, <1>8, <1>9, <1>10 DEF Next

LEMMA TunnelInvariant == Spec => []TunnelInv
  BY InitInv, NextInv, PTL DEF Spec
-----------------------------------------------------------------------------
(* What the invariant says of the program. *)

LEMMA MadeBound ==
  ASSUME NEW t \in Tunn, t.boot <= MaxBoot, t.allocated <= MaxIndex
  PROVE  Made(t) <= (MaxBoot + 1) * MaxIndex
<1> DEFINE B == t.boot
           M == MaxIndex
           X == MaxBoot
<1>1. B \in Nat /\ M \in Nat /\ X \in Nat /\ t.allocated \in Nat /\ B <= X
  BY Constants DEF Tunn
<1> HIDE DEF B, M, X
<1>2. B * M <= X * M /\ (X + 1) * M = (X * M) + M /\ B * M \in Nat /\ X * M \in Nat
  BY <1>1
<1>3. Made(t) = (B * M) + t.allocated /\ t.allocated <= M
  BY DEF Made, B, M
<1>4. Made(t) <= (X + 1) * M
  BY <1>1, <1>2, <1>3
<1> QED  BY <1>4 DEF X, M

(* No subtraction of times underflows and no session sends beyond its       *)
(* nonces, in any interleaving (timers.rs update_timers, session.rs): every *)
(* field of a Tunn is in range and no timer is ahead of the clock.          *)
THEOREM TypeCorrect == Spec => []TypeOK
<1>1. TunnelInv => TypeOK
  <2> SUFFICES ASSUME TunnelInv PROVE TypeOK
    OBVIOUS
  <2>1. ASSUME NEW e \in End
        PROVE  LET t == tunn[e]
               IN  /\ t.allocated \in 0..MaxIndex /\ t.current \in 0..INDEXES - 1
                   /\ \A h \in {t.state, t.previous} :
                        h \in {NoHandshake, Expired} \/ IsOutstanding(h)
                   /\ \A n \in TimerName : t.timers[n] \in 0..t.timers["Current"]
                   /\ t.timers["Current"] <= clock
                   /\ \A s \in DOMAIN t.sessions : t.session_timers[s] \in 0..t.timers["Current"]
                   /\ \A s \in Live(t) : t.sessions[s].sent \in 0..REJECT_AFTER_MESSAGES
    <3>1. PICK b \in BOOLEAN : TunnInv(e, tunn[e], b)
      BY EndIs
    <3> DEFINE t == tunn[e]
    <3>2. clock \in Nat /\ t \in Tunn /\ CoreInv(e, t, b) /\ t.boot <= MaxBoot
      <4>1. t.boot \in Nat /\ tunn[Other(e)].boot \in Nat /\ t.boot + tunn[Other(e)].boot <= MaxBoot
        BY EndIs, OtherIs DEF TunnelInv
      <4> QED  BY <3>1, <4>1, EndIs, Constants DEF TunnInv
    <3> HIDE DEF t
    <3>3. t.allocated \in 0..MaxIndex /\ t.current \in 0..INDEXES - 1
      BY <3>2, Constants DEF CoreInv, HandshakesInv, Tunn, Index
    <3>4. ASSUME NEW h \in {t.state, t.previous}
          PROVE  h \in {NoHandshake, Expired} \/ IsOutstanding(h)
      <4>1. h \in Handshake
        BY <3>2 DEF Tunn
      <4>2. CASE h \in [tag : {"none"}]
        BY <4>2 DEF NoHandshake
      <4>3. CASE h \in [tag : {"expired"}]
        BY <4>3 DEF Expired
      <4>4. CASE h \in Sent
        <5>1. h.index \in Index /\ h.init.eph \in Nat /\ h.at \in Nat /\ h \in Outstanding(t)
          BY <4>4 DEF Outstanding, Sent, Initiation
        <5>2. h.init.eph \in 1..Made(t) /\ h.at <= clock
          BY <3>2, <5>1 DEF CoreInv, HandshakesInv
        <5>3. Made(t) <= (MaxBoot + 1) * MaxIndex
          BY <3>2, MadeBound DEF CoreInv, HandshakesInv
        <5>4. Made(t) \in Nat /\ (MaxBoot + 1) * MaxIndex \in Nat
          BY <3>2, MadeType, Constants
        <5>5. h.init.eph \in 1..(MaxBoot + 1) * MaxIndex
          BY <5>1, <5>2, <5>3, <5>4
        <5>6. h.at \in 0..clock
          BY <3>2, <5>1, <5>2
        <5> QED  BY <5>1, <5>5, <5>6 DEF IsOutstanding, Index
      <4> QED  BY <4>1, <4>2, <4>3, <4>4 DEF Handshake
    <3>5. /\ \A n \in TimerName : t.timers[n] \in 0..t.timers["Current"]
          /\ t.timers["Current"] <= clock
      BY <3>2, TimerNames DEF CoreInv, TimersInv
    <3>6. \A s \in DOMAIN t.sessions : t.session_timers[s] \in 0..t.timers["Current"]
      <4>1. DOMAIN t.sessions = Ring /\ t.session_timers \in [Ring -> Nat]
        BY <3>2 DEF Tunn
      <4> QED  BY <3>2, <4>1, TimerNames DEF CoreInv, TimersInv
    <3>7. \A s \in Live(t) : t.sessions[s].sent \in 0..REJECT_AFTER_MESSAGES
      <4>1. \A s \in Live(t) : t.sessions[s] \in Session
        BY <3>2, LiveIs
      <4> QED  BY <3>2, <4>1, Constants DEF CoreInv, SessionInv, Session
    <3> QED  BY <3>3, <3>4, <3>5, <3>6, <3>7 DEF t
  <2> QED  BY <2>1 DEF TypeOK, TunnelInv
<1> QED  BY <1>1, TunnelInvariant, PTL

(* Two ends that hold the same key address each other, and no initiation    *)
(* makes two sessions in one role, however messages are lost, copied,       *)
(* reordered or answered after a restart (handle_handshake_init,            *)
(* handle_handshake_response).                                              *)
THEOREM SessionsAlwaysPair == Spec => []SessionsPair
<1>1. TunnelInv => SessionsPair
  <2> SUFFICES ASSUME TunnelInv, NEW e \in End, NEW s \in Live(tunn[e])
               PROVE  LET a == tunn[e].sessions[s]
                      IN  /\ \A r \in Live(tunn[Other(e)]) :
                               LET b == tunn[Other(e)].sessions[r]
                               IN  a.key = b.key => /\ a.local = b.remote /\ a.remote = b.local
                                                    /\ a.initiator # b.initiator
                          /\ \A r \in Live(tunn[e]) \ {s} :
                               LET b == tunn[e].sessions[r]
                               IN  a.initiator = b.initiator => a.key[2] # b.key[2]
    BY DEF SessionsPair
  <2>1. \A f \in End : /\ tunn[f] \in Tunn
                       /\ \A r \in Live(tunn[f]) : /\ SessionInv(f, tunn[f], r)
                                                   /\ tunn[f].sessions[r] \in Session
    <3>1. SUFFICES ASSUME NEW f \in End
                   PROVE  /\ tunn[f] \in Tunn
                          /\ \A r \in Live(tunn[f]) : /\ SessionInv(f, tunn[f], r)
                                                      /\ tunn[f].sessions[r] \in Session
      OBVIOUS
    <3>2. PICK b \in BOOLEAN : TunnInv(f, tunn[f], b)
      BY EndIs
    <3> QED  BY <3>2, LiveIs DEF TunnInv, CoreInv
  <2>2. Other(e) \in End /\ End = {e, Other(e)} /\ Other(e) # e
    BY OtherIs
  <2>3. ASSUME NEW r \in Live(tunn[Other(e)]),
               tunn[e].sessions[s].key = tunn[Other(e)].sessions[r].key
        PROVE  /\ tunn[e].sessions[s].local = tunn[Other(e)].sessions[r].remote
               /\ tunn[e].sessions[s].remote = tunn[Other(e)].sessions[r].local
               /\ tunn[e].sessions[s].initiator # tunn[Other(e)].sessions[r].initiator
    <3> DEFINE f == Other(e)
               a == tunn[e].sessions[s]
               b == tunn[f].sessions[r]
    <3>1. SessionInv(e, tunn[e], s) /\ SessionInv(f, tunn[f], r) /\ a \in Session /\ b \in Session
          /\ a.key = b.key
      BY <2>1, <2>2, <2>3
    <3>2. a.key[1] \in {e, f} /\ a.initiator \in BOOLEAN /\ b.initiator \in BOOLEAN
      BY <2>2, <3>1 DEF Session
    <3>3. (a.initiator <=> a.key[1] # e) /\ (b.initiator <=> b.key[1] # f)
      BY <3>1 DEF SessionInv
    <3>4. /\ a.initiator => a.local = IndexOf(a.key[2].eph) /\ a.remote = IndexOf(a.key[3])
          /\ ~a.initiator => a.local = IndexOf(a.key[3]) /\ a.remote = IndexOf(a.key[2].eph)
          /\ b.initiator => b.local = IndexOf(b.key[2].eph) /\ b.remote = IndexOf(b.key[3])
          /\ ~b.initiator => b.local = IndexOf(b.key[3]) /\ b.remote = IndexOf(b.key[2].eph)
      BY <3>1 DEF SessionInv
    <3>5. f # e
      BY <2>2
    <3> HIDE DEF a, b, f
    <3>6. a.initiator <=> ~b.initiator
      BY <3>1, <3>2, <3>3, <3>5
    <3>7. a.local = b.remote /\ a.remote = b.local /\ a.initiator # b.initiator
      BY <3>1, <3>2, <3>4, <3>6
    <3> QED  BY <3>7 DEF a, b, f
  <2>4. ASSUME NEW r \in Live(tunn[e]) \ {s},
               tunn[e].sessions[s].initiator = tunn[e].sessions[r].initiator
        PROVE  tunn[e].sessions[s].key[2] # tunn[e].sessions[r].key[2]
    BY <2>1, <2>4 DEF SessionInv
  <2> QED  BY <2>3, <2>4
<1> QED  BY <1>1, TunnelInvariant, PTL

(* An end that holds a session sends on one no older than any other         *)
(* (set_current_session, update_session_timers).                            *)
THEOREM CurrentNewest == Spec => []CurrentIsNewest
<1>1. TunnelInv => CurrentIsNewest
  BY DEF TunnelInv, TunnInv, CoreInv, NewestInv, CurrentIsNewest
<1> QED  BY <1>1, TunnelInvariant, PTL

(* No key outlives REJECT_AFTER_TIME by more than one tick                  *)
(* (update_session_timers).                                                 *)
THEOREM SessionsAlwaysRetire == Spec => []SessionsRetire
<1>1. TunnelInv => SessionsRetire
  <2> SUFFICES ASSUME TunnelInv, NEW e \in End, NEW s \in Live(tunn[e])
               PROVE  clock - tunn[e].sessions[s].born <= REJECT_AFTER_TIME + 1
    BY DEF SessionsRetire
  <2>1. PICK b \in BOOLEAN : TunnInv(e, tunn[e], b)
    BY EndIs
  <2>2. clock \in Nat /\ tunn[e] \in Tunn
    BY EndIs
  <2>3. s \in Ring /\ tunn[e].sessions[s] \in Session
    BY <2>2, LiveIs
  <2>4. tunn[e].sessions[s].born \in Nat /\ tunn[e].session_timers[s] \in Nat
    BY <2>2, <2>3 DEF Session, Tunn
  <2>5. /\ tunn[e].session_timers[s] <= tunn[e].sessions[s].born
        /\ clock <= tunn[e].session_timers[s] + REJECT_AFTER_TIME + 1
    BY <2>1 DEF TunnInv, CoreInv, TimersInv
  <2> QED  BY <2>2, <2>4, <2>5, Constants
<1> QED  BY <1>1, TunnelInvariant, PTL

(* An end that has sent data and heard nothing since for the keepalive and  *)
(* rekey timeouts is in a handshake at the next tick, or has given up       *)
(* (update_timers, want_handshake).                                         *)
THEOREM SilenceNoticed == Spec => []SilenceIsNoticed
<1>1. TunnelInv => SilenceIsNoticed
  BY DEF TunnelInv, Noticed, SilenceIsNoticed
<1> QED  BY <1>1, TunnelInvariant, PTL
-----------------------------------------------------------------------------
(* The queue. *)

(* Every set of naturals has a least member. *)
LEMMA HasLeast ==
  ASSUME NEW S \in SUBSET Nat, S # {}
  PROVE  \E x \in S : \A y \in S : x <= y
<1> DEFINE R == OpToRel(<, Nat)
<1>1. IsWellFoundedOn(R, Nat)
  BY NatLessThanWellFounded, Zenon
<1> HIDE DEF R
<1>2. PICK x \in S : \A y \in S : ~(<<y, x>> \in R)
  BY <1>1, WFMin
<1>3. ASSUME NEW y \in Nat, y < x PROVE <<y, x>> \in R
  <2>1. <<y, x>> \in Nat \X Nat /\ <<y, x>>[1] < <<y, x>>[2]
    BY <1>3
  <2> QED  BY <2>1 DEF R, OpToRel
<1>4. ASSUME NEW y \in S PROVE x <= y
  <2>1. x \in Nat /\ y \in Nat
    OBVIOUS
  <2>2. ~(y < x)
    BY <1>2, <1>3, <2>1
  <2> QED  BY <2>1, <2>2
<1> QED  BY <1>4

(* A set of naturals that has 0 and, with a number, the next one, has all   *)
(* numbers up to n.                                                         *)
LEMMA UpTo ==
  ASSUME NEW n \in Nat, NEW S, 0 \in S, \A i \in 1..n : i - 1 \in S => i \in S
  PROVE  \A i \in 0..n : i \in S
<1> DEFINE Bad == {i \in 0..n : i \notin S}
<1>1. SUFFICES ASSUME Bad # {} PROVE FALSE
  OBVIOUS
<1>2. Bad \in SUBSET Nat
  OBVIOUS
<1> HIDE DEF Bad
<1>3. PICK m \in Bad : \A k \in Bad : m <= k
  BY <1>1, <1>2, HasLeast
<1>4. m \in 0..n /\ m \notin S /\ m # 0
  BY DEF Bad
<1>5. m - 1 \in 0..n /\ m \in 1..n /\ ~(m <= m - 1)
  BY <1>4
<1>6. m - 1 \in S
  BY <1>3, <1>5 DEF Bad
<1> QED  BY <1>4, <1>5, <1>6

(* The loop of drop_expired_queued_packets over the first n packets of q. *)
Keeps(g, q, n) ==
  g = [i \in 0..n |-> IF i = 0 THEN <<>>
                      ELSE IF clock - q[i].at < PENDING_PACKET_TTL THEN Append(g[i - 1], q[i])
                      ELSE g[i - 1]]

LEMMA KeepsExists ==
  ASSUME NEW n \in Nat, NEW q
  PROVE  \E g : Keeps(g, q, n)
<1> DEFINE step(r, i) == IF clock - q[i].at < PENDING_PACKET_TTL THEN Append(r, q[i]) ELSE r
           Runs == {m \in Nat : \E g : Keeps(g, q, m)}
<1>1. 0 \in Runs
  <2> DEFINE g == [i \in 0..0 |-> <<>>]
  <2>1. g = [i \in 0..0 |-> IF i = 0 THEN <<>> ELSE step(g[i - 1], i)]
    OBVIOUS
  <2>2. Keeps(g, q, 0)
    BY <2>1 DEF Keeps
  <2> HIDE DEF g
  <2> QED  BY <2>2
<1>2. ASSUME NEW m \in 1..n, m - 1 \in Runs PROVE m \in Runs
  <2>1. PICK f : Keeps(f, q, m - 1)
    BY <1>2
  <2>2. f = [i \in 0..(m - 1) |-> IF i = 0 THEN <<>> ELSE step(f[i - 1], i)]
    BY <2>1 DEF Keeps
  <2> HIDE DEF step
  <2> DEFINE g == [i \in 0..m |-> IF i = 0 THEN <<>> ELSE step(f[i - 1], i)]
  <2>3. ASSUME NEW i \in 0..(m - 1) PROVE g[i] = f[i]
    BY <2>2
  <2>4. ASSUME NEW i \in 0..m PROVE g[i] = IF i = 0 THEN <<>> ELSE step(g[i - 1], i)
    <3>1. CASE i = 0
      BY <3>1
    <3>2. CASE i # 0
      <4>1. i - 1 \in 0..(m - 1)
        BY <3>2
      <4> QED  BY <2>3, <3>2, <4>1
    <3> QED  BY <3>1, <3>2
  <2>5. DOMAIN g = 0..m /\ g = [i \in DOMAIN g |-> g[i]]
    OBVIOUS
  <2> HIDE DEF g
  <2>6. g = [i \in 0..m |-> IF i = 0 THEN <<>> ELSE step(g[i - 1], i)]
    BY <2>4, <2>5
  <2>7. Keeps(g, q, m)
    BY <2>6 DEF Keeps, step
  <2> QED  BY <2>7
<1> HIDE DEF Runs
<1>3. \A i \in 0..n : i \in Runs
  BY <1>1, <1>2, UpTo
<1>4. n \in 0..n
  OBVIOUS
<1> QED  BY <1>3, <1>4 DEF Runs

(* A sweep adds nothing to a queue. *)
LEMMA SweptIs ==
  ASSUME NEW S, NEW q \in Seq(S)
  PROVE  Swept(q) \in Seq(S) /\ Len(Swept(q)) <= Len(q)
<1> DEFINE n == Len(q)
           g == CHOOSE f : Keeps(f, q, n)
           Fit == {i \in 0..n : g[i] \in Seq(S) /\ Len(g[i]) <= i}
<1>1. n \in Nat
  OBVIOUS
<1>2. Swept(q) = g[n]
  BY DEF Swept, Keeps
<1>3. Keeps(g, q, n)
  BY <1>1, KeepsExists
<1> HIDE DEF g
<1>4. \A i \in 0..n : g[i] = IF i = 0 THEN <<>>
                             ELSE IF clock - q[i].at < PENDING_PACKET_TTL THEN Append(g[i - 1], q[i])
                             ELSE g[i - 1]
  BY <1>3 DEF Keeps
<1>5. 0 \in Fit
  <2>1. 0 \in 0..n /\ g[0] = <<>>
    BY <1>1, <1>4
  <2>2. <<>> \in Seq(S)
    OBVIOUS
  <2>3. Len(<<>>) = 0 /\ 0 <= 0
    OBVIOUS
  <2> QED  BY <2>1, <2>2, <2>3
<1>6. ASSUME NEW i \in 1..n, i - 1 \in Fit PROVE i \in Fit
  <2>1. g[i - 1] \in Seq(S) /\ Len(g[i - 1]) <= i - 1 /\ q[i] \in S /\ i \in 0..n /\ i # 0
    BY <1>6
  <2>2. g[i] = Append(g[i - 1], q[i]) \/ g[i] = g[i - 1]
    BY <1>4, <2>1
  <2>3. g[i] \in Seq(S) /\ Len(g[i]) <= i
    <3> DEFINE r == g[i - 1]
               p == q[i]
    <3>1. r \in Seq(S) /\ Len(r) <= i - 1 /\ p \in S /\ (g[i] = Append(r, p) \/ g[i] = r)
      BY <2>1, <2>2
    <3> HIDE DEF r, p
    <3>2. Append(r, p) \in Seq(S) /\ Len(Append(r, p)) = Len(r) + 1 /\ Len(r) \in Nat
      BY <3>1
    <3>3. CASE g[i] = r
      BY <3>1, <3>2, <3>3
    <3>4. CASE g[i] = Append(r, p)
      <4>1. Len(r) + 1 <= i
        BY <3>1, <3>2
      <4> QED  BY <3>2, <3>4, <4>1
    <3> QED  BY <3>1, <3>3, <3>4
  <2> QED  BY <2>1, <2>3
<1> HIDE DEF Fit, n
<1>7. n \in Fit
  <2>1. \A i \in 0..n : i \in Fit
    BY <1>1, <1>5, <1>6, UpTo
  <2>2. n \in 0..n
    BY <1>1
  <2> QED  BY <2>1, <2>2
<1> QED  BY <1>2, <1>7 DEF Fit, n
-----------------------------------------------------------------------------
(* What the operators of noise/mod.rs do to the handshake and the queue. *)

(* y is x after steps that leave the handshakes and the queue alone. *)
Quiet(x, y) ==
  SameHandshakes(x.t, y.t) /\ y.q = x.q /\ \A m \in y.out : m \in x.out \/ m.kind = "data"

(* u is t in the same run of its device. *)
SameDevice(t, u) == u.boot = t.boot /\ u.started = t.started /\ u.unix = t.unix

(* y is x after a handshake was started. *)
Begun(e, x, y) ==
  /\ SameDevice(x.t, y.t) /\ y.t.last_timestamp = x.t.last_timestamp
  /\ y.t.allocated = x.t.allocated + 1 /\ y.q = x.q
  /\ y.t.state = [tag |-> "sent", index |-> NextIndex(x.t), init |-> NewInit(x.t), at |-> clock]
  /\ y.out = x.out \cup {[kind |-> "init", to |-> Other(e), sender |-> NextIndex(x.t),
                          init |-> NewInit(x.t)]}

SamePart(x, z) == SameHandshakes(x.t, z.t) /\ z.q = x.q /\ z.out = x.out

LEMMA BegunFrom ==
  ASSUME NEW e, NEW x, NEW z, SamePart(x, z), NEW y, Begun(e, z, y)
  PROVE  Begun(e, x, y)
<1>1. NextIndex(z.t) = NextIndex(x.t) /\ NewInit(z.t) = NewInit(x.t)
  BY DEF SamePart, SameHandshakes, NextIndex, NewInit, stamp, Fresh
<1> QED  BY <1>1 DEF SamePart, SameHandshakes, SameDevice, Begun

LEMMA QuietFrom ==
  ASSUME NEW x, NEW z, SamePart(x, z), NEW y, Quiet(z, y)
  PROVE  Quiet(x, y)
  BY DEF SamePart, SameHandshakes, Quiet

LEMMA SendDataIs ==
  ASSUME NEW e \in End, NEW x, IsPart(x), x.t \in Tunn, CanSend(x.t), NEW what
  PROVE  Quiet(x, SendData(e, x, what))
<1> DEFINE t == x.t
           u == Spent(t, 1)
           v == timer_tick(u, "LastPacketSent")
           w == IF what = "keepalive" THEN v ELSE timer_tick(v, "LastDataPacketSent")
           o == x.out \cup {Sealed(e, t, what)}
           y == SendData(e, x, what)
<1>1. y = [x EXCEPT !.t = w, !.out = o]
  BY DEF SendData, Spent
<1>2. u \in Tunn /\ SameHandshakes(t, u)
  BY SpentIs DEF CanSend
<1> HIDE DEF u
<1>3. v \in Tunn /\ SameHandshakes(u, v)
  BY <1>2, TickIs, TimerNames
<1> HIDE DEF v
<1>4. SameHandshakes(v, w)
  <2>1. SameHandshakes(v, timer_tick(v, "LastDataPacketSent"))
    BY <1>3, TickIs, TimerNames
  <2>2. SameHandshakes(v, v)
    BY DEF SameHandshakes
  <2> QED  BY <2>1, <2>2
<1>5. Sealed(e, t, what).kind = "data"
  BY DEF Sealed
<1> HIDE DEF w, o, y
<1>6. y = [t |-> w, q |-> x.q, out |-> o]
  BY <1>1 DEF IsPart
<1>7. y.t = w /\ y.q = x.q /\ y.out = o
  BY <1>6
<1>8. Quiet(x, y)
  BY <1>2, <1>3, <1>4, <1>5, <1>7 DEF Quiet, SameHandshakes, o
<1> QED  BY <1>8 DEF y

LEMMA InitiateIs ==
  ASSUME NEW e \in End, clock \in Nat, NEW x, IsPart(x), x.t \in Tunn,
         x.t.started <= clock
  PROVE  Begun(e, x, Initiate(e, x))
<1> DEFINE t == x.t
           u == IF t.state = Expired THEN clear(t) ELSE t
           v == Started(u)
           w == IF is_in_progress(t) THEN v ELSE timer_tick(v, "LastHandshakeStarted")
           z == timer_tick(w, "LastPacketSent")
           m == [kind |-> "init", to |-> Other(e), sender |-> NextIndex(u), init |-> NewInit(u)]
           o == x.out \cup {m}
           y == Initiate(e, x)
<1>1. u \in Tunn /\ SameHandshakes(t, u)
  <2>1. CASE t.state = Expired
    BY <2>1, ClearIs
  <2>2. CASE t.state # Expired
    BY <2>2 DEF SameHandshakes
  <2> QED  BY <2>1, <2>2
<1>2. y = [x EXCEPT !.t = z, !.out = o]
  BY DEF Initiate, Started
<1> HIDE DEF u, z, o
<1>3. y = [t |-> z, q |-> x.q, out |-> o]
  BY <1>2 DEF IsPart
<1> HIDE DEF y
<1>4. y.t = z /\ y.q = x.q /\ y.out = o
  BY <1>3
<1>5. NextIndex(u) = NextIndex(t) /\ NewInit(u) = NewInit(t)
  BY <1>1 DEF SameHandshakes, NextIndex, NewInit, stamp, Fresh
<1>6. /\ v \in Tunn /\ SameDevice(u, v) /\ v.allocated = u.allocated + 1
      /\ v.last_timestamp = u.last_timestamp
      /\ v.state = [tag |-> "sent", index |-> NextIndex(u), init |-> NewInit(u), at |-> clock]
  <2>1. u.allocated \in Nat /\ u.boot \in Nat
    BY <1>1 DEF Tunn
  <2>2. u.allocated % INDEXES \in Index
    BY <2>1, Constants, Remainder DEF Index
  <2>3. u.started <= clock
    BY <1>1 DEF SameHandshakes
  <2>4. NextIndex(u) \in Index /\ NewInit(u) \in Initiation
    BY <1>1, <2>2, <2>3, NewInitIs DEF NextIndex
  <2>5. [tag |-> "sent", index |-> NextIndex(u), init |-> NewInit(u), at |-> clock] \in Handshake
    BY <2>4 DEF Handshake, Sent
  <2> QED  BY <1>1, <2>5, StartedType DEF SameDevice
<1> HIDE DEF v
<1>7. w \in Tunn /\ SameHandshakes(v, w)
  <2>1. CASE is_in_progress(t)
    BY <1>6, <2>1 DEF SameHandshakes
  <2>2. CASE ~is_in_progress(t)
    BY <1>6, <2>2, TickIs, TimerNames
  <2> QED  BY <2>1, <2>2
<1> HIDE DEF w
<1>8. SameHandshakes(w, z)
  BY <1>7, TickIs, TimerNames DEF z
<1>9. /\ SameDevice(t, z) /\ z.last_timestamp = t.last_timestamp
      /\ z.allocated = t.allocated + 1
      /\ z.state = [tag |-> "sent", index |-> NextIndex(t), init |-> NewInit(t), at |-> clock]
  BY <1>1, <1>5, <1>6, <1>7, <1>8 DEF SameHandshakes, SameDevice
<1>10. Begun(e, x, y)
  BY <1>4, <1>5, <1>9 DEF Begun, o
<1> QED  BY <1>10 DEF y

LEMMA QueuedIs ==
  ASSUME NEW x, IsPart(x), NEW what
  PROVE  LET z == queue_packet(x, what)
         IN  /\ IsPart(z) /\ z.t = x.t /\ z.out = x.out
             /\ z.q = Append(Swept(x.q), [at |-> clock, what |-> what])
<1> DEFINE p == Append(Swept(x.q), [at |-> clock, what |-> what])
           z == queue_packet(x, what)
<1>1. z = [x EXCEPT !.q = p]
  BY DEF queue_packet
<1> HIDE DEF p, z
<1>2. z = [t |-> x.t, q |-> p, out |-> x.out]
  BY <1>1 DEF IsPart
<1>3. IsPart(z) /\ z.t = x.t /\ z.out = x.out /\ z.q = p
  BY <1>2 DEF IsPart
<1> QED  BY <1>3 DEF p, z

LEMMA QueuedSame ==
  ASSUME NEW x, IsPart(x), NEW z, IsPart(z), SamePart(x, z), NEW what
  PROVE  SamePart(queue_packet(x, what), queue_packet(z, what))
<1> DEFINE v == queue_packet(x, what)
           w == queue_packet(z, what)
           p == [at |-> clock, what |-> what]
<1>1. v.t = x.t /\ v.out = x.out /\ v.q = Append(Swept(x.q), p)
  BY QueuedIs
<1>2. w.t = z.t /\ w.out = z.out /\ w.q = Append(Swept(z.q), p)
  BY QueuedIs
<1> HIDE DEF v, w, p
<1>3. z.q = x.q
  BY DEF SamePart
<1>4. w.q = v.q
  BY <1>1, <1>2, <1>3
<1>5. SamePart(v, w)
  BY <1>1, <1>2, <1>4 DEF SamePart
<1> QED  BY <1>5 DEF v, w

LEMMA EncapsulateIs ==
  ASSUME NEW e \in End, clock \in Nat, NEW x, IsPart(x), x.t \in Tunn,
         x.t.started <= clock, NEW what
  PROVE  LET y == encapsulate(e, x, what)
             z == queue_packet(x, what)
         IN  \/ Quiet(x, y)
             \/ is_in_progress(x.t) /\ y = z
             \/ ~is_in_progress(x.t) /\ Begun(e, z, y)
<1> DEFINE y == encapsulate(e, x, what)
           z == queue_packet(x, what)
<1>1. CASE CanSend(x.t)
  <2>1. y = SendData(e, x, what)
    BY <1>1 DEF encapsulate
  <2> QED  BY <1>1, <2>1, SendDataIs
<1>2. CASE ~CanSend(x.t)
  <2>1. IsPart(z) /\ z.t = x.t
    BY QueuedIs
  <2>2. y = format_handshake_initiation(e, z, FALSE)
    BY <1>2 DEF encapsulate
  <2> HIDE DEF z
  <2>3. CASE is_in_progress(x.t)
    <3>1. y = z
      BY <2>1, <2>2, <2>3 DEF format_handshake_initiation
    <3> QED  BY <2>3, <3>1 DEF z
  <2>4. CASE ~is_in_progress(x.t)
    <3>1. y = Initiate(e, z)
      BY <2>1, <2>2, <2>4 DEF format_handshake_initiation
    <3> HIDE DEF y
    <3>2. Begun(e, z, y)
      BY <2>1, <3>1, InitiateIs
    <3> QED  BY <2>4, <3>2 DEF y, z
  <2> QED  BY <2>3, <2>4 DEF z
<1> QED  BY <1>1, <1>2

(* The rules of a tick without a handshake in flight. *)
LEMMA IdleRulesIs ==
  ASSUME NEW e \in End, clock \in Nat, NEW x, IsPart(x), x.t \in Tunn,
         x.t.started <= clock, ~is_in_progress(x.t)
  PROVE  LET y == IdleRules(e, x)
         IN  \/ Quiet(x, y)
             \/ Begun(e, x, y)
             \/ Begun(e, queue_packet(x, "keepalive"), y)
<1> DEFINE t == x.t
           since(name) == clock - t.timers[name]
           later(c, d) == t.timers[c] > t.timers[d]
           rekey == /\ t.is_initiator
                    /\ \/ /\ later("LastDataPacketSent", "SessionEstablished")
                          /\ since("SessionEstablished") >= REKEY_AFTER_TIME
                       \/ /\ later("LastDataPacketReceived", "SessionEstablished")
                          /\ since("SessionEstablished")
                               >= REJECT_AFTER_TIME - KEEPALIVE_TIMEOUT - REKEY_TIMEOUT
           unanswered == /\ later("LastDataPacketSent", "LastPacketReceived")
                         /\ since("LastPacketReceived") >= KEEPALIVE_TIMEOUT + REKEY_TIMEOUT
           owed == /\ later("LastDataPacketReceived", "LastPacketSent")
                   /\ since("LastPacketSent") >= KEEPALIVE_TIMEOUT
           persistent == /\ PERSISTENT_KEEPALIVE > 0
                         /\ \/ t.send_initial_keepalive
                            \/ since("PersistentKeepalive") >= PERSISTENT_KEEPALIVE
           handshake == rekey \/ (unanswered /\ t.want_handshake)
           keepalive == (owed /\ t.want_keepalive) \/ persistent
           heard == [t EXCEPT !.want_handshake = t.want_handshake /\ ~unanswered]
           idle == [heard EXCEPT !.want_keepalive = heard.want_keepalive /\ ~owed,
                                 !.send_initial_keepalive = FALSE]
           kept == IF persistent THEN timer_tick(idle, "PersistentKeepalive") ELSE idle
           y == IdleRules(e, x)
<1>1. y = CASE handshake -> format_handshake_initiation(e, [x EXCEPT !.t = heard], TRUE)
            [] ~handshake /\ keepalive -> encapsulate(e, [x EXCEPT !.t = kept], "keepalive")
            [] OTHER -> [x EXCEPT !.t = kept]
  BY DEF IdleRules
<1>2. heard \in Tunn /\ SameHandshakes(t, heard)
  BY DEF Tunn, SameHandshakes
<1> HIDE DEF rekey, unanswered, owed, persistent, heard
<1>3. idle \in Tunn /\ SameHandshakes(heard, idle)
  BY <1>2 DEF Tunn, SameHandshakes
<1> HIDE DEF idle
<1>4. kept \in Tunn /\ SameHandshakes(idle, kept)
  <2>1. CASE persistent
    BY <1>3, <2>1, TickIs, TimerNames
  <2>2. CASE ~persistent
    BY <1>3, <2>2 DEF SameHandshakes
  <2> QED  BY <2>1, <2>2
<1> HIDE DEF kept
<1>5. SameHandshakes(t, kept)
  BY <1>2, <1>3, <1>4 DEF SameHandshakes
<1> DEFINE a == [x EXCEPT !.t = heard]
           b == [x EXCEPT !.t = kept]
<1>6. \/ y = Initiate(e, a)
      \/ y = encapsulate(e, b, "keepalive")
      \/ y = b
  BY <1>1 DEF format_handshake_initiation
<1>7. a = [t |-> heard, q |-> x.q, out |-> x.out] /\ b = [t |-> kept, q |-> x.q, out |-> x.out]
  BY DEF IsPart
<1> HIDE DEF a, b, t, y
<1>8. /\ IsPart(a) /\ SamePart(x, a) /\ a.t = heard
      /\ IsPart(b) /\ SamePart(x, b) /\ b.t = kept
      /\ a.t.started <= clock /\ b.t.started <= clock
  BY <1>2, <1>5, <1>7 DEF IsPart, SamePart, SameHandshakes, t
<1>9. CASE y = Initiate(e, a)
  <2>1. Begun(e, a, y)
    BY <1>2, <1>8, <1>9, InitiateIs
  <2>2. Begun(e, x, y)
    BY <1>8, <2>1, BegunFrom
  <2> QED  BY <2>2 DEF y
<1>10. CASE y = b
  <2>1. Quiet(x, y)
    BY <1>8, <1>10 DEF Quiet, SamePart
  <2> QED  BY <2>1 DEF y
<1>11. CASE y = encapsulate(e, b, "keepalive")
  <2> DEFINE z == queue_packet(b, "keepalive")
             w == queue_packet(x, "keepalive")
  <2>1. ~is_in_progress(b.t)
    BY <1>8 DEF SamePart, SameHandshakes, is_in_progress
  <2>2. Quiet(b, y) \/ Begun(e, z, y)
    BY <1>4, <1>8, <1>11, <2>1, EncapsulateIs
  <2>3. SamePart(w, z)
    BY <1>8, QueuedSame
  <2> HIDE DEF z, w
  <2>4. Quiet(x, y) \/ Begun(e, w, y)
    BY <1>8, <2>2, <2>3, BegunFrom, QuietFrom
  <2> QED  BY <2>4 DEF y, w
<1> QED  BY <1>6, <1>9, <1>10, <1>11

(* y is x after its handshakes were given up. *)
Ended(x, y) ==
  /\ SameDevice(x.t, y.t) /\ y.t.last_timestamp = x.t.last_timestamp
  /\ y.t.allocated = x.t.allocated /\ y.t.state.tag # "sent" /\ y.q = <<>> /\ y.out = x.out

LEMMA GiveUpIs ==
  ASSUME clock \in Nat, NEW x, IsPart(x), x.t \in Tunn
  PROVE  Ended(x, GiveUp(x))
<1> DEFINE t == x.t
           u == [t EXCEPT !.previous = Expired, !.state = Expired]
           v == clear(u)
           y == GiveUp(x)
<1>1. Expired \in Handshake /\ Expired.tag # "sent"
  BY DEF Expired, Handshake
<1>2. u \in Tunn /\ u.state = Expired /\ SameDevice(t, u) /\ u.allocated = t.allocated
      /\ u.last_timestamp = t.last_timestamp
  BY <1>1 DEF Tunn, SameDevice
<1> HIDE DEF u
<1>3. SameHandshakes(u, v)
  BY <1>2, ClearIs
<1>4. y = [x EXCEPT !.t = v, !.q = <<>>]
  BY DEF GiveUp, u
<1> HIDE DEF v, y
<1>5. y = [t |-> v, q |-> <<>>, out |-> x.out]
  BY <1>4 DEF IsPart
<1>6. y.t = v /\ y.q = <<>> /\ y.out = x.out
  BY <1>5
<1>7. Ended(x, y)
  BY <1>1, <1>2, <1>3, <1>6 DEF Ended, SameHandshakes, SameDevice
<1> QED  BY <1>7 DEF y

(* What a tick does: a handshake in flight is retried when it is due. *)
LEMMA UpdateTimersIs ==
  ASSUME NEW e \in End, clock \in Nat, NEW x, IsPart(x), x.t \in Tunn,
         x.t.started <= clock
  PROVE  LET y == update_timers(e, x)
             due == clock - x.t.state.at >= REKEY_TIMEOUT
         IN  \/ Ended(x, y)
             \/ is_in_progress(x.t) /\ ~due /\ Quiet(x, y)
             \/ is_in_progress(x.t) /\ due /\ Begun(e, x, y)
             \/ ~is_in_progress(x.t) /\ (\/ Quiet(x, y)
                                        \/ Begun(e, x, y)
                                        \/ Begun(e, queue_packet(x, "keepalive"), y))
<1> DEFINE t == Retired(x.t)
           z == [x EXCEPT !.t = t]
           y == update_timers(e, x)
           stale == clock - t.timers["SessionEstablished"] >= 3 * REJECT_AFTER_TIME
           attempted == clock - t.timers["LastHandshakeStarted"] >= REKEY_ATTEMPT_TIME
           due == clock - x.t.state.at >= REKEY_TIMEOUT
<1>1. t \in Tunn /\ SameHandshakes(x.t, t)
  BY RetiredIs
<1>2. y = CASE t.state = Expired -> z
            [] t.state # Expired /\ (stale \/ (is_in_progress(t) /\ attempted)) -> GiveUp(z)
            [] is_in_progress(t) /\ ~stale /\ ~attempted -> Retry(e, z)
            [] OTHER -> IdleRules(e, z)
  BY DEF update_timers, Retired
<1> HIDE DEF t
<1>3. z = [t |-> t, q |-> x.q, out |-> x.out]
  BY DEF IsPart
<1> HIDE DEF z, stale, attempted
<1>4. z.t = t /\ IsPart(z) /\ SamePart(x, z) /\ z.t.started <= clock
  BY <1>1, <1>3 DEF IsPart, SamePart, SameHandshakes
<1>5. is_in_progress(t) <=> is_in_progress(x.t)
  BY <1>1 DEF SameHandshakes, is_in_progress
<1>6. \/ ~is_in_progress(t) /\ y = z
      \/ y = GiveUp(z)
      \/ is_in_progress(t) /\ y = Retry(e, z)
      \/ ~is_in_progress(t) /\ y = IdleRules(e, z)
  BY <1>2 DEF is_in_progress, Expired
<1> HIDE DEF y
<1>7. CASE ~is_in_progress(t) /\ y = z
  <2>1. Quiet(x, y)
    BY <1>4, <1>7 DEF Quiet, SamePart
  <2> QED  BY <1>5, <1>7, <2>1 DEF y
<1>8. CASE y = GiveUp(z)
  <2>1. Ended(z, y)
    BY <1>1, <1>4, <1>8, GiveUpIs
  <2>2. Ended(x, y)
    BY <1>4, <2>1 DEF Ended, SamePart, SameHandshakes, SameDevice
  <2> QED  BY <2>2 DEF y
<1>9. CASE is_in_progress(t) /\ y = Retry(e, z)
  <2>1. z.t.state = x.t.state
    BY <1>4 DEF SamePart, SameHandshakes
  <2>2. CASE ~due
    <3>1. y = z
      BY <1>9, <2>1, <2>2 DEF Retry
    <3>2. Quiet(x, y)
      BY <1>4, <3>1 DEF Quiet, SamePart
    <3> QED  BY <1>5, <1>9, <2>2, <3>2 DEF y
  <2>3. CASE due
    <3>1. y = Initiate(e, z)
      BY <1>9, <2>1, <2>3 DEF Retry, format_handshake_initiation
    <3>2. Begun(e, z, y)
      BY <1>1, <1>4, <3>1, InitiateIs
    <3>3. Begun(e, x, y)
      BY <1>4, <3>2, BegunFrom
    <3> QED  BY <1>5, <1>9, <2>3, <3>3 DEF y
  <2> QED  BY <2>2, <2>3
<1>10. CASE ~is_in_progress(t) /\ y = IdleRules(e, z)
  <2> DEFINE w == queue_packet(z, "keepalive")
             v == queue_packet(x, "keepalive")
  <2>1. Quiet(z, y) \/ Begun(e, z, y) \/ Begun(e, w, y)
    BY <1>1, <1>4, <1>10, IdleRulesIs
  <2>2. SamePart(v, w)
    BY <1>4, QueuedSame
  <2> HIDE DEF v, w
  <2>3. Quiet(x, y) \/ Begun(e, x, y) \/ Begun(e, v, y)
    BY <1>4, <2>1, <2>2, BegunFrom, QuietFrom
  <2> QED  BY <1>5, <1>10, <2>3 DEF y, v
<1> QED  BY <1>6, <1>7, <1>8, <1>9, <1>10

(* A session with nonces for all of them takes every packet that waits. *)
LEMMA FlushEmpties ==
  ASSUME NEW e \in End, NEW x, IsPart(x), x.t \in Tunn, NEW n \in Nat, HasSent(x.t, n),
         NEW S, x.q \in Seq(S), Len(x.q) + n <= REJECT_AFTER_MESSAGES, n < REJECT_AFTER_MESSAGES
  PROVE  LET y == flush_queued_packets(e, x)
         IN  /\ SameHandshakes(x.t, y.t) /\ y.q = <<>>
             /\ x.out \subseteq y.out /\ \A m \in y.out : m \in x.out \/ m.kind = "data"
<1> DEFINE t == x.t
           c == Slot(t.current)
           k == Len(x.q)
           room == IF CanSend(t) THEN REJECT_AFTER_MESSAGES - t.sessions[c].sent ELSE 0
           r == IF Len(x.q) \in 0..room THEN Len(x.q) ELSE room
           u == Spent(t, k)
           v == timer_tick(u, "LastPacketSent")
           w == IF \E i \in 1..k : x.q[i].what # "keepalive"
                THEN timer_tick(v, "LastDataPacketSent") ELSE v
           f(i) == [Sealed(e, t, x.q[i].what) EXCEPT !.counter = Sealed(e, t, x.q[i].what).counter + i - 1]
           o == x.out \cup {f(i) : i \in 1..k}
           p == SubSeq(x.q, k + 1, Len(x.q))
           y == flush_queued_packets(e, x)
<1>1. HasSession(t) /\ t.sessions[c].sent = n /\ CanSend(t) /\ k \in Nat
  BY DEF HasSent, CanSend
<1>2. r = k
  BY <1>1, Constants
<1>3. y = IF k = 0 THEN x ELSE [x EXCEPT !.t = w, !.q = p, !.out = o]
  <2>1. y = IF r = 0 THEN x
            ELSE [x EXCEPT
                    !.t = IF \E i \in 1..r : x.q[i].what # "keepalive"
                          THEN timer_tick(timer_tick(Spent(t, r), "LastPacketSent"), "LastDataPacketSent")
                          ELSE timer_tick(Spent(t, r), "LastPacketSent"),
                    !.q = SubSeq(x.q, r + 1, Len(x.q)),
                    !.out = x.out \cup {f(i) : i \in 1..r}]
    BY DEF flush_queued_packets, Spent
  <2> HIDE DEF r, f, y
  <2> QED  BY <1>2, <2>1
<1>4. CASE k = 0
  <2>0. y = x
    BY <1>3, <1>4
  <2>1. y = x /\ x.q = <<>>
    <3> HIDE DEF y
    <3>1. x.q \in Seq(S) /\ Len(x.q) = 0
      BY <1>4
    <3> QED  BY <2>0, <3>1
  <2> HIDE DEF y
  <2>2. SameHandshakes(x.t, y.t) /\ y.q = <<>> /\ x.out \subseteq y.out
        /\ \A m \in y.out : m \in x.out \/ m.kind = "data"
    BY <2>1 DEF SameHandshakes
  <2> QED  BY <2>2 DEF y
<1>5. CASE k # 0
  <2>1. u \in Tunn /\ SameHandshakes(t, u)
    BY <1>1, SpentIs
  <2> HIDE DEF u
  <2>2. v \in Tunn /\ SameHandshakes(u, v)
    BY <2>1, TickIs, TimerNames
  <2> HIDE DEF v
  <2>3. SameHandshakes(v, timer_tick(v, "LastDataPacketSent"))
    BY <2>2, TickIs, TimerNames
  <2>4. SameHandshakes(v, w)
    <3>1. SameHandshakes(v, v)
      BY DEF SameHandshakes
    <3> QED  BY <2>3, <3>1
  <2>5. x.out \subseteq o /\ \A m \in o : m \in x.out \/ m.kind = "data"
    BY DEF Sealed
  <2>6. p = <<>>
    BY <1>1
  <2>7. y = [x EXCEPT !.t = w, !.q = p, !.out = o]
    BY <1>3, <1>5
  <2> HIDE DEF w, o, p, y
  <2>8. y = [t |-> w, q |-> p, out |-> o]
    BY <2>7 DEF IsPart
  <2>9. y.t = w /\ y.q = <<>> /\ y.out = o
    BY <2>6, <2>8
  <2>10. SameHandshakes(x.t, y.t) /\ y.q = <<>> /\ x.out \subseteq y.out
         /\ \A m \in y.out : m \in x.out \/ m.kind = "data"
    BY <2>1, <2>2, <2>4, <2>5, <2>9 DEF SameHandshakes
  <2> QED  BY <2>10 DEF y
<1> QED  BY <1>4, <1>5
-----------------------------------------------------------------------------
(* The invariant behind WaitIsBounded. *)

Packet == [at : Nat, what : Content]
Owed(n) == n * REKEY_TIMEOUT

(* The packets queued by now, at most owed before the handshake of time at. *)
Aged(now, at, owed) == {p \in Packet : p.at <= now /\ at <= p.at + owed}

(* The stamp s may be one that the device of tunnel t has made by now,      *)
(* before its last restart or since.                                        *)
Old(t, s) == t.boot > 0 /\ s.secs <= t.started + STAMP_LAG
Known(t, s) ==
  /\ s \in Tai64N
  /\ Old(t, s) \/ (s.secs <= t.unix + (clock - t.started) /\ s.nano <= t.allocated)

(* Its stamper was made with what the wall clock said, behind it by at most *)
(* STAMP_LAG.                                                               *)
Anchored(t) == t.unix >= t.started /\ t.unix <= t.started + STAMP_LAG

(* A handshake started at time at may be refused for a stamp of before the  *)
(* restart.                                                                 *)
Young(t, at) == t.boot > 0 /\ at < t.started + REKEY_TIMEOUT
Firm(t) == t.state.tag = "sent" /\ ~Young(t, t.state.at)

(* The waits that losses and the restart of t's own device are to blame for. *)
Credit(t) == IF t.boot > 0 THEN lost + 1 ELSE lost

(* The initiation of handshake h of end e, or the answer to it, is on its   *)
(* way, and the end it goes to will take it.                                *)
Answerable(e, h, last, msgs) ==
  \/ \E m \in msgs : m.kind = "init" /\ m.to = Other(e) /\ m.init = h.init
                     /\ after(h.init.stamp, last)
  \/ \E m \in msgs : m.kind = "resp" /\ m.to = e /\ m.init = h.init /\ m.receiver = h.index

(* Either the handshake of t was started now and can be answered, or a loss *)
(* or the restart is to blame for the time until its retry.                 *)
Excused(e, t, q, last, msgs) ==
  LET at == t.state.at
  IN  \/ /\ Firm(t) /\ at = clock /\ Answerable(e, t.state, last, msgs)
         /\ q \in Seq(Aged(clock, at, Owed(Credit(t))))
      \/ Credit(t) >= 1 /\ q \in Seq(Aged(clock, at, Owed(Credit(t) - 1)))

(* End e with tunnel t and queue q, where the other end has accepted the    *)
(* stamp last, msgs is in flight and d packets were handed over.            *)
WaitEnd(e, t, q, last, msgs, d) ==
  /\ Len(q) <= d + 1
  /\ t.state.tag # "sent" => q = <<>>
  /\ t.state.tag = "sent" => /\ clock <= t.state.at + REKEY_TIMEOUT
                             /\ t.started <= t.state.at /\ t.state.init.stamp.nano > 0
                             /\ Excused(e, t, q, last, msgs)
  /\ Anchored(t) /\ Known(t, last)
  /\ \A m \in msgs : m.kind = "init" /\ m.to = Other(e) =>
       /\ Known(t, m.init.stamp)
       /\ Firm(t) => m.init = t.state.init \/ after(t.state.init.stamp, m.init.stamp)

WaitInv ==
  /\ tunn = [e \in End |-> tunn[e]] /\ DOMAIN waiting = End
  /\ \A e \in End :
       /\ WaitEnd(e, tunn[e], waiting[e], tunn[Other(e)].last_timestamp, net, data)
       /\ tunn[e].state.tag = "sent" /\ e \in ticked => clock < tunn[e].state.at + REKEY_TIMEOUT

(* Every stamp that t may have made, u may have made. *)
Onward(t, u) == \A s : Known(t, s) => Known(u, s)

LEMMA OnwardIs ==
  ASSUME clock \in Nat, NEW t \in Tunn, NEW u \in Tunn, SameDevice(t, u), t.allocated <= u.allocated
  PROVE  Onward(t, u) /\ (Anchored(t) => Anchored(u)) /\ Credit(u) = Credit(t)
         /\ \A at : Young(u, at) <=> Young(t, at)
<1>1. t.allocated \in Nat /\ u.allocated \in Nat
  BY DEF Tunn
<1>2. ASSUME NEW s, Known(t, s) PROVE Known(u, s)
  <2>1. s.nano \in Nat
    BY <1>2 DEF Known, Tai64N
  <2> QED  BY <1>1, <1>2, <2>1 DEF Known, Old, SameDevice
<1>3. (Anchored(t) => Anchored(u)) /\ Credit(u) = Credit(t) /\ \A at : Young(u, at) <=> Young(t, at)
  BY DEF SameDevice, Anchored, Credit, Young
<1> QED  BY <1>2, <1>3 DEF Onward

LEMMA CreditIs ==
  ASSUME lost \in Nat, NEW t
  PROVE  Credit(t) \in Nat /\ (Credit(t) >= 1 => Credit(t) - 1 \in Nat)
         /\ (t.boot > 0 => Credit(t) >= 1)
<1>1. lost \in Nat /\ lost + 1 \in Nat /\ lost + 1 >= 1
  OBVIOUS
<1>2. CASE t.boot > 0
  <2>1. Credit(t) = lost + 1
    BY <1>2 DEF Credit
  <2> HIDE DEF Credit
  <2> QED  BY <1>1, <2>1
<1>3. CASE ~(t.boot > 0)
  <2>1. Credit(t) = lost
    BY <1>3 DEF Credit
  <2> HIDE DEF Credit
  <2> QED  BY <1>1, <1>3, <2>1
<1> QED  BY <1>2, <1>3

(* A new stamp is after all those made before it, but those of before a     *)
(* restart less than REKEY_TIMEOUT ago.                                     *)
LEMMA NewIsAfter ==
  ASSUME clock \in Nat, NEW t \in Tunn, t.started <= clock, Anchored(t), ~Young(t, clock),
         NEW s, Known(t, s)
  PROVE  after(stamp(t), s)
<1>1. stamp(t) \in Tai64N /\ stamp(t).nano = t.allocated + 1
      /\ stamp(t).secs = t.unix + (clock - t.started)
  BY NewInitIs
<1>2. /\ t.allocated \in Nat /\ t.unix \in Nat /\ t.started \in Nat /\ t.boot \in Nat
      /\ s.secs \in Nat /\ s.nano \in Nat
  BY DEF Tunn, Known, Tai64N
<1>3. CASE Old(t, s)
  <2>1. s.secs < clock /\ clock <= stamp(t).secs
    BY <1>1, <1>2, <1>3, Constants DEF Old, Young, Anchored
  <2>2. stamp(t).secs \in Nat
    BY <1>1 DEF Tai64N
  <2> QED  BY <1>2, <2>1, <2>2 DEF after
<1>4. CASE s.secs <= t.unix + (clock - t.started) /\ s.nano <= t.allocated
  <2> DEFINE n == t.unix + (clock - t.started)
  <2>1. n \in Int /\ stamp(t).secs = n /\ s.secs <= n /\ stamp(t).nano > s.nano
    BY <1>1, <1>2, <1>4
  <2> HIDE DEF n
  <2> QED  BY <1>2, <2>1 DEF after
<1> QED  BY <1>3, <1>4 DEF Known

LEMMA OwedIs ==
  ASSUME NEW n \in Nat
  PROVE  Owed(n) \in Nat /\ Owed(n + 1) = Owed(n) + REKEY_TIMEOUT
<1> DEFINE R == REKEY_TIMEOUT
<1>1. R \in Nat
  BY Constants
<1> HIDE DEF R
<1>2. n * R \in Nat /\ (n + 1) * R = (n * R) + R
  BY <1>1
<1> QED  BY <1>2 DEF Owed, R

LEMMA SeqSubset ==
  ASSUME NEW S, NEW T, \A p \in S : p \in T, NEW q \in Seq(S)
  PROVE  q \in Seq(T)
  OBVIOUS

LEMMA EmptyIs == \A S : <<>> \in Seq(S) /\ Len(<<>>) = 0
  OBVIOUS

LEMMA SentIs ==
  ASSUME NEW t \in Tunn, t.state.tag = "sent"
  PROVE  t.state.at \in Nat /\ t.state.init \in Initiation /\ t.state.index \in Index
         /\ t.state.init.eph \in Nat /\ t.state.init.stamp \in Tai64N
<1>1. t.state \in Sent
  BY DEF Tunn, Handshake
<1> QED  BY <1>1 DEF Sent, Initiation

(* A step that leaves the handshake alone and adds nothing to the queue. *)
LEMMA QuietWait ==
  ASSUME clock \in Nat, lost \in Nat, NEW e \in End, NEW t \in Tunn, NEW q, NEW last, NEW msgs,
         NEW d \in Nat, WaitEnd(e, t, q, last, msgs, d),
         NEW u \in Tunn, u.state = t.state, SameDevice(t, u), t.allocated <= u.allocated,
         NEW p \in {q, Swept(q), <<>>}, NEW new, Known(u, new), NEW sent,
         \A m \in sent : m \in msgs \/ ~(m.kind = "init" /\ m.to = Other(e)),
         Firm(t) /\ Answerable(e, t.state, last, msgs) => Answerable(e, t.state, new, sent),
         NEW k \in Nat, d <= k
  PROVE  WaitEnd(e, u, p, new, sent, k)
<1>1. Onward(t, u) /\ Anchored(u) /\ Credit(u) = Credit(t) /\ (Firm(u) <=> Firm(t))
      /\ u.started = t.started
  <2>1. Anchored(t)
    BY DEF WaitEnd
  <2> QED  BY <2>1, OnwardIs DEF Firm, SameDevice
<1>2. ASSUME NEW m \in sent, m.kind = "init", m.to = Other(e)
      PROVE  /\ Known(u, m.init.stamp)
             /\ Firm(u) => m.init = u.state.init \/ after(u.state.init.stamp, m.init.stamp)
  <2>1. m \in msgs /\ Known(t, m.init.stamp)
        /\ (Firm(t) => m.init = t.state.init \/ after(t.state.init.stamp, m.init.stamp))
    BY <1>2 DEF WaitEnd
  <2> QED  BY <1>1, <2>1 DEF Onward
<1>3. CASE t.state.tag # "sent"
  <2>1. q = <<>>
    BY <1>3 DEF WaitEnd
  <2>2. p = <<>>
    <3>1. Swept(<<>>) \in Seq({}) /\ Len(Swept(<<>>)) <= 0
      BY EmptyIs, SweptIs
    <3>2. Swept(<<>>) = <<>>
      BY <3>1
    <3> QED  BY <2>1, <3>2
  <2>3. Len(p) <= k + 1
    BY <2>2, EmptyIs
  <2> QED  BY <1>1, <1>2, <1>3, <2>2, <2>3 DEF WaitEnd
<1>4. CASE t.state.tag = "sent"
  <2> DEFINE h == t.state
  <2>1. /\ Excused(e, t, q, last, msgs) /\ clock <= h.at + REKEY_TIMEOUT /\ Len(q) <= d + 1
        /\ t.started <= h.at /\ h.init.stamp.nano > 0
    BY <1>4 DEF WaitEnd
  <2>2. ASSUME NEW S, q \in Seq(S) PROVE p \in Seq(S) /\ Len(p) \in Nat /\ Len(p) <= d + 1
    <3>1. CASE p = q
      BY <2>1, <2>2, <3>1
    <3>2. CASE p = Swept(q)
      <4>1. p \in Seq(S) /\ Len(p) <= Len(q)
        BY <2>2, <3>2, SweptIs
      <4>2. Len(p) \in Nat /\ Len(q) \in Nat
        BY <2>2, <4>1
      <4> QED  BY <2>1, <4>1, <4>2
    <3>3. CASE p = <<>>
      BY <3>3, EmptyIs
    <3> QED  BY <3>1, <3>2, <3>3
  <2>3. u.state = h /\ h.tag = "sent"
    BY <1>4
  <2>4. Excused(e, u, p, new, sent)
    <3>1. CASE /\ Firm(t) /\ h.at = clock /\ Answerable(e, h, last, msgs)
               /\ q \in Seq(Aged(clock, h.at, Owed(Credit(t))))
      BY <1>1, <2>2, <2>3, <3>1 DEF Excused
    <3>2. CASE Credit(t) >= 1 /\ q \in Seq(Aged(clock, h.at, Owed(Credit(t) - 1)))
      BY <1>1, <2>2, <2>3, <3>2 DEF Excused
    <3> QED  BY <2>1, <3>1, <3>2 DEF Excused
  <2>5. Len(p) <= k + 1
    <3>1. Len(p) \in Nat /\ Len(p) <= d + 1
      BY <2>1, <2>2 DEF Excused
    <3> QED  BY <3>1
  <2> HIDE DEF h
  <2> QED  BY <1>1, <1>2, <2>1, <2>3, <2>4, <2>5 DEF WaitEnd
<1> QED  BY <1>3, <1>4

(* A step after which no handshake is in flight and nothing waits. *)
LEMMA EmptyWait ==
  ASSUME NEW e \in End, NEW t \in Tunn, NEW q, NEW last, NEW msgs,
         NEW d \in Nat, WaitEnd(e, t, q, last, msgs, d),
         NEW u \in Tunn, u.state.tag # "sent", Onward(t, u), Anchored(u),
         NEW sent, \A m \in sent : m \in msgs \/ ~(m.kind = "init" /\ m.to = Other(e)),
         NEW k \in Nat
  PROVE  WaitEnd(e, u, <<>>, last, sent, k)
<1>1. Len(<<>>) <= k + 1
  BY EmptyIs
<1>2. Known(u, last) /\ ~Firm(u)
  BY DEF WaitEnd, Onward, Firm
<1>3. ASSUME NEW m \in sent, m.kind = "init", m.to = Other(e) PROVE Known(u, m.init.stamp)
  BY <1>3 DEF WaitEnd, Onward
<1> QED  BY <1>1, <1>2, <1>3 DEF WaitEnd

(* A packet queued while a handshake is in flight. *)
LEMMA QueueWait ==
  ASSUME clock \in Nat, lost \in Nat, NEW e \in End, NEW t \in Tunn, NEW q, NEW last, NEW msgs,
         NEW d \in Nat, WaitEnd(e, t, q, last, msgs, d), t.state.tag = "sent", t.state.at <= clock,
         NEW what \in Content
  PROVE  WaitEnd(e, t, Append(Swept(Swept(q)), [at |-> clock, what |-> what]), last, msgs, d + 1)
<1> DEFINE h == t.state
           c == [at |-> clock, what |-> what]
           r == Swept(Swept(q))
           p == Append(r, c)
<1>1. h.at \in Nat /\ h.at <= clock
  BY SentIs
<1>2. Excused(e, t, q, last, msgs) /\ Len(q) <= d + 1
  BY DEF WaitEnd
<1> HIDE DEF h
<1>3. ASSUME NEW o \in Nat, q \in Seq(Aged(clock, h.at, o))
      PROVE  p \in Seq(Aged(clock, h.at, o)) /\ Len(p) <= d + 2
  <2> DEFINE S == Aged(clock, h.at, o)
  <2>1. c \in Packet /\ c.at = clock
    BY DEF Packet
  <2> HIDE DEF c
  <2>2. c \in S
    BY <1>1, <2>1 DEF Aged
  <2> HIDE DEF S
  <2>3. Swept(q) \in Seq(S) /\ Len(Swept(q)) <= Len(q)
    BY <1>3, SweptIs DEF S
  <2>4. r \in Seq(S) /\ Len(r) <= Len(Swept(q))
    BY <2>3, SweptIs
  <2>5. Len(q) \in Nat /\ Len(Swept(q)) \in Nat /\ Len(r) \in Nat
    BY <1>3, <2>3, <2>4
  <2> HIDE DEF r
  <2>6. p \in Seq(S) /\ Len(p) = Len(r) + 1
    BY <2>2, <2>4
  <2>7. Len(r) + 1 <= d + 2
    BY <1>2, <2>3, <2>4, <2>5
  <2> QED  BY <2>6, <2>7 DEF S
<1> HIDE DEF p
<1>4. Excused(e, t, p, last, msgs) /\ Len(p) <= d + 2
  <2> DEFINE n == Credit(t)
  <2>1. n \in Nat /\ (n >= 1 => n - 1 \in Nat)
    BY CreditIs
  <2> HIDE DEF n
  <2>2. Owed(n) \in Nat /\ (n >= 1 => Owed(n - 1) \in Nat)
    BY <2>1, OwedIs
  <2>3. CASE /\ Firm(t) /\ h.at = clock /\ Answerable(e, h, last, msgs)
             /\ q \in Seq(Aged(clock, h.at, Owed(n)))
    BY <1>3, <2>2, <2>3 DEF Excused, h, n
  <2>4. CASE n >= 1 /\ q \in Seq(Aged(clock, h.at, Owed(n - 1)))
    BY <1>3, <2>2, <2>4 DEF Excused, h, n
  <2> QED  BY <1>2, <2>3, <2>4 DEF Excused, h, n
<1>5. Len(p) <= (d + 1) + 1
  <2>1. d + 2 = (d + 1) + 1
    OBVIOUS
  <2> QED  BY <1>4, <2>1
<1>6. WaitEnd(e, t, p, last, msgs, d + 1)
  BY <1>4, <1>5 DEF WaitEnd, h
<1> QED  BY <1>6 DEF p, r, c

(* A handshake that is started, by a tick or for the packets in the queue. *)
LEMMA BeginWait ==
  ASSUME clock \in Nat, lost \in Nat, NEW e \in End, NEW t \in Tunn, t.started <= clock, NEW q,
         NEW last, NEW msgs, NEW d \in Nat, WaitEnd(e, t, q, last, msgs, d),
         NEW z, z.t = t, z.out = {}, NEW y, Begun(e, z, y), y.t \in Tunn, NEW k \in Nat,
         z.q \in Seq(Aged(clock, clock, Owed(Credit(t)))), Len(z.q) <= k + 1,
         Young(t, clock) => z.q \in Seq(Aged(clock, clock, Owed(Credit(t) - 1)))
  PROVE  WaitEnd(e, y.t, y.q, last, msgs \cup y.out, k)
<1> DEFINE u == y.t
           g == [tag |-> "sent", index |-> NextIndex(t), init |-> NewInit(t), at |-> clock]
           n == [kind |-> "init", to |-> Other(e), sender |-> NextIndex(t), init |-> NewInit(t)]
<1>1. u.state = g /\ y.q = z.q /\ y.out = {n} /\ SameDevice(t, u) /\ u.allocated = t.allocated + 1
  BY DEF Begun
<1>2. /\ g.tag = "sent" /\ g.at = clock /\ g.init = NewInit(t)
      /\ n.kind = "init" /\ n.to = Other(e) /\ n.init = NewInit(t)
  OBVIOUS
<1> HIDE DEF g, n
<1>3. Anchored(t) /\ Known(t, last)
  BY DEF WaitEnd
<1>4. t.allocated \in Nat /\ t.unix \in Nat /\ t.started \in Nat
  BY DEF Tunn
<1>5. t.allocated <= u.allocated
  BY <1>1, <1>4
<1> HIDE DEF u
<1>6. u \in Tunn
  BY DEF u
<1>7. Onward(t, u) /\ Anchored(u) /\ Credit(u) = Credit(t) /\ (Young(u, clock) <=> Young(t, clock))
  BY <1>1, <1>3, <1>5, <1>6, OnwardIs
<1>8. NewInit(t).stamp = stamp(t) /\ stamp(t) \in Tai64N /\ stamp(t).nano = t.allocated + 1
      /\ stamp(t).secs = t.unix + (clock - t.started)
  BY NewInitIs
<1>9. Known(u, last)
  BY <1>3, <1>7 DEF Onward
<1>10. ASSUME NEW m \in msgs \cup y.out, m.kind = "init", m.to = Other(e)
       PROVE  /\ Known(u, m.init.stamp)
              /\ Firm(u) => m.init = g.init \/ after(g.init.stamp, m.init.stamp)
  <2>1. CASE m \in msgs
    <3>1. Known(t, m.init.stamp)
      BY <1>10, <2>1 DEF WaitEnd
    <3>2. ~Young(t, clock) => after(stamp(t), m.init.stamp)
      BY <1>3, <3>1, NewIsAfter
    <3>3. Firm(u) => ~Young(t, clock)
      BY <1>1, <1>2, <1>7 DEF Firm
    <3>4. Known(u, m.init.stamp)
      BY <1>7, <3>1 DEF Onward
    <3> QED  BY <1>2, <1>8, <3>2, <3>3, <3>4
  <2>2. CASE m \in y.out
    <3>1. m.init = NewInit(t)
      BY <1>1, <1>2, <2>2
    <3>2. Known(u, stamp(t))
      <4>1. u.unix = t.unix /\ u.started = t.started /\ u.allocated = t.allocated + 1
        BY <1>1 DEF SameDevice
      <4>2. stamp(t).secs <= u.unix + (clock - u.started) /\ stamp(t).nano <= u.allocated
        BY <1>4, <1>8, <4>1
      <4> QED  BY <1>8, <4>2 DEF Known
    <3> QED  BY <1>2, <1>8, <3>1, <3>2
  <2> QED  BY <2>1, <2>2
<1>11. Excused(e, u, y.q, last, msgs \cup y.out)
  <2>1. CASE Young(t, clock)
    <3>1. Credit(u) >= 1
      BY <1>7, <2>1, CreditIs DEF Young
    <3>2. y.q \in Seq(Aged(clock, clock, Owed(Credit(u) - 1)))
      BY <1>1, <1>7, <2>1
    <3> QED  BY <1>1, <1>2, <3>1, <3>2 DEF Excused
  <2>2. CASE ~Young(t, clock)
    <3>1. Firm(u)
      BY <1>1, <1>2, <1>7, <2>2 DEF Firm
    <3>2. after(stamp(t), last)
      BY <1>3, <2>2, NewIsAfter
    <3>3. Answerable(e, g, last, msgs \cup y.out)
      BY <1>1, <1>2, <1>8, <3>2 DEF Answerable
    <3>4. y.q \in Seq(Aged(clock, clock, Owed(Credit(u))))
      BY <1>1, <1>7
    <3> QED  BY <1>1, <1>2, <3>1, <3>3, <3>4 DEF Excused
  <2> QED  BY <2>1, <2>2
<1>12. clock <= clock + REKEY_TIMEOUT /\ u.started <= clock /\ g.init.stamp.nano > 0
  <2>1. u.started = t.started
    BY <1>1 DEF SameDevice
  <2> QED  BY <1>2, <1>4, <1>8, <2>1, Constants
<1>13. Len(y.q) <= k + 1
  BY <1>1
<1>14. WaitEnd(e, u, y.q, last, msgs \cup y.out, k)
  BY <1>1, <1>2, <1>7, <1>9, <1>10, <1>11, <1>12, <1>13 DEF WaitEnd
<1> QED  BY <1>14 DEF u

(* What a handshake that starts with an empty queue may find in it. *)
LEMMA FreshQueue ==
  ASSUME clock \in Nat, NEW n \in Nat, NEW k \in Nat, NEW what \in Content
  PROVE  LET S == Aged(clock, clock, Owed(n))
             p == Append(Swept(Swept(<<>>)), [at |-> clock, what |-> what])
         IN  /\ Swept(<<>>) = <<>> /\ <<>> \in Seq(S) /\ Len(<<>>) <= k + 1
             /\ p \in Seq(S) /\ Len(p) <= k + 1
<1> DEFINE S == Aged(clock, clock, Owed(n))
           c == [at |-> clock, what |-> what]
<1>1. Swept(<<>>) = <<>>
  <2>1. Swept(<<>>) \in Seq({}) /\ Len(Swept(<<>>)) <= 0
    BY EmptyIs, SweptIs
  <2> QED  BY <2>1
<1>2. c \in Packet /\ c.at = clock
  BY DEF Packet
<1> HIDE DEF c
<1>3. c \in S
  BY <1>2, OwedIs DEF Aged
<1> HIDE DEF S
<1>4. <<>> \in Seq(S) /\ Len(<<>>) = 0 /\ 0 <= k + 1 /\ 1 <= k + 1
  BY EmptyIs
<1>5. Append(<<>>, c) \in Seq(S) /\ Len(Append(<<>>, c)) = 1
  BY <1>3, <1>4
<1>6. Swept(Swept(<<>>)) = <<>>
  BY <1>1
<1> QED  BY <1>1, <1>4, <1>5, <1>6 DEF S, c

(* What a retry finds in the queue. *)
LEMMA RetryQueue ==
  ASSUME clock \in Nat, lost \in Nat, NEW e \in End, NEW t \in Tunn, NEW q, NEW last, NEW msgs,
         NEW d \in Nat, WaitEnd(e, t, q, last, msgs, d), t.state.tag = "sent",
         clock - t.state.at >= REKEY_TIMEOUT
  PROVE  Swept(q) \in Seq(Aged(clock, clock, Owed(Credit(t)))) /\ Len(Swept(q)) <= d + 1
         /\ ~Young(t, clock)
<1> DEFINE h == t.state
           n == Credit(t)
           S == Aged(clock, h.at, Owed(n - 1))
           T == Aged(clock, clock, Owed(n))
<1>1. h.at \in Nat /\ REKEY_TIMEOUT \in Nat /\ REKEY_TIMEOUT > 0 /\ t.started \in Nat
  BY SentIs, Constants, TimerAssumption DEF Tunn
<1>2. /\ Excused(e, t, q, last, msgs) /\ clock <= h.at + REKEY_TIMEOUT /\ Len(q) <= d + 1
      /\ t.started <= h.at
  BY DEF WaitEnd
<1>3. h.at # clock /\ ~Young(t, clock)
  BY <1>1, <1>2 DEF Young
<1>4. n \in Nat /\ (n >= 1 => n - 1 \in Nat)
  BY CreditIs
<1>5. n >= 1 /\ q \in Seq(S)
  BY <1>2, <1>3 DEF Excused
<1> HIDE DEF h, n
<1>6. Owed(n - 1) \in Nat /\ Owed(n) = Owed(n - 1) + REKEY_TIMEOUT
  <2>1. n - 1 \in Nat /\ (n - 1) + 1 = n
    BY <1>4, <1>5
  <2> QED  BY <2>1, OwedIs
<1>7. ASSUME NEW p \in S PROVE p \in T
  <2>1. p \in Packet /\ p.at \in Nat /\ p.at <= clock /\ h.at <= p.at + Owed(n - 1)
    BY <1>7 DEF Aged, Packet
  <2>2. clock <= p.at + Owed(n)
    BY <1>1, <1>2, <1>6, <2>1
  <2> QED  BY <2>1, <2>2 DEF Aged
<1> HIDE DEF S, T
<1>8. q \in Seq(T)
  BY <1>5, <1>7, SeqSubset
<1>9. Swept(q) \in Seq(T) /\ Len(Swept(q)) <= Len(q)
  BY <1>8, SweptIs
<1>10. Len(q) \in Nat /\ Len(Swept(q)) \in Nat
  BY <1>8, <1>9
<1>11. Len(Swept(q)) <= d + 1
  BY <1>2, <1>9, <1>10
<1> QED  BY <1>3, <1>9, <1>11 DEF T, n
-----------------------------------------------------------------------------
(* The steps. *)

LEMMA WaitFacts ==
  ASSUME TunnelInv, NEW e \in End
  PROVE  /\ clock \in Nat /\ lost \in Nat /\ data \in Nat /\ data <= MaxData
         /\ tunn[e] \in Tunn /\ tunn[e].last_timestamp \in Tai64N
         /\ tunn[e].allocated \in Nat /\ tunn[e].started \in Nat /\ tunn[e].unix \in Nat
         /\ tunn[e].boot \in Nat /\ tunn[e].started <= clock
         /\ IsPart(Part(e)) /\ Part(e).t = tunn[e] /\ Part(e).out = {}
         /\ Part(e).q = Swept(waiting[e])
         /\ \A m \in net : MessageInv(m)
         /\ tunn[e].state.tag = "sent" =>
              /\ tunn[e].state.at \in Nat /\ tunn[e].state.init \in Initiation
              /\ tunn[e].state.init.stamp \in Tai64N
              /\ tunn[e].state.at <= clock /\ tunn[e].state.index = IndexOf(tunn[e].state.init.eph)
<1>1. PICK b \in BOOLEAN : TunnInv(e, tunn[e], b)
  BY EndIs
<1>2. clock \in Nat /\ tunn[e] \in Tunn
  BY EndIs
<1>3. lost \in Nat /\ data \in Nat /\ data <= MaxData /\ \A m \in net : MessageInv(m)
  BY Constants DEF TunnelInv
<1>4. /\ tunn[e].last_timestamp \in Tai64N /\ tunn[e].allocated \in Nat /\ tunn[e].boot \in Nat
      /\ tunn[e].started \in Nat /\ tunn[e].unix \in Nat
  BY <1>2 DEF Tunn
<1>5. HandshakesInv(tunn[e])
  BY <1>1 DEF TunnInv, CoreInv
<1>6. Part(e) = [t |-> tunn[e], q |-> Swept(waiting[e]), out |-> {}]
  BY DEF Part
<1>7. /\ IsPart(Part(e)) /\ Part(e).t = tunn[e] /\ Part(e).out = {}
      /\ Part(e).q = Swept(waiting[e])
  BY <1>6 DEF IsPart
<1>8. ASSUME tunn[e].state.tag = "sent"
      PROVE  /\ tunn[e].state.at \in Nat /\ tunn[e].state.init \in Initiation
             /\ tunn[e].state.init.stamp \in Tai64N
             /\ tunn[e].state.at <= clock /\ tunn[e].state.index = IndexOf(tunn[e].state.init.eph)
  <2>1. tunn[e].state \in Outstanding(tunn[e])
    BY <1>8 DEF Outstanding
  <2>2. tunn[e].state.at \in Nat /\ tunn[e].state.init \in Initiation
        /\ tunn[e].state.init.stamp \in Tai64N
    BY <1>2, <1>8, SentIs
  <2> QED  BY <1>5, <2>1, <2>2 DEF HandshakesInv
<1> QED  BY <1>2, <1>3, <1>4, <1>5, <1>7, <1>8 DEF HandshakesInv

(* The other end of e keeps its part when e does not take its handshake's   *)
(* message and sends it no initiation.                                      *)
LEMMA OtherWait ==
  ASSUME TunnelInv, WaitInv, NEW e \in End, NEW new, NEW sent, NEW k \in Nat, data <= k,
         Known(tunn[Other(e)], new),
         \A m \in sent : m \in net \/ ~(m.kind = "init" /\ m.to = e),
         Firm(tunn[Other(e)])
           /\ Answerable(Other(e), tunn[Other(e)].state, tunn[e].last_timestamp, net)
           => Answerable(Other(e), tunn[Other(e)].state, new, sent)
  PROVE  WaitEnd(Other(e), tunn[Other(e)], waiting[Other(e)], new, sent, k)
<1> DEFINE f == Other(e)
<1>1. f \in End /\ Other(f) = e
  BY OtherIs
<1> HIDE DEF f
<1>2. WaitEnd(f, tunn[f], waiting[f], tunn[e].last_timestamp, net, data)
  BY <1>1 DEF WaitInv
<1>3. clock \in Nat /\ lost \in Nat /\ data \in Nat /\ tunn[f] \in Tunn
      /\ SameDevice(tunn[f], tunn[f]) /\ tunn[f].allocated <= tunn[f].allocated
  <2>1. clock \in Nat /\ lost \in Nat /\ data \in Nat /\ tunn[f] \in Tunn
        /\ tunn[f].allocated \in Nat
    BY <1>1, WaitFacts
  <2> QED  BY <2>1 DEF SameDevice
<1>4. \A m \in sent : m \in net \/ ~(m.kind = "init" /\ m.to = Other(f))
  BY <1>1
<1>5. Known(tunn[f], new)
  BY DEF f
<1>6. Firm(tunn[f]) /\ Answerable(f, tunn[f].state, tunn[e].last_timestamp, net)
        => Answerable(f, tunn[f].state, new, sent)
  BY DEF f
<1>7. WaitEnd(f, tunn[f], waiting[f], new, sent, k)
  BY <1>1, <1>2, <1>3, <1>4, <1>5, <1>6, QuietWait
<1> QED  BY <1>7 DEF f

(* What holds of an end still holds of it, seen from the next state. *)
LEMMA SameWait ==
  ASSUME NEW e, NEW t, NEW q, NEW last, NEW d, WaitEnd(e, t, q, last, net', d),
         clock' = clock, lost' = lost, data' = d, tunn'[e] = t, waiting'[e] = q,
         tunn'[Other(e)].last_timestamp = last
  PROVE  WaitEnd(e, tunn[e], waiting[e], tunn[Other(e)].last_timestamp, net, data)'
<1>1. /\ (Anchored(tunn[e]))' /\ (Known(tunn[e], tunn[Other(e)].last_timestamp))'
      /\ (Firm(tunn[e]))' <=> Firm(t)
      /\ (Credit(tunn[e]))' = Credit(t)
  BY DEF WaitEnd, Anchored, Known, Old, Firm, Young, Credit
<1>2. ASSUME t.state.tag = "sent"
      PROVE  Excused(e, tunn[e], waiting[e], tunn[Other(e)].last_timestamp, net)'
  BY <1>1, <1>2 DEF WaitEnd, Excused
<1>3. ASSUME NEW m \in net', m.kind = "init", m.to = Other(e)
      PROVE  /\ (Known(tunn[e], m.init.stamp))'
             /\ Firm(t) => m.init = t.state.init \/ after(t.state.init.stamp, m.init.stamp)
  BY <1>3 DEF WaitEnd, Known, Old
<1> QED  BY <1>1, <1>2, <1>3 DEF WaitEnd

(* A step of end e, which leaves it with tunnel t and queue q. *)
LEMMA WaitStep ==
  ASSUME TunnelInv, WaitInv, NEW e \in End, NEW t, NEW q,
         tunn' = [tunn EXCEPT ![e] = t], waiting' = [waiting EXCEPT ![e] = q],
         clock' = clock, lost' = lost,
         WaitEnd(e, t, q, tunn[Other(e)].last_timestamp, net', data'),
         WaitEnd(Other(e), tunn[Other(e)], waiting[Other(e)], t.last_timestamp, net', data'),
         t.state.tag = "sent" /\ e \in ticked' => clock < t.state.at + REKEY_TIMEOUT,
         Other(e) \in ticked' => Other(e) \in ticked
  PROVE  WaitInv'
<1> DEFINE f == Other(e)
<1>1. f \in End /\ f # e /\ Other(f) = e /\ \A g \in End : g = e \/ g = f
  BY OtherIs
<1>2. /\ tunn'[e] = t /\ tunn'[f] = tunn[f] /\ DOMAIN waiting' = End
      /\ waiting'[e] = q /\ waiting'[f] = waiting[f]
  BY <1>1 DEF TunnelInv, WaitInv
<1>3. Other(e) = f
  OBVIOUS
<1> HIDE DEF f
<1>4. WaitEnd(e, t, q, tunn[f].last_timestamp, net', data')
      /\ WaitEnd(f, tunn[f], waiting[f], t.last_timestamp, net', data')
  BY <1>3
<1>5. WaitEnd(e, tunn[e], waiting[e], tunn[Other(e)].last_timestamp, net, data)'
  <2>1. tunn'[Other(e)].last_timestamp = tunn[f].last_timestamp
    BY <1>2, <1>3
  <2> QED  BY <1>2, <1>4, <2>1, SameWait
<1>6. WaitEnd(f, tunn[f], waiting[f], tunn[Other(f)].last_timestamp, net, data)'
  <2>1. tunn'[Other(f)].last_timestamp = t.last_timestamp
    BY <1>1, <1>2
  <2> QED  BY <1>2, <1>4, <2>1, SameWait
<1>7. (tunn[e].state.tag = "sent" /\ e \in ticked => clock < tunn[e].state.at + REKEY_TIMEOUT)'
  BY <1>2
<1>8. (tunn[f].state.tag = "sent" /\ f \in ticked => clock < tunn[f].state.at + REKEY_TIMEOUT)'
  BY <1>1, <1>2, <1>3 DEF WaitInv
<1>9. tunn' = [g \in End |-> tunn'[g]]
  <2>1. tunn = [g \in End |-> tunn[g]]
    BY DEF WaitInv
  <2> QED  BY <2>1
<1> QED  BY <1>1, <1>2, <1>5, <1>6, <1>7, <1>8, <1>9 DEF WaitInv

LEMMA NextTunn ==
  ASSUME TunnelInv', NEW e \in End
  PROVE  tunn'[e] \in Tunn
  BY DEF TunnelInv, TunnInv, CoreInv

LEMMA WaitEnds ==
  ASSUME TunnelInv, WaitInv, NEW e \in End
  PROVE  /\ Other(e) \in End /\ Other(e) # e
         /\ WaitEnd(e, tunn[e], waiting[e], tunn[Other(e)].last_timestamp, net, data)
         /\ tunn[Other(e)].last_timestamp \in Tai64N
         /\ Known(tunn[e], tunn[Other(e)].last_timestamp)
         /\ Known(tunn[Other(e)], tunn[e].last_timestamp)
<1> DEFINE f == Other(e)
<1>1. f \in End /\ Other(f) = e /\ f # e
  BY OtherIs
<1> HIDE DEF f
<1>2. WaitEnd(e, tunn[e], waiting[e], tunn[Other(e)].last_timestamp, net, data)
      /\ WaitEnd(f, tunn[f], waiting[f], tunn[Other(f)].last_timestamp, net, data)
  BY <1>1 DEF WaitInv
<1>3. tunn[f].last_timestamp \in Tai64N
  BY <1>1, WaitFacts
<1>4. Known(tunn[e], tunn[Other(e)].last_timestamp) /\ Known(tunn[f], tunn[e].last_timestamp)
  BY <1>1, <1>2 DEF WaitEnd
<1> QED  BY <1>1, <1>2, <1>3, <1>4 DEF f

(* A step of end e that leaves its handshake and its queue alone, and takes *)
(* no message but data out of the network.                                  *)
LEMMA QuietStep ==
  ASSUME TunnelInv, TunnelInv', WaitInv, NEW e \in End, NEW x, Quiet(Part(e), x),
         tunn' = [tunn EXCEPT ![e] = x.t], waiting' = [waiting EXCEPT ![e] = x.q],
         clock' = clock, lost' = lost, data' \in Nat, data <= data',
         \A m \in net' : m \in net \/ m \in x.out,
         \A m \in net : m \in net' \/ m.kind = "data",
         x.t.state.tag = "sent" /\ e \in ticked' => clock < x.t.state.at + REKEY_TIMEOUT,
         Other(e) \in ticked' => Other(e) \in ticked
  PROVE  WaitInv'
<1> DEFINE f == Other(e)
           t == tunn[e]
           last == tunn[f].last_timestamp
<1>1. /\ clock \in Nat /\ lost \in Nat /\ data \in Nat /\ t \in Tunn /\ t.allocated \in Nat
      /\ Part(e).t = t /\ Part(e).out = {} /\ Part(e).q = Swept(waiting[e])
      /\ t.last_timestamp \in Tai64N /\ \A m \in net : MessageInv(m)
  BY WaitFacts
<1>2. f \in End /\ f # e /\ WaitEnd(e, t, waiting[e], last, net, data) /\ last \in Tai64N
      /\ Known(t, last) /\ Known(tunn[f], t.last_timestamp)
  BY WaitEnds
<1>3. SameHandshakes(t, x.t) /\ x.q = Swept(waiting[e]) /\ \A m \in x.out : m.kind = "data"
  BY <1>1 DEF Quiet
<1>4. x.t \in Tunn
  <2>1. tunn'[e] = x.t
    BY DEF TunnelInv
  <2> QED  BY <2>1, NextTunn
<1>5. SameDevice(t, x.t) /\ x.t.allocated = t.allocated /\ x.t.state = t.state
      /\ x.t.last_timestamp = t.last_timestamp
  BY <1>3 DEF SameHandshakes, SameDevice
<1>6. \A m \in net' : m \in net \/ ~(m.kind = "init")
  BY <1>3
<1>7. \A m \in net : m.kind \in {"init", "resp"} => m \in net'
  OBVIOUS
<1>8. \A g, h, n : Answerable(g, h, n, net) => Answerable(g, h, n, net')
  BY <1>7 DEF Answerable
<1> HIDE DEF f, t, last
<1>9. WaitEnd(e, x.t, x.q, last, net', data')
  <2> DEFINE N == net'
             D == data'
  <2>1. /\ \A m \in N : m \in net \/ ~(m.kind = "init" /\ m.to = Other(e))
        /\ Firm(t) /\ Answerable(e, t.state, last, net)
             => Answerable(e, t.state, last, N)
        /\ D \in Nat /\ data <= D
    BY <1>6, <1>8
  <2>2. t.allocated <= x.t.allocated /\ Known(x.t, last)
        /\ x.q \in {waiting[e], Swept(waiting[e]), <<>>}
    <3>1. t.allocated <= x.t.allocated
      BY <1>1, <1>5
    <3>2. Onward(t, x.t)
      BY <1>1, <1>4, <1>5, <3>1, OnwardIs
    <3> QED  BY <1>2, <1>3, <3>1, <3>2 DEF Onward
  <2> HIDE DEF N, D
  <2>3. WaitEnd(e, x.t, x.q, last, N, D)
    BY <1>1, <1>2, <1>4, <1>5, <2>1, <2>2, QuietWait
  <2> QED  BY <2>3 DEF N, D
<1>10. WaitEnd(f, tunn[f], waiting[f], x.t.last_timestamp, net', data')
  <2> DEFINE N == net'
             D == data'
             new == x.t.last_timestamp
  <2>1. /\ \A m \in N : m \in net \/ ~(m.kind = "init" /\ m.to = e)
        /\ D \in Nat /\ data <= D /\ Known(tunn[Other(e)], new)
    BY <1>1, <1>2, <1>5, <1>6 DEF f
  <2>2. Firm(tunn[Other(e)])
          /\ Answerable(Other(e), tunn[Other(e)].state, tunn[e].last_timestamp, net)
          => Answerable(Other(e), tunn[Other(e)].state, new, N)
    BY <1>5, <1>8 DEF t
  <2> HIDE DEF N, D, new
  <2>3. WaitEnd(Other(e), tunn[Other(e)], waiting[Other(e)], new, N, D)
    BY <2>1, <2>2, OtherWait
  <2> QED  BY <2>3 DEF N, D, f, new
<1> QED  BY <1>9, <1>10, WaitStep DEF f, last

(* A step of end e that starts a handshake: z is e's part before it. *)
LEMMA BeginStep ==
  ASSUME TunnelInv, TunnelInv', WaitInv, NEW e \in End, NEW z, NEW x, Begun(e, z, x),
         z.t = tunn[e], z.out = {}, z.q \in Seq(Aged(clock, clock, Owed(Credit(tunn[e])))),
         Young(tunn[e], clock) => z.q \in Seq(Aged(clock, clock, Owed(Credit(tunn[e]) - 1))),
         tunn' = [tunn EXCEPT ![e] = x.t], waiting' = [waiting EXCEPT ![e] = x.q],
         clock' = clock, lost' = lost, data' \in Nat, data <= data', Len(z.q) <= data' + 1,
         net' = net \cup x.out, Other(e) \in ticked' => Other(e) \in ticked
  PROVE  WaitInv'
<1> DEFINE f == Other(e)
           t == tunn[e]
           last == tunn[f].last_timestamp
<1>1. /\ clock \in Nat /\ lost \in Nat /\ data \in Nat /\ t \in Tunn /\ t.allocated \in Nat
      /\ t.last_timestamp \in Tai64N /\ t.started <= clock
  BY WaitFacts
<1>2. f \in End /\ f # e /\ WaitEnd(e, t, waiting[e], last, net, data) /\ last \in Tai64N
      /\ Known(t, last) /\ Known(tunn[f], t.last_timestamp)
  BY WaitEnds
<1>3. x.t \in Tunn
  <2>1. tunn'[e] = x.t
    BY DEF TunnelInv
  <2> QED  BY <2>1, NextTunn
<1>4. x.t.state.at = clock /\ x.t.last_timestamp = t.last_timestamp
      /\ \A m \in x.out : m.to = f
  BY DEF Begun
<1> HIDE DEF f, t, last
<1>5. WaitEnd(e, x.t, x.q, last, net', data')
  <2> DEFINE D == data'
  <2>1. /\ D \in Nat /\ Len(z.q) <= D + 1 /\ z.t = t
        /\ z.q \in Seq(Aged(clock, clock, Owed(Credit(t))))
        /\ Young(t, clock) => z.q \in Seq(Aged(clock, clock, Owed(Credit(t) - 1)))
    BY DEF t
  <2> HIDE DEF D
  <2>2. WaitEnd(e, x.t, x.q, last, net \cup x.out, D)
    BY <1>1, <1>2, <1>3, <2>1, BeginWait
  <2> QED  BY <2>2 DEF D
<1>6. WaitEnd(f, tunn[f], waiting[f], x.t.last_timestamp, net', data')
  <2> DEFINE N == net'
             D == data'
             new == x.t.last_timestamp
  <2>1. /\ \A m \in N : m \in net \/ ~(m.kind = "init" /\ m.to = e)
        /\ D \in Nat /\ data <= D /\ Known(tunn[Other(e)], new)
    BY <1>1, <1>2, <1>4 DEF f
  <2>2. Firm(tunn[Other(e)])
          /\ Answerable(Other(e), tunn[Other(e)].state, tunn[e].last_timestamp, net)
          => Answerable(Other(e), tunn[Other(e)].state, new, N)
    BY <1>4 DEF t, Answerable
  <2> HIDE DEF N, D, new
  <2>3. WaitEnd(Other(e), tunn[Other(e)], waiting[Other(e)], new, N, D)
    BY <2>1, <2>2, OtherWait
  <2> QED  BY <2>3 DEF N, D, f, new
<1>7. clock < x.t.state.at + REKEY_TIMEOUT
  <2>1. REKEY_TIMEOUT \in Nat /\ REKEY_TIMEOUT > 0
    BY Constants, TimerAssumption
  <2> QED  BY <1>1, <1>4, <2>1
<1> QED  BY <1>5, <1>6, <1>7, WaitStep DEF f, last

(* The other end of e, after a step of e that leaves it with the stamp new. *)
LEMMA OtherStep ==
  ASSUME TunnelInv, WaitInv, NEW e \in End, NEW new, Known(tunn[Other(e)], new),
         data' \in Nat, data <= data',
         \A m \in net' : m \in net \/ ~(m.kind = "init" /\ m.to = e),
         Firm(tunn[Other(e)])
           /\ Answerable(Other(e), tunn[Other(e)].state, tunn[e].last_timestamp, net)
           => Answerable(Other(e), tunn[Other(e)].state, new, net')
  PROVE  WaitEnd(Other(e), tunn[Other(e)], waiting[Other(e)], new, net', data')
<1> DEFINE N == net'
           D == data'
<1>1. /\ D \in Nat /\ data <= D
      /\ \A m \in N : m \in net \/ ~(m.kind = "init" /\ m.to = e)
  OBVIOUS
<1>2. Firm(tunn[Other(e)])
        /\ Answerable(Other(e), tunn[Other(e)].state, tunn[e].last_timestamp, net)
        => Answerable(Other(e), tunn[Other(e)].state, new, N)
  OBVIOUS
<1> HIDE DEF N, D
<1>3. WaitEnd(Other(e), tunn[Other(e)], waiting[Other(e)], new, N, D)
  BY <1>1, <1>2, OtherWait
<1> QED  BY <1>3 DEF N, D

(* A step of end e after which it has no handshake in flight and nothing    *)
(* waits.                                                                   *)
LEMMA EmptyStep ==
  ASSUME TunnelInv, TunnelInv', WaitInv, NEW e \in End, NEW u,
         tunn' = [tunn EXCEPT ![e] = u], waiting' = [waiting EXCEPT ![e] = <<>>],
         clock' = clock, lost' = lost, data' = data, u.state.tag # "sent",
         Onward(tunn[e], u), Anchored(u), Known(tunn[Other(e)], u.last_timestamp),
         \A m \in net' : m \in net \/ m.kind # "init",
         Firm(tunn[Other(e)])
           /\ Answerable(Other(e), tunn[Other(e)].state, tunn[e].last_timestamp, net)
           => Answerable(Other(e), tunn[Other(e)].state, u.last_timestamp, net'),
         Other(e) \in ticked' => Other(e) \in ticked
  PROVE  WaitInv'
<1> DEFINE last == tunn[Other(e)].last_timestamp
<1>1. data \in Nat /\ tunn[e] \in Tunn
  BY WaitFacts
<1>2. WaitEnd(e, tunn[e], waiting[e], last, net, data)
  BY WaitEnds
<1>3. u \in Tunn
  <2>1. tunn'[e] = u
    BY DEF TunnelInv
  <2> QED  BY <2>1, NextTunn
<1> HIDE DEF last
<1>4. WaitEnd(e, u, <<>>, last, net', data')
  <2> DEFINE N == net'
  <2>1. \A m \in N : m \in net \/ ~(m.kind = "init" /\ m.to = Other(e))
    OBVIOUS
  <2> HIDE DEF N
  <2>2. WaitEnd(e, u, <<>>, last, N, data)
    BY <1>1, <1>2, <1>3, <2>1, EmptyWait
  <2> QED  BY <2>2 DEF N
<1>5. data' \in Nat /\ data <= data'
  BY <1>1
<1>6. \A m \in net' : m \in net \/ ~(m.kind = "init" /\ m.to = e)
  OBVIOUS
<1>7. WaitEnd(Other(e), tunn[Other(e)], waiting[Other(e)], u.last_timestamp, net', data')
  BY <1>5, <1>6, OtherStep
<1> QED  BY <1>4, <1>7, WaitStep DEF last

(* A step of end e that keeps its handshake and does not take its message.  *)
LEMMA KeptStep ==
  ASSUME TunnelInv, TunnelInv', WaitInv, NEW e \in End, NEW u,
         NEW p \in {waiting[e], Swept(waiting[e]), <<>>},
         tunn' = [tunn EXCEPT ![e] = u], waiting' = [waiting EXCEPT ![e] = p],
         clock' = clock, lost' = lost, data' = data, ticked' = ticked,
         u.state = tunn[e].state, SameDevice(tunn[e], u), u.allocated = tunn[e].allocated,
         u.last_timestamp = tunn[e].last_timestamp,
         \A m \in net' : m \in net \/ m.kind # "init",
         \A f \in End : LET t == tunn[f]
                            last == tunn[Other(f)].last_timestamp
                        IN  Firm(t) /\ Answerable(f, t.state, last, net)
                            => Answerable(f, t.state, last, net')
  PROVE  WaitInv'
<1> DEFINE last == tunn[Other(e)].last_timestamp
           t == tunn[e]
<1>1. /\ clock \in Nat /\ lost \in Nat /\ data \in Nat /\ t \in Tunn /\ t.allocated \in Nat
  BY WaitFacts
<1>2. WaitEnd(e, t, waiting[e], last, net, data) /\ last \in Tai64N /\ Known(t, last)
      /\ Known(tunn[Other(e)], t.last_timestamp)
  BY WaitEnds
<1>3. u \in Tunn
  <2>1. tunn'[e] = u
    BY DEF TunnelInv
  <2> QED  BY <2>1, NextTunn
<1>4. u.state = t.state /\ SameDevice(t, u) /\ t.allocated <= u.allocated /\ Known(u, last)
      /\ u.last_timestamp = t.last_timestamp
  <2>1. SameDevice(t, u) /\ t.allocated <= u.allocated
    BY <1>1
  <2>2. Onward(t, u)
    BY <1>1, <1>3, <2>1, OnwardIs
  <2> QED  BY <1>2, <2>1, <2>2 DEF Onward
<1>5. /\ Firm(t) /\ Answerable(e, t.state, last, net)
           => Answerable(e, t.state, last, net')
      /\ Firm(tunn[Other(e)])
           /\ Answerable(Other(e), tunn[Other(e)].state, tunn[e].last_timestamp, net)
           => Answerable(Other(e), tunn[Other(e)].state, u.last_timestamp, net')
  <2>1. Other(e) \in End /\ Other(Other(e)) = e
    BY OtherIs
  <2> QED  BY <1>4, <2>1
<1> HIDE DEF last, t
<1>6. WaitEnd(e, u, p, last, net', data')
  <2> DEFINE N == net'
  <2>1. \A m \in N : m \in net \/ ~(m.kind = "init" /\ m.to = Other(e))
    OBVIOUS
  <2>2. Firm(t) /\ Answerable(e, t.state, last, net)
          => Answerable(e, t.state, last, N)
    BY <1>5
  <2>3. data <= data
    BY <1>1
  <2> HIDE DEF N
  <2>4. WaitEnd(e, u, p, last, N, data)
    BY <1>1, <1>2, <1>3, <1>4, <2>1, <2>2, <2>3, QuietWait
  <2> QED  BY <2>4 DEF N
<1>7. data' \in Nat /\ data <= data'
  BY <1>1
<1>8. \A m \in net' : m \in net \/ ~(m.kind = "init" /\ m.to = e)
  OBVIOUS
<1>9. Known(tunn[Other(e)], u.last_timestamp)
  BY <1>1, <1>2, <1>4
<1>10. WaitEnd(Other(e), tunn[Other(e)], waiting[Other(e)], u.last_timestamp, net', data')
  BY <1>5, <1>7, <1>8, <1>9, OtherStep
<1>11. u.state.tag = "sent" /\ e \in ticked' => clock < u.state.at + REKEY_TIMEOUT
  BY <1>4 DEF WaitInv, t
<1> QED  BY <1>6, <1>10, <1>11, WaitStep DEF last

(* A step of end e that queues a packet behind the handshake in flight. *)
LEMMA QueueStep ==
  ASSUME TunnelInv, TunnelInv', WaitInv, NEW e \in End, tunn[e].state.tag = "sent",
         NEW what \in Content, NEW p,
         p = Append(Swept(Swept(waiting[e])), [at |-> clock, what |-> what]),
         tunn' = [tunn EXCEPT ![e] = tunn[e]], waiting' = [waiting EXCEPT ![e] = p],
         clock' = clock, lost' = lost, data' = data + 1, ticked' = ticked, net' = net
  PROVE  WaitInv'
<1> DEFINE last == tunn[Other(e)].last_timestamp
           t == tunn[e]
<1>1. /\ clock \in Nat /\ lost \in Nat /\ data \in Nat /\ t \in Tunn /\ t.allocated \in Nat
      /\ t.last_timestamp \in Tai64N /\ t.state.at <= clock
  BY WaitFacts
<1>2. WaitEnd(e, t, waiting[e], last, net, data) /\ Known(tunn[Other(e)], t.last_timestamp)
  BY WaitEnds
<1>3. t.state.tag = "sent"
  OBVIOUS
<1> HIDE DEF last, t
<1>4. WaitEnd(e, t, p, last, net, data + 1)
  BY <1>1, <1>2, <1>3, QueueWait
<1>5. WaitEnd(e, t, p, last, net', data')
  BY <1>4
<1>6. data' \in Nat /\ data <= data' /\ \A m \in net' : m \in net
  BY <1>1
<1>7. Firm(tunn[Other(e)])
        /\ Answerable(Other(e), tunn[Other(e)].state, tunn[e].last_timestamp, net)
        => Answerable(Other(e), tunn[Other(e)].state, t.last_timestamp, net')
  BY DEF t
<1>8. WaitEnd(Other(e), tunn[Other(e)], waiting[Other(e)], t.last_timestamp, net', data')
  BY <1>1, <1>2, <1>6, <1>7, OtherStep
<1>9. t.state.tag = "sent" /\ e \in ticked' => clock < t.state.at + REKEY_TIMEOUT
  BY DEF WaitInv, t
<1>10. tunn' = [tunn EXCEPT ![e] = t]
  BY DEF t
<1> QED  BY <1>5, <1>8, <1>9, <1>10, WaitStep DEF last

LEMMA EncapsulateWait ==
  ASSUME TunnelInv, TunnelInv', WaitInv, NEW e \in End, NEW what \in Content, Encapsulate(e, what)
  PROVE  WaitInv'
<1> DEFINE x == encapsulate(e, Part(e), what)
           z == queue_packet(Part(e), what)
           c == [at |-> clock, what |-> what]
           t == tunn[e]
<1>1. /\ tunn' = [tunn EXCEPT ![e] = x.t] /\ waiting' = [waiting EXCEPT ![e] = x.q]
      /\ net' = net \cup x.out /\ data' = data + 1
      /\ clock' = clock /\ ticked' = ticked /\ lost' = lost
  BY DEF Encapsulate, Commit
<1>2. /\ clock \in Nat /\ lost \in Nat /\ data \in Nat /\ t \in Tunn /\ t.started <= clock
      /\ IsPart(Part(e)) /\ Part(e).t = t /\ Part(e).out = {} /\ Part(e).q = Swept(waiting[e])
  BY WaitFacts
<1>3. \/ Quiet(Part(e), x)
      \/ is_in_progress(t) /\ x = z
      \/ ~is_in_progress(t) /\ Begun(e, z, x)
  BY <1>2, EncapsulateIs
<1>4. z.t = t /\ z.out = {} /\ z.q = Append(Swept(Swept(waiting[e])), c)
  BY <1>2, QueuedIs
<1>5. data' \in Nat /\ data <= data'
  BY <1>1, <1>2
<1> HIDE DEF x, z
<1>6. CASE Quiet(Part(e), x)
  <2>1. /\ \A m \in net' : m \in net \/ m \in x.out
        /\ \A m \in net : m \in net' \/ m.kind = "data"
    BY <1>1
  <2>2. x.t.state.tag = "sent" /\ e \in ticked' => clock < x.t.state.at + REKEY_TIMEOUT
    <3>1. x.t.state = t.state
      BY <1>2, <1>6 DEF Quiet, SameHandshakes
    <3> QED  BY <1>1, <3>1 DEF WaitInv
  <2> QED  BY <1>1, <1>5, <1>6, <2>1, <2>2, QuietStep
<1>7. CASE is_in_progress(t) /\ x = z
  <2>1. t.state.tag = "sent" /\ x.t = t /\ x.out = {}
        /\ x.q = Append(Swept(Swept(waiting[e])), c)
    BY <1>4, <1>7 DEF is_in_progress
  <2>2. tunn' = [tunn EXCEPT ![e] = tunn[e]] /\ net' = net
    BY <1>1, <2>1
  <2> QED  BY <1>1, <2>1, <2>2, QueueStep
<1>8. CASE ~is_in_progress(t) /\ Begun(e, z, x)
  <2>1. waiting[e] = <<>>
    BY <1>8 DEF WaitInv, WaitEnd, is_in_progress
  <2> DEFINE k == data'
             p == Append(Swept(Swept(<<>>)), c)
  <2>2. k \in Nat
    BY <1>5
  <2> HIDE DEF k
  <2> DEFINE n == Credit(t)
  <2>3. Len(p) <= k + 1 /\ p \in Seq(Aged(clock, clock, Owed(n)))
        /\ (Young(t, clock) => p \in Seq(Aged(clock, clock, Owed(n - 1))))
    <3>1. n \in Nat /\ (Young(t, clock) => n - 1 \in Nat)
      BY <1>2, CreditIs DEF Young
    <3> HIDE DEF n
    <3> QED  BY <1>2, <2>2, <3>1, FreshQueue
  <2>4. z.q = p
    BY <1>4, <2>1
  <2> HIDE DEF p
  <2>5. Len(z.q) <= data' + 1 /\ z.q \in Seq(Aged(clock, clock, Owed(Credit(tunn[e]))))
        /\ (Young(tunn[e], clock) => z.q \in Seq(Aged(clock, clock, Owed(Credit(tunn[e]) - 1))))
    BY <2>3, <2>4 DEF k
  <2> QED  BY <1>1, <1>4, <1>5, <1>8, <2>5, BeginStep
<1> QED  BY <1>3, <1>6, <1>7, <1>8

LEMMA TickWait ==
  ASSUME TunnelInv, TunnelInv', WaitInv, NEW e \in End, HandleTimerTick(e)
  PROVE  WaitInv'
<1> DEFINE x == update_timers(e, Part(e))
           z == queue_packet(Part(e), "keepalive")
           c == [at |-> clock, what |-> "keepalive"]
           t == tunn[e]
           due == clock - t.state.at >= REKEY_TIMEOUT
           S(n) == Aged(clock, clock, Owed(n))
           n == Credit(t)
<1>1. /\ tunn' = [tunn EXCEPT ![e] = x.t] /\ waiting' = [waiting EXCEPT ![e] = x.q]
      /\ net' = net \cup x.out /\ data' = data
      /\ clock' = clock /\ ticked' = ticked \cup {e} /\ lost' = lost
  BY DEF HandleTimerTick, Commit
<1>2. /\ clock \in Nat /\ lost \in Nat /\ data \in Nat /\ t \in Tunn /\ t.allocated \in Nat
      /\ t.started <= clock
      /\ IsPart(Part(e)) /\ Part(e).t = t /\ Part(e).out = {} /\ Part(e).q = Swept(waiting[e])
      /\ (t.state.tag = "sent" => t.state.at \in Nat)
  BY WaitFacts
<1>3. Other(e) # e /\ WaitEnd(e, t, waiting[e], tunn[Other(e)].last_timestamp, net, data)
      /\ Known(tunn[Other(e)], t.last_timestamp)
  BY WaitEnds
<1>4. \/ Ended(Part(e), x)
      \/ is_in_progress(t) /\ ~due /\ Quiet(Part(e), x)
      \/ is_in_progress(t) /\ due /\ Begun(e, Part(e), x)
      \/ ~is_in_progress(t) /\ (\/ Quiet(Part(e), x)
                                \/ Begun(e, Part(e), x)
                                \/ Begun(e, z, x))
  BY <1>2, UpdateTimersIs
<1>5. z.t = t /\ z.out = {} /\ z.q = Append(Swept(Swept(waiting[e])), c)
  BY <1>2, QueuedIs
<1>6. data' \in Nat /\ data <= data' /\ (Other(e) \in ticked' => Other(e) \in ticked)
  BY <1>1, <1>2, <1>3
<1> HIDE DEF x, z
<1>7. ASSUME NEW y, Begun(e, y, x), y.t = t, y.out = {}, Len(y.q) <= data + 1,
             y.q \in Seq(S(n)), Young(t, clock) => y.q \in Seq(S(n - 1))
      PROVE  WaitInv'
  BY <1>1, <1>6, <1>7, BeginStep
<1>8. ASSUME Quiet(Part(e), x), is_in_progress(t) => ~due PROVE WaitInv'
  <2>1. /\ \A m \in net' : m \in net \/ m \in x.out
        /\ \A m \in net : m \in net' \/ m.kind = "data"
    BY <1>1
  <2>2. x.t.state.tag = "sent" /\ e \in ticked' => clock < x.t.state.at + REKEY_TIMEOUT
    <3>1. x.t.state = t.state
      BY <1>2, <1>8 DEF Quiet, SameHandshakes
    <3>2. t.state.tag = "sent" => clock < t.state.at + REKEY_TIMEOUT
      BY <1>2, <1>8, Constants DEF is_in_progress
    <3> QED  BY <3>1, <3>2
  <2> QED  BY <1>1, <1>6, <1>8, <2>1, <2>2, QuietStep
<1>9. CASE Ended(Part(e), x)
  <2>1. /\ SameDevice(t, x.t) /\ x.t.last_timestamp = t.last_timestamp
        /\ x.t.allocated = t.allocated /\ x.t.state.tag # "sent" /\ x.q = <<>> /\ x.out = {}
    BY <1>2, <1>9 DEF Ended
  <2>2. net' = net /\ x.t \in Tunn
    <3>1. tunn'[e] = x.t
      BY <1>1 DEF TunnelInv
    <3> QED  BY <1>1, <2>1, <3>1, NextTunn
  <2> DEFINE u == x.t
  <2>3. Onward(tunn[e], u) /\ Anchored(u) /\ Known(tunn[Other(e)], u.last_timestamp)
        /\ u.last_timestamp = tunn[e].last_timestamp /\ u.state.tag # "sent"
    <3>1. t.allocated <= u.allocated /\ Anchored(t)
      BY <1>2, <1>3, <2>1 DEF WaitEnd
    <3>2. Onward(t, u) /\ Anchored(u)
      BY <1>2, <2>1, <2>2, <3>1, OnwardIs
    <3> QED  BY <1>3, <2>1, <3>2
  <2>4. tunn' = [tunn EXCEPT ![e] = u] /\ waiting' = [waiting EXCEPT ![e] = <<>>]
    BY <1>1, <2>1
  <2>5. Firm(tunn[Other(e)])
          /\ Answerable(Other(e), tunn[Other(e)].state, tunn[e].last_timestamp, net)
          => Answerable(Other(e), tunn[Other(e)].state, u.last_timestamp, net')
    BY <2>2, <2>3
  <2>6. \A m \in net' : m \in net \/ m.kind # "init"
    BY <2>2
  <2> HIDE DEF u
  <2> QED  BY <1>1, <1>6, <2>3, <2>4, <2>5, <2>6, EmptyStep
<1>10. CASE is_in_progress(t) /\ due /\ Begun(e, Part(e), x)
  <2>1. Swept(waiting[e]) \in Seq(S(n)) /\ Len(Swept(waiting[e])) <= data + 1
        /\ ~Young(t, clock)
    <3> DEFINE q == waiting[e]
               last == tunn[Other(e)].last_timestamp
    <3>1. WaitEnd(e, t, q, last, net, data) /\ t.state.tag = "sent"
          /\ clock - t.state.at >= REKEY_TIMEOUT
      BY <1>3, <1>10 DEF is_in_progress
    <3> HIDE DEF q, last, t
    <3>2. Swept(q) \in Seq(S(n)) /\ Len(Swept(q)) <= data + 1 /\ ~Young(t, clock)
      BY <1>2, <3>1, RetryQueue
    <3> QED  BY <3>2 DEF q
  <2> QED  BY <1>2, <1>7, <1>10, <2>1
<1>11. CASE ~is_in_progress(t)
  <2>1. waiting[e] = <<>>
    BY <1>3, <1>11 DEF WaitEnd, is_in_progress
  <2>2. "keepalive" \in Content
    BY DEF Content
  <2> DEFINE p == Append(Swept(Swept(<<>>)), c)
  <2>3. /\ Swept(<<>>) = <<>> /\ Len(<<>>) <= data + 1 /\ Len(p) <= data + 1
        /\ <<>> \in Seq(S(n)) /\ p \in Seq(S(n))
        /\ Young(t, clock) => <<>> \in Seq(S(n - 1)) /\ p \in Seq(S(n - 1))
    <3>1. n \in Nat /\ (Young(t, clock) => n - 1 \in Nat)
      BY <1>2, CreditIs DEF Young
    <3> HIDE DEF n
    <3> QED  BY <1>2, <2>2, <3>1, FreshQueue
  <2>4. z.q = p /\ Part(e).q = Swept(<<>>)
    BY <1>2, <1>5, <2>1
  <2> HIDE DEF p
  <2>5. z.q \in Seq(S(n)) /\ Len(z.q) <= data + 1 /\ (Young(t, clock) => z.q \in Seq(S(n - 1)))
    BY <2>3, <2>4
  <2>6. Part(e).q \in Seq(S(n)) /\ Len(Part(e).q) <= data + 1
        /\ (Young(t, clock) => Part(e).q \in Seq(S(n - 1)))
    BY <2>3, <2>4
  <2>7. CASE Begun(e, Part(e), x)
    BY <1>2, <1>7, <2>6, <2>7
  <2>8. CASE Begun(e, z, x)
    BY <1>5, <1>7, <2>5, <2>8
  <2> QED  BY <1>4, <1>8, <1>9, <1>11, <2>7, <2>8
<1> QED  BY <1>4, <1>8, <1>9, <1>10, <1>11

LEMMA DataWait ==
  ASSUME TunnelInv, TunnelInv', WaitInv, NEW e \in End, NEW m \in net, HandleData(e, m)
  PROVE  WaitInv'
<1> DEFINE t == tunn[e]
           u == set_current_session(t, m.index)
           v == timer_tick(u, "LastPacketReceived")
           w == validate_decapsulated_packet(v, m)
           x == [Part(e) EXCEPT !.t = w]
<1>1. /\ tunn' = [tunn EXCEPT ![e] = x.t] /\ waiting' = [waiting EXCEPT ![e] = x.q]
      /\ net' = (net \ {m}) \cup x.out /\ data' = data /\ m.kind = "data"
      /\ clock' = clock /\ ticked' = ticked /\ lost' = lost
  BY DEF HandleData, Commit
<1>2. data \in Nat /\ t \in Tunn /\ m.index \in Index
  <2>1. data \in Nat /\ t \in Tunn /\ MessageInv(m)
    BY WaitFacts
  <2> QED  BY <1>1, <2>1 DEF MessageInv
<1>3. u \in Tunn /\ SameHandshakes(t, u)
  BY <1>2, SetCurrentIs
<1> HIDE DEF u
<1>4. v \in Tunn /\ SameHandshakes(u, v)
  BY <1>3, TickIs, TimerNames
<1> HIDE DEF v
<1>5. SameHandshakes(v, w)
  <2>1. SameHandshakes(v, timer_tick(v, "LastDataPacketReceived"))
    BY <1>4, TickIs, TimerNames
  <2>2. SameHandshakes(v, v)
    BY DEF SameHandshakes
  <2> QED  BY <2>1, <2>2 DEF validate_decapsulated_packet
<1> HIDE DEF w
<1>6. x = [t |-> w, q |-> Swept(waiting[e]), out |-> {}]
  BY DEF Part
<1>7. Part(e).t = t /\ Part(e).q = Swept(waiting[e])
  BY WaitFacts
<1> HIDE DEF x, t
<1>8. x.t = w /\ x.q = Part(e).q /\ x.out = {}
  BY <1>6, <1>7
<1>9. Quiet(Part(e), x)
  BY <1>3, <1>4, <1>5, <1>7, <1>8 DEF Quiet, SameHandshakes
<1>10. /\ \A n \in net' : n \in net \/ n \in x.out
       /\ \A n \in net : n \in net' \/ n.kind = "data"
  BY <1>1
<1>11. x.t.state.tag = "sent" /\ e \in ticked' => clock < x.t.state.at + REKEY_TIMEOUT
  <2>1. x.t.state = t.state
    BY <1>7, <1>9 DEF Quiet, SameHandshakes
  <2> QED  BY <1>1, <2>1 DEF WaitInv, t
<1>12. data' \in Nat /\ data <= data'
  BY <1>1, <1>2
<1> QED  BY <1>1, <1>9, <1>10, <1>11, <1>12, QuietStep

(* The queue holds at most the packets handed over and one keepalive. *)
LEMMA QueueIs ==
  ASSUME TunnelInv, WaitInv, NEW e \in End
  PROVE  Swept(waiting[e]) \in Seq(Packet) /\ Len(Swept(waiting[e])) <= MaxData + 1
<1> DEFINE t == tunn[e]
           q == waiting[e]
           last == tunn[Other(e)].last_timestamp
<1>1. WaitEnd(e, t, q, last, net, data)
  BY WaitEnds
<1>2. data \in Nat /\ data <= MaxData
  BY WaitFacts
<1> HIDE DEF t, q, last
<1>3. \A now, at, owed : \A p \in Aged(now, at, owed) : p \in Packet
  BY DEF Aged
<1>4. q \in Seq(Packet)
  <2>1. CASE t.state.tag # "sent"
    BY <1>1, <2>1, EmptyIs DEF WaitEnd
  <2>2. CASE t.state.tag = "sent"
    <3>1. Excused(e, t, q, last, net)
      BY <1>1, <2>2 DEF WaitEnd
    <3> QED  BY <1>3, <3>1, SeqSubset DEF Excused
  <2> QED  BY <2>1, <2>2
<1>5. Swept(q) \in Seq(Packet) /\ Len(Swept(q)) <= Len(q) /\ Len(q) <= data + 1
  BY <1>1, <1>4, SweptIs DEF WaitEnd
<1>6. Len(Swept(q)) \in Nat /\ Len(q) \in Nat
  BY <1>4, <1>5
<1>7. Len(Swept(q)) <= MaxData + 1
  BY <1>2, <1>5, <1>6, Constants
<1> QED  BY <1>5, <1>7 DEF q

LEMMA RestKeeps ==
  ASSUME NEW m, NEW r \in Rest(m)
  PROVE  \A n \in net : n # m => n \in r
  BY DEF Rest

LEMMA HandshakeInitWait ==
  ASSUME REJECT_AFTER_MESSAGES > MaxData + 1,
         TunnelInv, TunnelInv', WaitInv, NEW e \in End, NEW m \in net, HandleHandshakeInit(e, m)
  PROVE  WaitInv'
<1> DEFINE f == Other(e)
           t == tunn[e]
           y == Respond(e, m)
           x == flush_queued_packets(e, y)
           a == [kind |-> "resp", to |-> f, sender |-> NextIndex(t),
                 receiver |-> m.sender, init |-> m.init, eph |-> Fresh(t)]
<1>1. PICK r \in Rest(m) : Commit(e, x, r)
  BY DEF HandleHandshakeInit
<1>2. /\ x.t.allocated <= MaxIndex /\ tunn' = [tunn EXCEPT ![e] = x.t]
      /\ waiting' = [waiting EXCEPT ![e] = x.q] /\ net' = r \cup x.out
  BY <1>1 DEF Commit
<1>3. /\ m.kind = "init" /\ m.to = e /\ IsNewInit(e, m)
      /\ data' = data /\ clock' = clock /\ ticked' = ticked /\ lost' = lost
  BY DEF HandleHandshakeInit
<1>4. clock \in Nat /\ t \in Tunn /\ t.allocated \in Nat /\ MessageInv(m)
  BY WaitFacts
<1>5. PICK b \in BOOLEAN : TunnInv(e, t, b)
  BY EndIs
<1>6. /\ Good(e, y, b) /\ SameDevice(t, y.t) /\ y.t.allocated = t.allocated + 1
      /\ y.t.last_timestamp = m.init.stamp /\ y.t.state = NoHandshake /\ HasSent(y.t, 0)
      /\ y.q = Swept(waiting[e]) /\ y.out = {a}
  BY <1>2, <1>3, <1>4, <1>5, RespondKeeps DEF SameDevice
<1>7. a.kind = "resp" /\ a.to = f /\ a.receiver = m.sender /\ a.init = m.init
  OBVIOUS
<1> HIDE DEF y, a
<1>8. SameHandshakes(y.t, x.t) /\ x.q = <<>> /\ y.out \subseteq x.out
      /\ \A n \in x.out : n \in y.out \/ n.kind = "data"
  <2>1. y.q \in Seq(Packet) /\ Len(y.q) <= MaxData + 1
    BY <1>6, QueueIs
  <2>2. Len(y.q) + 0 <= REJECT_AFTER_MESSAGES /\ 0 < REJECT_AFTER_MESSAGES
    <3>1. Len(y.q) \in Nat
      BY <2>1
    <3> QED  BY <2>1, <3>1, Constants
  <2>3. IsPart(y) /\ y.t \in Tunn
    BY <1>6 DEF Good, TunnInv, CoreInv
  <2>4. 0 \in Nat
    OBVIOUS
  <2> QED  BY <1>6, <2>1, <2>2, <2>3, <2>4, FlushEmpties
<1> HIDE DEF x
<1> DEFINE u == x.t
<1>9. u.state = NoHandshake /\ u.last_timestamp = m.init.stamp /\ SameDevice(t, u)
      /\ u.allocated = t.allocated + 1
  BY <1>6, <1>8 DEF SameHandshakes, SameDevice
<1>10. Onward(t, u) /\ Anchored(u)
  <2>1. tunn'[e] = u
    BY <1>2 DEF TunnelInv
  <2>2. u \in Tunn /\ t.allocated <= u.allocated
    BY <1>4, <1>9, <2>1, NextTunn
  <2>3. Anchored(t)
    BY DEF WaitInv, WaitEnd
  <2> QED  BY <1>4, <1>9, <2>2, <2>3, OnwardIs
<1>11. m.init \in Initiation /\ m.sender = IndexOf(m.init.eph)
  BY <1>3, <1>4 DEF MessageInv
<1>12. f \in End /\ Other(f) = e /\ WaitEnd(f, tunn[f], waiting[f], t.last_timestamp, net, data)
  BY OtherIs DEF WaitInv
<1>13. /\ Known(tunn[f], m.init.stamp)
       /\ Firm(tunn[f]) => \/ m.init = tunn[f].state.init
                           \/ after(tunn[f].state.init.stamp, m.init.stamp)
  BY <1>3, <1>12 DEF WaitEnd
<1>14. \A n \in net : n # m => n \in net'
  BY <1>1, <1>2, RestKeeps
<1>15. \A n \in net' : n \in net \/ n.kind # "init"
  BY <1>1, <1>2, <1>6, <1>7, <1>8, RestIs
<1> HIDE DEF f, t, u
<1>16. ASSUME Firm(tunn[f]), Answerable(f, tunn[f].state, t.last_timestamp, net)
       PROVE  Answerable(f, tunn[f].state, m.init.stamp, net')
  <2> DEFINE h == tunn[f].state
  <2>1. /\ h.index = IndexOf(h.init.eph)
        /\ m.init = h.init \/ after(h.init.stamp, m.init.stamp)
    BY <1>12, <1>13, <1>16, WaitFacts DEF Firm
  <2> HIDE DEF h
  <2>2. CASE m.init = h.init
    <3>1. a \in net'
      BY <1>2, <1>6, <1>8
    <3>2. a.kind = "resp" /\ a.to = f /\ a.init = h.init /\ a.receiver = h.index
      BY <1>7, <1>11, <2>1, <2>2
    <3> QED  BY <3>1, <3>2 DEF Answerable, h
  <2>3. CASE m.init # h.init
    <3>1. \A n \in net : n.init = h.init => n \in net'
      BY <1>14, <2>3
    <3> QED  BY <1>16, <2>1, <2>3, <3>1 DEF Answerable, h
  <2> QED  BY <2>2, <2>3
<1>17. u.state.tag # "sent"
  BY <1>9, NoHandshakeIs
<1>18. tunn' = [tunn EXCEPT ![e] = u] /\ waiting' = [waiting EXCEPT ![e] = <<>>]
  BY <1>2, <1>8 DEF u
<1>19. Onward(tunn[e], u) /\ Anchored(u) /\ Known(tunn[Other(e)], u.last_timestamp)
  BY <1>9, <1>10, <1>13 DEF f, t
<1>20. Firm(tunn[Other(e)])
         /\ Answerable(Other(e), tunn[Other(e)].state, tunn[e].last_timestamp, net)
         => Answerable(Other(e), tunn[Other(e)].state, u.last_timestamp, net')
  BY <1>9, <1>16 DEF f, t
<1> QED  BY <1>3, <1>15, <1>17, <1>18, <1>19, <1>20, EmptyStep

LEMMA HandshakeResponseWait ==
  ASSUME REJECT_AFTER_MESSAGES > MaxData + 1,
         TunnelInv, TunnelInv', WaitInv, NEW e \in End, NEW m \in net, HandleHandshakeResponse(e, m)
  PROVE  WaitInv'
<1> DEFINE t == tunn[e]
           y == Complete(e, m)
           x == flush_queued_packets(e, y)
<1>1. PICK r \in Rest(m) : Commit(e, x, r)
  BY DEF HandleHandshakeResponse
<1>2. /\ tunn' = [tunn EXCEPT ![e] = x.t] /\ waiting' = [waiting EXCEPT ![e] = x.q]
      /\ net' = r \cup x.out
  BY <1>1 DEF Commit
<1>3. /\ m.kind = "resp" /\ m.to = e /\ IsAnswer(e, m)
      /\ data' = data /\ clock' = clock /\ ticked' = ticked /\ lost' = lost
  BY DEF HandleHandshakeResponse
<1>4. clock \in Nat /\ t \in Tunn /\ t.allocated \in Nat /\ MessageInv(m)
  BY WaitFacts
<1>5. PICK b \in BOOLEAN : TunnInv(e, t, b)
  BY EndIs
<1>6. /\ Good(e, y, b) /\ SameDevice(t, y.t) /\ y.t.allocated = t.allocated
      /\ y.t.last_timestamp = t.last_timestamp /\ y.t.state \in {t.state, NoHandshake}
      /\ y.t.state.tag = "sent" => y.t.state.init # m.init
      /\ HasSent(y.t, 1) /\ y.q = Swept(waiting[e]) /\ \A n \in y.out : n.kind = "data"
  BY <1>3, <1>4, <1>5, CompleteKeeps DEF SameDevice
<1> HIDE DEF y
<1>7. SameHandshakes(y.t, x.t) /\ x.q = <<>> /\ \A n \in x.out : n \in y.out \/ n.kind = "data"
  <2>1. y.q \in Seq(Packet) /\ Len(y.q) <= MaxData + 1
    BY <1>6, QueueIs
  <2>2. Len(y.q) + 1 <= REJECT_AFTER_MESSAGES /\ 1 < REJECT_AFTER_MESSAGES
    <3>1. Len(y.q) \in Nat
      BY <2>1
    <3> QED  BY <2>1, <3>1, Constants
  <2>3. IsPart(y) /\ y.t \in Tunn
    BY <1>6 DEF Good, TunnInv, CoreInv
  <2>4. 1 \in Nat
    OBVIOUS
  <2> QED  BY <1>6, <2>1, <2>2, <2>3, <2>4, FlushEmpties
<1> HIDE DEF x
<1> DEFINE u == x.t
<1>8. /\ u.state \in {t.state, NoHandshake} /\ u.last_timestamp = t.last_timestamp
      /\ SameDevice(t, u) /\ u.allocated = t.allocated
      /\ u.state.tag = "sent" => u.state.init # m.init
  BY <1>6, <1>7 DEF SameHandshakes, SameDevice
<1>9. Onward(t, u) /\ Anchored(u)
  <2>1. tunn'[e] = u
    BY <1>2 DEF TunnelInv
  <2>2. u \in Tunn /\ t.allocated <= u.allocated
    BY <1>4, <1>8, <2>1, NextTunn
  <2>3. Anchored(t)
    BY DEF WaitInv, WaitEnd
  <2> QED  BY <1>4, <1>8, <2>2, <2>3, OnwardIs
<1>10. \A n \in net : n # m => n \in net'
  BY <1>1, <1>2, RestKeeps
<1>11. \A n \in net' : n \in net \/ n.kind # "init"
  BY <1>1, <1>2, <1>6, <1>7, RestIs
<1>12. Other(e) \in End /\ Other(e) # e
  BY OtherIs
<1> HIDE DEF t, u
<1>13. ASSUME NEW f \in End, NEW h, NEW last, Answerable(f, h, last, net),
              f # e \/ h.init # m.init
       PROVE  Answerable(f, h, last, net')
  <2>1. \A n \in net : n \in net' \/ (n.kind = "resp" /\ n.to = e /\ n.init = m.init)
    BY <1>3, <1>10
  <2>2. f = e => h.init # m.init
    BY <1>13
  <2> QED  BY <1>13, <2>1, <2>2 DEF Answerable
<1>14. tunn' = [tunn EXCEPT ![e] = u] /\ waiting' = [waiting EXCEPT ![e] = <<>>]
  BY <1>2, <1>7 DEF u
<1>15. CASE u.state.tag # "sent"
  <2>1. Onward(tunn[e], u) /\ Anchored(u) /\ Known(tunn[Other(e)], u.last_timestamp)
    <3>1. Known(tunn[Other(e)], tunn[e].last_timestamp)
      BY WaitEnds
    <3> QED  BY <1>4, <1>8, <1>9, <3>1 DEF t
  <2>2. Firm(tunn[Other(e)])
          /\ Answerable(Other(e), tunn[Other(e)].state, tunn[e].last_timestamp, net)
          => Answerable(Other(e), tunn[Other(e)].state, u.last_timestamp, net')
    BY <1>8, <1>12, <1>13 DEF t
  <2> QED  BY <1>3, <1>11, <1>14, <1>15, <2>1, <2>2, EmptyStep
<1>16. CASE u.state.tag = "sent"
  <2>1. u.state = tunn[e].state /\ SameDevice(tunn[e], u) /\ u.allocated = tunn[e].allocated
        /\ u.last_timestamp = tunn[e].last_timestamp /\ tunn[e].state.init # m.init
    BY <1>8, <1>9, <1>16, NoHandshakeIs DEF t
  <2>2. ASSUME NEW f \in End, Answerable(f, tunn[f].state, tunn[Other(f)].last_timestamp, net)
        PROVE  Answerable(f, tunn[f].state, tunn[Other(f)].last_timestamp, net')
    BY <1>13, <2>1, <2>2
  <2>3. <<>> \in {waiting[e], Swept(waiting[e]), <<>>}
    OBVIOUS
  <2> QED  BY <1>3, <1>11, <1>14, <2>1, <2>2, <2>3, KeptStep
<1> QED  BY <1>15, <1>16

(* A message that is refused answers no handshake. *)
LEMMA RefuseWait ==
  ASSUME TunnelInv, TunnelInv', WaitInv, NEW e \in End, NEW m \in net, Refuse(e, m)
  PROVE  WaitInv'
<1>1. /\ m.to = e /\ net' = net \ {m} /\ tunn' = tunn
      /\ data' = data /\ clock' = clock /\ ticked' = ticked /\ lost' = lost
      /\ \/ m.kind = "init" /\ ~IsNewInit(e, m)
         \/ m.kind = "resp" /\ ~IsAnswer(e, m)
         \/ m.kind = "data"
  BY DEF Refuse
<1>2. PICK p \in {waiting[e], Swept(waiting[e])} : waiting' = [waiting EXCEPT ![e] = p]
  BY DEF Refuse
<1>3. ASSUME NEW f \in End, Firm(tunn[f]),
             Answerable(f, tunn[f].state, tunn[Other(f)].last_timestamp, net)
      PROVE  Answerable(f, tunn[f].state, tunn[Other(f)].last_timestamp, net')
  <2> DEFINE h == tunn[f].state
             last == tunn[Other(f)].last_timestamp
  <2>1. h.tag = "sent"
    BY <1>3 DEF Firm
  <2>2. ~(m.kind = "init" /\ m.to = Other(f) /\ m.init = h.init /\ after(h.init.stamp, last))
    BY <1>1 DEF IsNewInit
  <2>3. ~(m.kind = "resp" /\ m.to = f /\ m.init = h.init /\ m.receiver = h.index)
    <3>1. SUFFICES ASSUME m.kind = "resp" /\ m.to = f /\ m.init = h.init /\ m.receiver = h.index
                   PROVE  FALSE
      OBVIOUS
    <3>2. f = e
      BY <1>1, <3>1
    <3>3. Expected(tunn[e], m) = tunn[e].state
      BY <2>1, <3>1, <3>2 DEF Expected
    <3> QED  BY <1>1, <2>1, <3>1, <3>2, <3>3 DEF IsAnswer
  <2>4. \A n \in net : n # m => n \in net'
    BY <1>1
  <2> QED  BY <1>3, <2>2, <2>3, <2>4 DEF Answerable
<1>4. tunn' = [tunn EXCEPT ![e] = tunn[e]]
  <2>1. tunn = [f \in End |-> tunn[f]]
    BY DEF WaitInv
  <2> QED  BY <1>1, <2>1
<1>5. p \in {waiting[e], Swept(waiting[e]), <<>>}
  BY <1>2
<1>6. \A n \in net' : n \in net \/ n.kind # "init"
  BY <1>1
<1>7. SameDevice(tunn[e], tunn[e])
  BY DEF SameDevice
<1> QED  BY <1>1, <1>2, <1>3, <1>4, <1>5, <1>6, <1>7, KeptStep

(* A lost message excuses the handshakes in flight until their retry. *)
LEMMA LoseWait ==
  ASSUME TunnelInv, WaitInv, NEW m \in net, Lose(m)
  PROVE  WaitInv'
<1>1. /\ lost' = lost + 1 /\ \A n \in net' : n \in net
      /\ clock' = clock /\ ticked' = ticked /\ tunn' = tunn /\ waiting' = waiting /\ data' = data
  BY DEF Lose
<1>2. ASSUME NEW e \in End
      PROVE  /\ WaitEnd(e, tunn[e], waiting[e], tunn[Other(e)].last_timestamp, net, data)'
             /\ (tunn[e].state.tag = "sent" /\ e \in ticked
                   => clock < tunn[e].state.at + REKEY_TIMEOUT)'
  <2> DEFINE t == tunn[e]
             h == t.state
             q == waiting[e]
             last == tunn[Other(e)].last_timestamp
             n == Credit(t)
  <2>1. clock \in Nat /\ lost \in Nat /\ (h.tag = "sent" => h.at \in Nat)
    BY WaitFacts
  <2>2. WaitEnd(e, t, q, last, net, data)
    BY WaitEnds
  <2>3. /\ n \in Nat /\ (n >= 1 => n - 1 \in Nat)
        /\ (Credit(t))' >= 1 /\ (Credit(t))' - 1 = n
    <3>1. n \in Nat /\ (n >= 1 => n - 1 \in Nat)
      BY <2>1, CreditIs
    <3>2. lost + 1 >= 1 /\ (lost + 1) - 1 = lost /\ (lost + 1) + 1 >= 1
          /\ ((lost + 1) + 1) - 1 = lost + 1
      BY <2>1
    <3>3. (Credit(t))' = IF t.boot > 0 THEN (lost + 1) + 1 ELSE lost + 1
      BY <1>1 DEF Credit
    <3>4. n = IF t.boot > 0 THEN lost + 1 ELSE lost
      BY DEF Credit
    <3> QED  BY <3>1, <3>2, <3>3, <3>4
  <2>4. ASSUME h.tag = "sent" PROVE q \in Seq(Aged(clock, h.at, Owed(n)))
    <3>1. Excused(e, t, q, last, net)
      BY <2>2, <2>4 DEF WaitEnd
    <3>2. CASE n >= 1 /\ q \in Seq(Aged(clock, h.at, Owed(n - 1)))
      <4> DEFINE S == Aged(clock, h.at, Owed(n - 1))
                 T == Aged(clock, h.at, Owed(n))
      <4>1. q \in Seq(S)
        BY <3>2
      <4>2. h.at \in Nat
        BY <2>1, <2>4
      <4>3. n \in Nat /\ n - 1 \in Nat
        BY <2>3, <3>2
      <4> HIDE DEF n, h, q
      <4>4. Owed(n - 1) \in Nat /\ Owed(n) = Owed(n - 1) + REKEY_TIMEOUT
        <5>1. (n - 1) + 1 = n
          BY <4>3
        <5> QED  BY <4>3, <5>1, OwedIs
      <4>5. ASSUME NEW p \in S PROVE p \in T
        <5>1. p \in Packet /\ p.at \in Nat /\ p.at <= clock /\ h.at <= p.at + Owed(n - 1)
          BY <4>5 DEF Aged, Packet
        <5>2. h.at <= p.at + Owed(n)
          BY <4>2, <4>4, <5>1, Constants
        <5> QED  BY <5>1, <5>2 DEF Aged
      <4> HIDE DEF S, T
      <4>6. q \in Seq(T)
        BY <4>1, <4>5, SeqSubset
      <4> QED  BY <4>6 DEF T
    <3> QED  BY <3>1, <3>2 DEF Excused
  <2>5. ASSUME h.tag = "sent" PROVE Excused(e, t, q, last, net)'
    <3>1. q \in Seq(Aged(clock, h.at, Owed(n)))
      BY <2>4, <2>5
    <3> HIDE DEF n
    <3>2. (q \in Seq(Aged(clock, h.at, Owed(Credit(t) - 1))))'
      BY <1>1, <2>3, <3>1
    <3> QED  BY <1>1, <2>3, <3>2 DEF Excused
  <2>6. /\ (Anchored(t))' /\ (Known(t, last))' /\ (Firm(t))' <=> Firm(t)
        /\ \A s : Known(t, s) => (Known(t, s))'
    BY <1>1, <2>2 DEF WaitEnd, Anchored, Known, Old, Firm, Young
  <2>7. ASSUME NEW k \in net', k.kind = "init", k.to = Other(e)
        PROVE  /\ (Known(t, k.init.stamp))'
               /\ Firm(t) => k.init = h.init \/ after(h.init.stamp, k.init.stamp)
    BY <1>1, <2>2, <2>6, <2>7 DEF WaitEnd
  <2>8. WaitEnd(e, t, q, last, net, data)'
    BY <1>1, <2>2, <2>5, <2>6, <2>7 DEF WaitEnd
  <2>9. (tunn[e].state.tag = "sent" /\ e \in ticked => clock < tunn[e].state.at + REKEY_TIMEOUT)'
    BY <1>1 DEF WaitInv
  <2> QED  BY <2>8, <2>9
<1>3. tunn' = [e \in End |-> tunn'[e]] /\ DOMAIN waiting' = End
  BY <1>1 DEF WaitInv
<1> QED  BY <1>2, <1>3 DEF WaitInv

(* Before time moves on every message was delivered or lost, and every end  *)
(* has retried what was due.                                                *)
LEMMA AdvanceWait ==
  ASSUME Prompt, TunnelInv, WaitInv, Advance
  PROVE  WaitInv'
<1>1. /\ ticked = End /\ net = {} /\ clock' = clock + 1 /\ ticked' = {}
      /\ tunn' = tunn /\ waiting' = waiting /\ net' = net /\ data' = data /\ lost' = lost
  BY DEF Advance
<1>2. ASSUME NEW e \in End
      PROVE  WaitEnd(e, tunn[e], waiting[e], tunn[Other(e)].last_timestamp, net, data)'
  <2> DEFINE t == tunn[e]
             h == t.state
             q == waiting[e]
             last == tunn[Other(e)].last_timestamp
             n == Credit(t)
  <2>1. clock \in Nat /\ lost \in Nat /\ (h.tag = "sent" => h.at \in Nat)
        /\ t.started \in Nat /\ t.unix \in Nat
    BY WaitFacts
  <2>2. WaitEnd(e, t, q, last, net, data)
    BY WaitEnds
  <2>3. ASSUME h.tag = "sent" PROVE clock' <= h.at + REKEY_TIMEOUT
    <3>1. clock < h.at + REKEY_TIMEOUT
      BY <1>1, <2>3 DEF WaitInv
    <3> QED  BY <1>1, <2>1, <2>3, <3>1, Constants
  <2>4. (Credit(t))' = n
    BY <1>1 DEF Credit
  <2>5. ASSUME h.tag = "sent" PROVE Excused(e, t, q, last, net)'
    <3>1. Excused(e, t, q, last, net)
      BY <2>2, <2>5 DEF WaitEnd
    <3>2. n >= 1 /\ q \in Seq(Aged(clock, h.at, Owed(n - 1)))
      BY <1>1, <3>1 DEF Excused, Answerable
    <3> DEFINE now == clock + 1
               S == Aged(clock, h.at, Owed(n - 1))
               T == Aged(now, h.at, Owed(n - 1))
    <3>3. ASSUME NEW p \in S PROVE p \in T
      <4>1. p \in Packet /\ p.at \in Nat /\ p.at <= clock /\ h.at <= p.at + Owed(n - 1)
        BY <3>3 DEF Aged, Packet
      <4>2. p.at <= now
        BY <2>1, <4>1
      <4> HIDE DEF now, h, n
      <4> QED  BY <4>1, <4>2 DEF Aged
    <3>4. q \in Seq(S)
      BY <3>2
    <3> HIDE DEF S, T, q
    <3>5. q \in Seq(T)
      BY <3>3, <3>4, SeqSubset
    <3> HIDE DEF n
    <3>6. (q \in Seq(Aged(clock, h.at, Owed(Credit(t) - 1))))' /\ (Credit(t))' >= 1
      BY <1>1, <2>4, <3>2, <3>5 DEF T, q
    <3> QED  BY <1>1, <3>6 DEF Excused, q
  <2>6. (Anchored(t))' /\ (Known(t, last))'
    <3>1. Anchored(t) /\ Known(t, last)
      BY <2>2 DEF WaitEnd
    <3>2. last.secs \in Nat
      BY <3>1 DEF Known, Tai64N
    <3>3. t' = t /\ last' = last
      BY <1>1
    <3>4. Old(t, last) => (Old(t, last))'
      BY <3>3 DEF Old
    <3>5. last.secs <= t.unix + (clock - t.started) => last.secs <= t.unix + (clock' - t.started)
      BY <1>1, <2>1, <3>2
    <3> QED  BY <3>1, <3>3, <3>4, <3>5 DEF Anchored, Known
  <2>7. WaitEnd(e, t, q, last, net, data)'
    BY <1>1, <2>2, <2>3, <2>5, <2>6 DEF WaitEnd
  <2> QED  BY <2>7
<1>3. tunn' = [e \in End |-> tunn'[e]] /\ DOMAIN waiting' = End
  BY <1>1 DEF WaitInv
<1> QED  BY <1>1, <1>2, <1>3 DEF WaitInv

(* A restarted end has forgotten the stamps it accepted, so it answers what *)
(* it would have answered before.                                           *)
LEMMA RestartWait ==
  ASSUME TunnelInv, TunnelInv', WaitInv, NEW e \in End, Restart(e)
  PROVE  WaitInv'
<1> DEFINE t == tunn[e]
           f == Other(e)
<1>1. PICK unix \in WallClock : tunn' = [tunn EXCEPT ![e] = NewTunn(@.boot + 1, unix)]
  BY DEF Restart
<1> DEFINE u == NewTunn(t.boot + 1, unix)
<1>2. /\ tunn' = [tunn EXCEPT ![e] = u] /\ waiting' = [waiting EXCEPT ![e] = <<>>]
      /\ clock' = clock /\ ticked' = ticked /\ net' = net /\ data' = data /\ lost' = lost
  BY <1>1 DEF Restart
<1>3. /\ u.boot = t.boot + 1 /\ u.started = clock /\ u.unix = unix /\ u.allocated = 0
      /\ u.last_timestamp = zero /\ u.state = NoHandshake
  BY DEF NewTunn
<1> HIDE DEF u
<1>4. /\ clock \in Nat /\ t.boot \in Nat /\ t.started \in Nat /\ t.unix \in Nat
      /\ t.started <= clock
  BY WaitFacts
<1>5. unix \in Nat /\ unix >= clock /\ unix <= clock + STAMP_LAG
  BY <1>1, <1>4, Constants DEF WallClock
<1>6. Anchored(u)
  BY <1>3, <1>5 DEF Anchored
<1>7. Onward(t, u)
  <2>1. SUFFICES ASSUME NEW s, Known(t, s) PROVE Known(u, s)
    BY DEF Onward
  <2>2. s \in Tai64N /\ s.secs \in Nat
    BY <2>1 DEF Known, Tai64N
  <2>3. Anchored(t)
    BY DEF WaitInv, WaitEnd
  <2>4. s.secs <= clock + STAMP_LAG
    <3>1. CASE Old(t, s)
      BY <1>4, <2>2, <3>1, Constants DEF Old
    <3>2. CASE s.secs <= t.unix + (clock - t.started)
      BY <1>4, <2>2, <2>3, <3>2, Constants DEF Anchored
    <3> QED  BY <2>1, <3>1, <3>2 DEF Known
  <2>5. u.boot > 0
    BY <1>3, <1>4
  <2> QED  BY <1>3, <2>2, <2>4, <2>5 DEF Known, Old
<1>8. f \in End /\ Other(f) = e
  BY OtherIs
<1>9. zero \in Tai64N /\ zero.secs = 0 /\ zero.nano = 0
  BY DEF zero, Tai64N
<1>10. Known(tunn[f], u.last_timestamp)
  <2>1. /\ tunn[f].unix \in Nat /\ tunn[f].started \in Nat /\ tunn[f].started <= clock
        /\ tunn[f].allocated \in Nat
    BY <1>8, WaitFacts
  <2>2. 0 <= tunn[f].unix + (clock - tunn[f].started) /\ 0 <= tunn[f].allocated
    BY <1>4, <2>1
  <2> QED  BY <1>3, <1>9, <2>2 DEF Known
<1>11. ASSUME Firm(tunn[f]), Answerable(f, tunn[f].state, t.last_timestamp, net)
       PROVE  Answerable(f, tunn[f].state, u.last_timestamp, net')
  <2>1. tunn[f].state.init.stamp \in Tai64N /\ tunn[f].state.init.stamp.nano > 0
    BY <1>8, <1>11, WaitFacts DEF WaitInv, WaitEnd, Firm
  <2>2. after(tunn[f].state.init.stamp, u.last_timestamp)
    BY <1>3, <1>9, <2>1 DEF after, Tai64N
  <2> QED  BY <1>2, <1>11, <2>2 DEF Answerable
<1>12. u.state.tag # "sent"
  BY <1>3, NoHandshakeIs
<1>13. \A m \in net' : m \in net \/ m.kind # "init"
  BY <1>2
<1> QED  BY <1>2, <1>6, <1>7, <1>10, <1>11, <1>12, <1>13, EmptyStep

LEMMA InitWait == Init => WaitInv
<1> SUFFICES ASSUME Init PROVE WaitInv
  OBVIOUS
<1>1. /\ clock = 0 /\ ticked = {} /\ net = {} /\ data = 0 /\ waiting = [e \in End |-> <<>>]
  BY DEF Init
<1>2. PICK unix \in [End -> WallClock] : tunn = [e \in End |-> NewTunn(0, unix[e])]
  BY DEF Init
<1>3. tunn = [e \in End |-> tunn[e]] /\ DOMAIN waiting = End
  BY <1>1, <1>2
<1>4. zero \in Tai64N /\ zero.secs = 0 /\ zero.nano = 0
  BY DEF zero, Tai64N
<1>5. ASSUME NEW e \in End
      PROVE  /\ WaitEnd(e, tunn[e], waiting[e], tunn[Other(e)].last_timestamp, net, data)
             /\ tunn[e].state.tag # "sent"
  <2> DEFINE t == tunn[e]
  <2>1. /\ t.state = NoHandshake /\ t.started = 0 /\ t.unix = unix[e] /\ t.allocated = 0
    BY <1>1, <1>2 DEF NewTunn
  <2>2. Other(e) \in End
    BY OtherIs
  <2>3. tunn[Other(e)].last_timestamp = zero
    BY <1>2, <2>2 DEF NewTunn
  <2>4. t.unix \in Nat /\ t.unix >= 0 /\ t.unix <= 0 + STAMP_LAG
    BY <1>1, <1>2, <2>1, Constants DEF WallClock
  <2>5. Anchored(t) /\ Known(t, zero)
    <3>1. 0 <= t.unix + (0 - 0)
      BY <2>4
    <3> HIDE DEF t
    <3> QED  BY <1>1, <1>4, <2>1, <2>4, <3>1 DEF Anchored, Known
  <2>6. t.state.tag # "sent"
    BY <2>1, NoHandshakeIs
  <2>7. Len(<<>>) <= data + 1 /\ waiting[e] = <<>>
    BY <1>1, EmptyIs
  <2> HIDE DEF t
  <2>8. WaitEnd(e, t, waiting[e], tunn[Other(e)].last_timestamp, net, data)
    BY <1>1, <2>3, <2>5, <2>6, <2>7 DEF WaitEnd
  <2> QED  BY <2>6, <2>8 DEF t
<1> QED  BY <1>3, <1>5 DEF WaitInv

LEMMA NextWait ==
  ASSUME Prompt, REJECT_AFTER_MESSAGES > MaxData + 1, TunnelInv, TunnelInv', WaitInv, [Next]_vars
  PROVE  WaitInv'
<1>1. CASE UNCHANGED vars
  <2>1. ASSUME NEW e \in End
        PROVE  WaitEnd(e, tunn[e], waiting[e], tunn[Other(e)].last_timestamp, net, data)'
    BY <1>1 DEF vars, WaitInv, WaitEnd, Excused, Answerable, Aged, Anchored, Known, Old,
                Firm, Young, Credit
  <2> QED  BY <1>1, <2>1 DEF vars, WaitInv
<1>2. ASSUME NEW e \in End, NEW what \in Content, Encapsulate(e, what) PROVE WaitInv'
  BY <1>2, EncapsulateWait
<1>3. ASSUME NEW e \in End, HandleTimerTick(e) PROVE WaitInv'
  BY <1>3, TickWait
<1>4. ASSUME NEW e \in End, Restart(e) PROVE WaitInv'
  BY <1>4, RestartWait
<1>5. ASSUME NEW e \in End, NEW m \in net, HandleHandshakeInit(e, m) PROVE WaitInv'
  BY <1>5, HandshakeInitWait
<1>6. ASSUME NEW e \in End, NEW m \in net, HandleHandshakeResponse(e, m) PROVE WaitInv'
  BY <1>6, HandshakeResponseWait
<1>7. ASSUME NEW e \in End, NEW m \in net, HandleData(e, m) PROVE WaitInv'
  BY <1>7, DataWait
<1>8. ASSUME NEW e \in End, NEW m \in net, Refuse(e, m) PROVE WaitInv'
  BY <1>8, RefuseWait
<1>9. ASSUME NEW m \in net, Lose(m) PROVE WaitInv'
  BY <1>9, LoseWait
<1>10. CASE Advance
  BY <1>10, AdvanceWait
<1> QED  BY <1>1, <1>2, <1>3, <1>4, <1>5, <1>6, <1>7, <1>8, <1>9, <1>10 DEF Next

(* What the invariant says of a packet that waits. *)
LEMMA WaitBound ==
  ASSUME TunnelInv, WaitInv
  PROVE  WaitIsBounded
<1> SUFFICES ASSUME NEW e \in End, NEW p \in Range(waiting[e])
             PROVE  clock - p.at <= (lost + (IF tunn[e].boot = 0 THEN 0 ELSE 1)) * REKEY_TIMEOUT
  BY DEF WaitIsBounded
<1> DEFINE t == tunn[e]
           h == t.state
           q == waiting[e]
           last == tunn[Other(e)].last_timestamp
           n == Credit(t)
<1>1. clock \in Nat /\ lost \in Nat /\ (h.tag = "sent" => h.at \in Nat) /\ t.boot \in Nat
  BY WaitFacts
<1>2. WaitEnd(e, t, q, last, net, data)
  BY WaitEnds
<1>3. q # <<>> /\ \A S : q \in Seq(S) => p \in S
  BY DEF Range
<1>4. n \in Nat /\ (n >= 1 => n - 1 \in Nat)
      /\ n = lost + (IF tunn[e].boot = 0 THEN 0 ELSE 1)
  <2>1. n \in Nat /\ (n >= 1 => n - 1 \in Nat)
    BY <1>1, CreditIs
  <2>2. n = lost + (IF tunn[e].boot = 0 THEN 0 ELSE 1)
    BY <1>1 DEF Credit
  <2> QED  BY <2>1, <2>2
<1> HIDE DEF q, last
<1>5. h.tag = "sent" /\ clock <= h.at + REKEY_TIMEOUT /\ Excused(e, t, q, last, net)
  BY <1>2, <1>3 DEF WaitEnd
<1>6. \/ h.at = clock /\ q \in Seq(Aged(clock, h.at, Owed(n)))
      \/ n >= 1 /\ q \in Seq(Aged(clock, h.at, Owed(n - 1)))
  BY <1>5 DEF Excused
<1> HIDE DEF h, n
<1>7. Owed(n) \in Nat /\ REKEY_TIMEOUT \in Nat
  BY <1>4, OwedIs, Constants
<1>8. CASE h.at = clock /\ q \in Seq(Aged(clock, h.at, Owed(n)))
  <2>1. p.at \in Nat /\ clock <= p.at + Owed(n)
    BY <1>3, <1>8 DEF Aged, Packet
  <2>2. clock - p.at <= Owed(n)
    BY <1>1, <1>7, <2>1
  <2> QED  BY <1>4, <2>2 DEF Owed
<1>9. CASE n >= 1 /\ q \in Seq(Aged(clock, h.at, Owed(n - 1)))
  <2>1. n - 1 \in Nat /\ (n - 1) + 1 = n
    BY <1>4, <1>9
  <2>2. Owed(n - 1) \in Nat /\ Owed(n) = Owed(n - 1) + REKEY_TIMEOUT
    BY <2>1, OwedIs
  <2>3. p.at \in Nat /\ h.at <= p.at + Owed(n - 1)
    BY <1>3, <1>9 DEF Aged, Packet
  <2>4. clock - p.at <= Owed(n)
    BY <1>1, <1>5, <1>7, <2>2, <2>3
  <2> QED  BY <1>4, <2>4 DEF Owed
<1> QED  BY <1>6, <1>8, <1>9

(* On a network that delivers or loses every message before time moves on,  *)
(* and with nonces for every packet that can wait, a packet waits for a     *)
(* session at most one REKEY_TIMEOUT for each message lost, and one more at *)
(* an end that has restarted: stamps may go back then, so that the peer     *)
(* refuses an initiation that nobody lost (encapsulate, update_timers,      *)
(* flush_queued_packets, TimeStamper::stamp, Tai64N::after).                *)
THEOREM WaitAlwaysBounded ==
  ASSUME Prompt, REJECT_AFTER_MESSAGES > MaxData + 1
  PROVE  Spec => []WaitIsBounded
<1>1. TunnelInv /\ TunnelInv' /\ WaitInv /\ [Next]_vars => WaitInv'
  BY NextWait
<1>2. TunnelInv /\ WaitInv => WaitIsBounded
  BY WaitBound
<1> QED  BY <1>1, <1>2, InitWait, TunnelInvariant, PTL DEF Spec
=============================================================================
