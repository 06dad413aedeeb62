------------------------ MODULE HandshakeDoorProofs ------------------------
(***************************************************************************)
(* Three properties of HandshakeDoor for every value of its constants: a   *)
(* retry is newer than what was accepted, the limiter forgets its load in  *)
(* bounded time, and a cookie lets its peer in.                            *)
(***************************************************************************)
EXTENDS HandshakeDoor, TLAPS

Cookie == {NoCookie} \cup [boot : Nat, period : Int, addr : Address]

(* A stamp is what a stamper made by then gives at time t. *)
IsStampOf(s, t) == t \in Nat /\ \E start \in 0..t : s = stamp(start, t)

(* The reset that ends the current round of ticks is due. *)
ResetDue == ticker.due + (TICKS - 1 - ticker.count) * PERIOD

TypeInv ==
  /\ clock \in Nat
  /\ limiter \in [boot : Nat, start : Nat, count : Nat, last_reset : Nat]
  /\ ticker \in [due : Nat, count : 0..TICKS - 1]
  /\ accepted \in [stamp : [secs : Int, nano : Int], sent : Int]
  /\ initiator \in [start : Nat, addr : Address, waiting : BOOLEAN, sent_at : Int,
                    cookie : Cookie, cookie_at : Int]
  /\ \A m \in net : m.kind = "cookie" => m.cookie \in Cookie
  /\ \A m \in net : m.kind = "init" => m.addr \in Address

(* Stamps under way and accepted are those of the time they were sent. *)
StampsAreTimely ==
  /\ initiator.start <= clock
  /\ \A m \in net : m.kind = "init" => IsStampOf(m.stamp, m.at)
  /\ accepted.stamp = zero \/ IsStampOf(accepted.stamp, accepted.sent)

(* The ticker is not late, and a round ends in time for the last reset. *)
RoundsAreTimely ==
  /\ limiter.last_reset <= clock
  /\ clock <= ticker.due + DELAY
  /\ ResetDue <= limiter.last_reset + 2 * SECOND

DoorInv == TypeInv /\ StampsAreTimely /\ RoundsAreTimely
-----------------------------------------------------------------------------
(* Division with a remainder, as the provers need it spelled out. *)
LEMMA Division ==
  ASSUME NEW a \in Nat, NEW b \in Nat \ {0}
  PROVE  /\ a \div b \in Nat /\ a % b \in Nat /\ a % b < b
         /\ a = ((a \div b) * b) + (a % b)
  OBVIOUS

(* The truncated fraction of a second grows with at least a grain. *)
LEMMA GrainsGrow ==
  ASSUME NEW a \in Nat, NEW c \in Nat, a >= c + GRAIN
  PROVE  (a \div GRAIN) * GRAIN > (c \div GRAIN) * GRAIN
<1>1. GRAIN \in Nat \ {0}
  BY DoorAssumption
<1> DEFINE p == a \div GRAIN
           q == c \div GRAIN
<1>2. /\ p \in Nat /\ q \in Nat
      /\ a = p * GRAIN + (a % GRAIN) /\ a % GRAIN < GRAIN /\ a % GRAIN \in Nat
      /\ c = q * GRAIN + (c % GRAIN) /\ c % GRAIN \in Nat
  BY <1>1, Division
<1>3. p * GRAIN \in Nat /\ q * GRAIN \in Nat
  BY <1>1, <1>2
<1>4. p * GRAIN > q * GRAIN
  BY <1>1, <1>2, <1>3
<1> QED  BY <1>4

(* Stamps REKEY_TIMEOUT apart compare as their times do, whichever stampers *)
(* made them (TimeStamper::stamp, Tai64N::after).                           *)
LEMMA StampsGrow ==
  ASSUME NEW t \in Nat, NEW u \in Nat, NEW s \in 0..t, NEW r \in 0..u,
         t - u >= REKEY_TIMEOUT
  PROVE  after(stamp(s, t), stamp(r, u))
<1>1. SECOND \in Nat \ {0} /\ GRAIN \in Nat \ {0} /\ t - u >= SECOND + GRAIN
  BY DoorAssumption
<1> DEFINE A == s \div SECOND + (t - s) \div SECOND
           C == r \div SECOND + (u - r) \div SECOND
           a == s % SECOND
           b == (t - s) % SECOND
           c == r % SECOND
           d == (u - r) % SECOND
<1>2. s \in Nat /\ r \in Nat /\ t - s \in Nat /\ u - r \in Nat
  OBVIOUS
<1>3. /\ A \in Nat /\ a \in Nat /\ b \in Nat /\ a < SECOND /\ b < SECOND
      /\ t = A * SECOND + a + b
  <2>1. /\ s \div SECOND \in Nat /\ a \in Nat /\ a < SECOND /\ s = ((s \div SECOND) * SECOND) + a
    BY <1>1, <1>2, Division
  <2>2. /\ (t - s) \div SECOND \in Nat /\ b \in Nat /\ b < SECOND
        /\ t - s = (((t - s) \div SECOND) * SECOND) + b
    BY <1>1, <1>2, Division
  <2>3. A * SECOND = ((s \div SECOND) * SECOND) + (((t - s) \div SECOND) * SECOND)
    BY <1>1, <2>1, <2>2
  <2> QED  BY <1>1, <1>2, <2>1, <2>2, <2>3
<1>4. /\ C \in Nat /\ c \in Nat /\ d \in Nat /\ c < SECOND /\ d < SECOND
      /\ u = C * SECOND + c + d
  <2>1. /\ r \div SECOND \in Nat /\ c \in Nat /\ c < SECOND /\ r = ((r \div SECOND) * SECOND) + c
    BY <1>1, <1>2, Division
  <2>2. /\ (u - r) \div SECOND \in Nat /\ d \in Nat /\ d < SECOND
        /\ u - r = (((u - r) \div SECOND) * SECOND) + d
    BY <1>1, <1>2, Division
  <2>3. C * SECOND = ((r \div SECOND) * SECOND) + (((u - r) \div SECOND) * SECOND)
    BY <1>1, <2>1, <2>2
  <2> QED  BY <1>1, <1>2, <2>1, <2>2, <2>3
<1> HIDE DEF A, C, a, b, c, d
<1>5. A >= C
  <2>1. ASSUME A + 1 <= C PROVE FALSE
    <3>1. (A + 1) * SECOND <= C * SECOND
      BY <1>1, <1>3, <1>4, <2>1
    <3>2. (A + 1) * SECOND = A * SECOND + SECOND
      BY <1>1, <1>3
    <3>3. A * SECOND \in Nat /\ C * SECOND \in Nat
      BY <1>1, <1>3, <1>4
    <3> QED  BY <1>1, <1>3, <1>4, <3>1, <3>2, <3>3
  <2> QED  BY <1>3, <1>4, <2>1
<1>6. CASE A = C
  <2>1. b >= d + GRAIN
    <3>1. A * SECOND \in Nat
      BY <1>1, <1>3
    <3> QED  BY <1>1, <1>3, <1>4, <1>6, <3>1
  <2>2. (b \div GRAIN) * GRAIN > (d \div GRAIN) * GRAIN
    BY <1>3, <1>4, <2>1, GrainsGrow
  <2> QED  BY <1>6, <2>2 DEF after, stamp, A, C, b, d
<1>7. CASE A > C
  BY <1>7 DEF after, stamp, A, C
<1> QED  BY <1>3, <1>4, <1>5, <1>6, <1>7

(* `as_secs` of a time is at least one from a second on. *)
LEMMA WholeSecond ==
  ASSUME NEW a \in Nat
  PROVE  a \div SECOND >= 1 <=> a >= SECOND
<1>1. SECOND \in Nat \ {0}
  BY DoorAssumption
<1> QED  BY <1>1

(* A round of ticks takes a second. *)
LEMMA RoundLength ==
  /\ (TICKS - 1) * PERIOD = SECOND - PERIOD
  /\ \A n \in Int : (n - 1) * PERIOD = n * PERIOD - PERIOD
  /\ \A n \in Nat : n * PERIOD \in Nat
  /\ PERIOD <= SECOND
<1>1. PERIOD \in Nat /\ TICKS \in Nat \ {0} /\ SECOND \in Nat /\ TICKS * PERIOD = SECOND
  BY DoorAssumption
<1>2. \A n \in Int : (n - 1) * PERIOD = n * PERIOD - PERIOD
  BY <1>1
<1>3. \A n \in Nat : n * PERIOD \in Nat
  BY <1>1
<1>4. (TICKS - 1) * PERIOD = SECOND - PERIOD
  BY <1>1, <1>2
<1>5. (TICKS - 1) * PERIOD \in Nat
  BY <1>1, <1>3
<1> QED  BY <1>1, <1>2, <1>3, <1>4, <1>5
-----------------------------------------------------------------------------
(* What the operators of HandshakeDoor give. *)

LEMMA CookiesAreCookies ==
  ASSUME TypeInv, NEW a \in Address
  PROVE  current_cookie(a) \in Cookie
<1>1. COOKIE_REFRESH \in Nat \ {0}
  BY DoorAssumption
<1>2. CookiePeriod(clock) \in Int
  BY <1>1 DEF CookiePeriod, TypeInv
<1> QED  BY <1>2 DEF current_cookie, Cookie, TypeInv

LEMMA CountedKeepsReset ==
  ASSUME TypeInv
  PROVE  /\ Counted \in [boot : Nat, start : Nat, count : Nat, last_reset : Nat]
         /\ Counted.last_reset = limiter.last_reset
  BY DEF TypeInv, Counted

(* A peer's record keeps its type and its stamper when the cookie is cleared. *)
LEMMA ClearedKeepsStart ==
  ASSUME TypeInv
  PROVE  /\ ClearOldCookie(initiator) \in [start : Nat, addr : Address, waiting : BOOLEAN,
                                           sent_at : Int, cookie : Cookie, cookie_at : Int]
         /\ ClearOldCookie(initiator).start = initiator.start
  BY DEF TypeInv, ClearOldCookie, Cookie

(* Nothing DoorInv is about changes but what is under way, which only loses. *)
LEMMA FewerMessages ==
  ASSUME DoorInv, net' \subseteq net, UNCHANGED <<clock, limiter, ticker, accepted, initiator>>
  PROVE  DoorInv'
  BY DEF DoorInv, TypeInv, StampsAreTimely, RoundsAreTimely, ResetDue, IsStampOf, stamp
-----------------------------------------------------------------------------
(* DoorInv is inductive: one lemma per action that does more than that. *)

LEMMA InitiateKeepsInv ==
  ASSUME DoorInv, NEW p \in [start : Nat, addr : Address, waiting : BOOLEAN, sent_at : Int,
                             cookie : Cookie, cookie_at : Int],
         p.start = initiator.start, Initiate(p)
  PROVE  DoorInv'
<1> DEFINE m == [kind |-> "init", index |-> <<p.start, clock>>, addr |-> p.addr,
                 cookie |-> p.cookie, stamp |-> stamp(p.start, clock), at |-> clock]
<1>1. /\ initiator' = [p EXCEPT !.waiting = TRUE, !.sent_at = clock]
      /\ net' = net \cup {m} /\ UNCHANGED <<clock, limiter, ticker, accepted>>
  BY DEF Initiate
<1>2. IsStampOf(m.stamp, m.at) /\ m.addr \in Address /\ m.kind = "init"
  BY DEF IsStampOf, DoorInv, TypeInv, StampsAreTimely
<1> HIDE DEF m
<1>3. TypeInv'
  <2>1. initiator' \in [start : Nat, addr : Address, waiting : BOOLEAN, sent_at : Int,
                        cookie : Cookie, cookie_at : Int]
    <3>1. clock \in Int
      BY DEF DoorInv, TypeInv
    <3> QED  BY <1>1, <3>1
  <2>2. \A n \in net' : n \in net \/ (n.kind = "init" /\ n.addr \in Address)
    BY <1>1, <1>2
  <2> QED  BY <1>1, <2>1, <2>2 DEF DoorInv, TypeInv
<1>4. StampsAreTimely'
  <2>1. initiator'.start = initiator.start
    BY <1>1
  <2> QED  BY <1>1, <1>2, <2>1 DEF DoorInv, StampsAreTimely, IsStampOf, stamp, zero
<1>5. RoundsAreTimely'
  BY <1>1 DEF DoorInv, RoundsAreTimely, ResetDue
<1> QED  BY <1>3, <1>4, <1>5 DEF DoorInv

LEMMA TickKeepsInv ==
  ASSUME DoorInv, Tick
  PROVE  DoorInv'
<1> DEFINE last == ticker.count + 1 >= TICKS
<1>1. /\ clock >= ticker.due
      /\ ticker' = [due |-> ticker.due + PERIOD, count |-> IF last THEN 0 ELSE ticker.count + 1]
      /\ limiter' = IF last THEN reset_count(limiter) ELSE limiter
      /\ UNCHANGED <<clock, accepted, initiator, net>>
  BY DEF Tick
<1>2. /\ PERIOD \in Nat /\ DELAY \in Nat /\ DELAY < PERIOD /\ TICKS \in Nat \ {0} /\ SECOND \in Nat
  BY DoorAssumption
<1>3. /\ clock \in Nat /\ ticker.due \in Nat /\ ticker.count \in 0..TICKS - 1
      /\ limiter.last_reset \in Nat /\ limiter.last_reset <= clock /\ clock <= ticker.due + DELAY
      /\ ResetDue <= limiter.last_reset + 2 * SECOND
  BY DEF DoorInv, TypeInv, RoundsAreTimely
<1>4. /\ reset_count(limiter) \in [boot : Nat, start : Nat, count : Nat, last_reset : Nat]
      /\ \/ reset_count(limiter).last_reset = clock
         \/ /\ reset_count(limiter).last_reset = limiter.last_reset
            /\ clock - limiter.last_reset < SECOND
  <2>1. (clock - limiter.last_reset) \div SECOND >= 1 <=> clock - limiter.last_reset >= SECOND
    BY <1>3, WholeSecond
  <2>2. limiter \in [boot : Nat, start : Nat, count : Nat, last_reset : Nat]
    BY DEF DoorInv, TypeInv
  <2>3. CASE clock - limiter.last_reset >= SECOND
    <3>1. reset_count(limiter) = [limiter EXCEPT !.count = 0, !.last_reset = clock]
      BY <2>1, <2>3 DEF reset_count
    <3>2. reset_count(limiter) = [boot |-> limiter.boot, start |-> limiter.start,
                                  count |-> 0, last_reset |-> clock]
      BY <2>2, <3>1
    <3>3. /\ reset_count(limiter) \in [boot : Nat, start : Nat, count : Nat, last_reset : Nat]
          /\ reset_count(limiter).last_reset = clock
      BY <1>3, <2>2, <3>2
    <3> QED  BY <3>3
  <2>4. CASE ~(clock - limiter.last_reset >= SECOND)
    <3>1. reset_count(limiter) = limiter
      BY <2>1, <2>4 DEF reset_count
    <3>2. clock - limiter.last_reset < SECOND
      BY <1>2, <1>3, <2>4
    <3> QED  BY <2>2, <3>1, <3>2
  <2> QED  BY <2>3, <2>4
<1>5. TypeInv'
  BY <1>1, <1>2, <1>3, <1>4 DEF DoorInv, TypeInv
<1>6. StampsAreTimely'
  BY <1>1 DEF DoorInv, StampsAreTimely, IsStampOf, stamp, zero
<1>7. RoundsAreTimely'
  <2>1. CASE last
    <3>1. ResetDue' = ticker.due + PERIOD + (TICKS - 1) * PERIOD
      BY <1>1, <1>2, <2>1 DEF ResetDue
    <3>2. ResetDue' = ticker.due + SECOND
      BY <1>2, <1>3, <3>1, RoundLength
    <3> QED  BY <1>1, <1>2, <1>3, <1>4, <2>1, <3>2 DEF RoundsAreTimely
  <2>2. CASE ~last
    <3>1. ResetDue' = ticker.due + PERIOD + (TICKS - 1 - ticker.count - 1) * PERIOD
      BY <1>1, <1>2, <1>3, <2>2 DEF ResetDue
    <3>2. (TICKS - 1 - ticker.count - 1) * PERIOD = (TICKS - 1 - ticker.count) * PERIOD - PERIOD
      BY <1>2, <1>3, RoundLength
    <3>3. (TICKS - 1 - ticker.count) * PERIOD \in Int
      BY <1>2, <1>3
    <3>4. ResetDue' = ResetDue
      BY <1>2, <1>3, <3>1, <3>2, <3>3 DEF ResetDue
    <3> QED  BY <1>1, <1>2, <1>3, <2>2, <3>4 DEF RoundsAreTimely
  <2> QED  BY <2>1, <2>2
<1> QED  BY <1>5, <1>6, <1>7 DEF DoorInv

LEMMA RestartDeviceKeepsInv ==
  ASSUME DoorInv, RestartDevice
  PROVE  DoorInv'
<1>1. /\ limiter' = NewLimiter(limiter.boot + 1)
      /\ ticker' \in [due : {clock, clock + PERIOD}, count : {0}]
      /\ accepted' = [stamp |-> zero, sent |-> -REKEY_TIMEOUT]
      /\ UNCHANGED <<clock, initiator, net>>
  BY DEF RestartDevice
<1>2. /\ PERIOD \in Nat /\ DELAY \in Nat /\ TICKS \in Nat \ {0} /\ SECOND \in Nat
      /\ REKEY_TIMEOUT \in Nat
  BY DoorAssumption
<1>3. clock \in Nat
  BY DEF DoorInv, TypeInv
<1>4. TypeInv'
  BY <1>1, <1>2, <1>3 DEF DoorInv, TypeInv, NewLimiter, zero
<1>5. StampsAreTimely'
  BY <1>1 DEF DoorInv, StampsAreTimely, IsStampOf, stamp, zero
<1>6. RoundsAreTimely'
  <2>1. ResetDue' = ticker'.due + (TICKS - 1) * PERIOD
    BY <1>1, <1>2 DEF ResetDue
  <2>2. ticker'.due \in {clock, clock + PERIOD}
    BY <1>1
  <2>3. ResetDue' <= clock + SECOND
    BY <1>2, <1>3, <2>1, <2>2, RoundLength
  <2>4. limiter'.last_reset = clock /\ clock' = clock
    BY <1>1 DEF NewLimiter
  <2>5. clock <= ticker'.due + DELAY
    BY <1>2, <1>3, <2>2
  <2>6. ResetDue' \in Int
    BY <1>2, <1>3, <2>1, <2>2
  <2>7. ResetDue' <= clock + 2 * SECOND
    BY <1>2, <1>3, <2>3, <2>6
  <2> QED  BY <1>3, <2>4, <2>5, <2>7 DEF RoundsAreTimely
<1> QED  BY <1>4, <1>5, <1>6 DEF DoorInv

LEMMA HandleInitKeepsInv ==
  ASSUME DoorInv, NEW m \in net, SendCookie(m) \/ HandleHandshakeInit(m)
  PROVE  DoorInv'
<1>1. limiter' = Counted /\ UNCHANGED <<clock, ticker, initiator>> /\ m.kind = "init"
  BY DEF SendCookie, HandleHandshakeInit
<1>2. /\ Counted \in [boot : Nat, start : Nat, count : Nat, last_reset : Nat]
      /\ Counted.last_reset = limiter.last_reset
  BY CountedKeepsReset DEF DoorInv
<1>3. RoundsAreTimely'
  BY <1>1, <1>2 DEF DoorInv, RoundsAreTimely, ResetDue
<1>4. m.addr \in Address /\ IsStampOf(m.stamp, m.at)
  BY <1>1 DEF DoorInv, TypeInv, StampsAreTimely
<1>5. \A n \in net' : n \in net \/ (n.kind = "cookie" /\ n.cookie \in Cookie) \/ n.kind = "response"
  <2>1. current_cookie(m.addr) \in Cookie
    BY <1>4, CookiesAreCookies DEF DoorInv
  <2>2. CASE SendCookie(m)
    BY <2>1, <2>2 DEF SendCookie
  <2>3. CASE HandleHandshakeInit(m)
    BY <2>3 DEF HandleHandshakeInit
  <2> QED  BY <2>2, <2>3
<1>6. /\ accepted' \in [stamp : [secs : Int, nano : Int], sent : Int]
      /\ accepted'.stamp = zero \/ IsStampOf(accepted'.stamp, accepted'.sent)
  <2>1. CASE accepted' = accepted
    BY <2>1 DEF DoorInv, TypeInv, StampsAreTimely
  <2>2. CASE accepted' = [stamp |-> m.stamp, sent |-> m.at]
    <3>1. m.stamp \in [secs : Int, nano : Int] /\ m.at \in Int
      <4>1. SECOND \in Nat \ {0} /\ GRAIN \in Nat \ {0}
        BY DoorAssumption
      <4>2. PICK start \in 0..m.at : m.at \in Nat /\ m.stamp = stamp(start, m.at)
        BY <1>4 DEF IsStampOf
      <4> QED  BY <4>1, <4>2 DEF stamp
    <3> QED  BY <1>4, <2>2, <3>1
  <2> QED  BY <2>1, <2>2 DEF SendCookie, HandleHandshakeInit
<1>7. TypeInv'
  BY <1>1, <1>2, <1>5, <1>6 DEF DoorInv, TypeInv
<1>8. StampsAreTimely'
  BY <1>1, <1>5, <1>6 DEF DoorInv, StampsAreTimely, IsStampOf, stamp, zero
<1> QED  BY <1>3, <1>7, <1>8 DEF DoorInv

LEMMA AdvanceKeepsInv ==
  ASSUME DoorInv, Advance
  PROVE  DoorInv'
<1>1. /\ clock < ticker.due + DELAY /\ clock' = clock + 1
      /\ UNCHANGED <<limiter, ticker, accepted, initiator, net>>
  BY DEF Advance
<1>2. DELAY \in Nat
  BY DoorAssumption
<1>3. TypeInv'
  BY <1>1 DEF DoorInv, TypeInv
<1>4. StampsAreTimely'
  BY <1>1 DEF DoorInv, TypeInv, StampsAreTimely, IsStampOf, stamp, zero
<1>5. RoundsAreTimely'
  BY <1>1, <1>2 DEF DoorInv, TypeInv, RoundsAreTimely, ResetDue
<1> QED  BY <1>3, <1>4, <1>5 DEF DoorInv

(* The peer changes and keeps its stamper, or is made anew now. *)
LEMMA PeerChangesKeepInv ==
  ASSUME DoorInv, net' \subseteq net, UNCHANGED <<clock, limiter, ticker, accepted>>,
         initiator' \in [start : Nat, addr : Address, waiting : BOOLEAN, sent_at : Int,
                         cookie : Cookie, cookie_at : Int],
         initiator'.start \in {initiator.start, clock}
  PROVE  DoorInv'
<1>1. TypeInv'
  BY DEF DoorInv, TypeInv
<1>2. StampsAreTimely'
  BY DEF DoorInv, TypeInv, StampsAreTimely, IsStampOf, stamp, zero
<1>3. RoundsAreTimely'
  BY DEF DoorInv, RoundsAreTimely, ResetDue
<1> QED  BY <1>1, <1>2, <1>3 DEF DoorInv

LEMMA InitEstablishesInv == Init => DoorInv
<1> SUFFICES ASSUME Init PROVE DoorInv
  OBVIOUS
<1>1. /\ PERIOD \in Nat /\ DELAY \in Nat /\ TICKS \in Nat \ {0} /\ SECOND \in Nat
      /\ REKEY_TIMEOUT \in Nat
  BY DoorAssumption
<1>2. TypeInv
  BY <1>1 DEF Init, TypeInv, NewLimiter, NewInitiator, Cookie, zero
<1>3. StampsAreTimely
  BY DEF Init, StampsAreTimely, NewInitiator
<1>4. RoundsAreTimely
  <2>1. clock = 0 /\ limiter.last_reset = 0 /\ ticker.due \in {0, PERIOD} /\ ticker.count = 0
    BY DEF Init, NewLimiter
  <2>2. ResetDue <= SECOND
    BY <1>1, <2>1, RoundLength DEF ResetDue
  <2> QED  BY <1>1, <2>1, <2>2, <1>2 DEF RoundsAreTimely, TypeInv, ResetDue
<1> QED  BY <1>2, <1>3, <1>4 DEF DoorInv

LEMMA NextKeepsInv == DoorInv /\ [Next]_vars => DoorInv'
<1> SUFFICES ASSUME DoorInv, [Next]_vars PROVE DoorInv'
  OBVIOUS
<1> DEFINE Initiator == [start : Nat, addr : Address, waiting : BOOLEAN, sent_at : Int,
                         cookie : Cookie, cookie_at : Int]
<1>1. PERIOD \in Nat /\ REKEY_TIMEOUT \in Nat
  BY DoorAssumption
<1>2. clock \in Nat /\ initiator \in Initiator
  BY DEF DoorInv, TypeInv
<1>3. CASE UNCHANGED vars
  BY <1>3, FewerMessages DEF vars
<1>4. CASE Begin
  BY <1>2, <1>4, InitiateKeepsInv DEF Begin
<1>5. CASE InitiatorTick
  <2>1. /\ ClearOldCookie(initiator) \in Initiator
        /\ ClearOldCookie(initiator).start = initiator.start
    BY ClearedKeepsStart DEF DoorInv
  <2>2. CASE Initiate(ClearOldCookie(initiator))
    BY <2>1, <2>2, InitiateKeepsInv
  <2>3. CASE initiator' = ClearOldCookie(initiator) /\ UNCHANGED <<clock, limiter, ticker, accepted, net>>
    BY <2>1, <2>3, PeerChangesKeepInv
  <2> QED  BY <1>5, <2>2, <2>3 DEF InitiatorTick
<1>6. CASE Flood
  <2>1. limiter' = Counted /\ UNCHANGED <<clock, ticker, accepted, initiator, net>>
    BY <1>6 DEF Flood
  <2>2. /\ Counted \in [boot : Nat, start : Nat, count : Nat, last_reset : Nat]
        /\ Counted.last_reset = limiter.last_reset
    BY CountedKeepsReset DEF DoorInv
  <2>3. TypeInv'
    BY <2>1, <2>2 DEF DoorInv, TypeInv
  <2>4. StampsAreTimely'
    BY <2>1 DEF DoorInv, StampsAreTimely, IsStampOf, stamp, zero
  <2>5. RoundsAreTimely'
    BY <2>1, <2>2 DEF DoorInv, RoundsAreTimely, ResetDue
  <2> QED  BY <2>3, <2>4, <2>5 DEF DoorInv
<1>7. CASE Tick
  BY <1>7, TickKeepsInv
<1>8. ASSUME NEW m \in net, HandleCookieReply(m) PROVE DoorInv'
  <2>1. net' \subseteq net /\ UNCHANGED <<clock, limiter, ticker, accepted>> /\ m.kind = "cookie"
    BY <1>8 DEF HandleCookieReply
  <2>2. m.cookie \in Cookie
    BY <2>1 DEF DoorInv, TypeInv
  <2>3. ASSUME UNCHANGED initiator PROVE DoorInv'
    BY <2>1, <2>3, FewerMessages
  <2>4. ASSUME NEW lag \in {0, PERIOD},
               initiator' = [initiator EXCEPT !.cookie = m.cookie, !.cookie_at = clock - lag]
        PROVE  DoorInv'
    <3>1. clock - lag \in Int
      BY <1>1, <1>2
    <3>2. initiator' = [start |-> initiator.start, addr |-> initiator.addr,
                        waiting |-> initiator.waiting, sent_at |-> initiator.sent_at,
                        cookie |-> m.cookie, cookie_at |-> clock - lag]
      BY <1>2, <2>4
    <3>3. initiator' \in Initiator /\ initiator'.start = initiator.start
      BY <1>2, <2>2, <3>1, <3>2
    <3> QED  BY <2>1, <3>3, PeerChangesKeepInv
  <2>5. \/ UNCHANGED initiator
        \/ \E lag \in {0, PERIOD} :
             initiator' = [initiator EXCEPT !.cookie = m.cookie, !.cookie_at = clock - lag]
    BY <1>8 DEF HandleCookieReply
  <2> QED  BY <2>3, <2>4, <2>5
<1>9. ASSUME NEW m \in net, HandleHandshakeResponse(m) PROVE DoorInv'
  <2>1. /\ net' \subseteq net /\ UNCHANGED <<clock, limiter, ticker, accepted>>
        /\ initiator' = [initiator EXCEPT !.waiting = @ /\ m.index # IndexOf(initiator)]
    BY <1>9 DEF HandleHandshakeResponse
  <2>2. (initiator.waiting /\ m.index # IndexOf(initiator)) \in BOOLEAN
    OBVIOUS
  <2>3. initiator' \in Initiator /\ initiator'.start = initiator.start
    BY <1>2, <2>1, <2>2
  <2> QED  BY <2>1, <2>3, PeerChangesKeepInv
<1>10. ASSUME NEW m \in net, SendCookie(m) \/ HandleHandshakeInit(m) PROVE DoorInv'
  BY <1>10, HandleInitKeepsInv
<1>11. ASSUME NEW m \in net, Lose(m) PROVE DoorInv'
  BY <1>11, FewerMessages DEF Lose
<1>12. CASE Move
  <2>1. PICK a \in Address : initiator' = [initiator EXCEPT !.addr = a]
    BY <1>12 DEF Move
  <2>2. initiator' \in Initiator /\ initiator'.start = initiator.start
    BY <1>2, <2>1
  <2> QED  BY <1>12, <2>2, PeerChangesKeepInv DEF Move
<1>13. CASE RestartInitiator
  <2>1. initiator' = NewInitiator(initiator.addr)
    BY <1>13 DEF RestartInitiator
  <2>2. initiator' \in Initiator /\ initiator'.start = clock
    BY <1>1, <1>2, <2>1 DEF NewInitiator, Cookie
  <2> QED  BY <1>13, <2>2, PeerChangesKeepInv DEF RestartInitiator
<1>14. CASE RestartDevice
  BY <1>14, RestartDeviceKeepsInv
<1>15. CASE Advance
  BY <1>15, AdvanceKeepsInv
<1> QED  BY <1>3, <1>4, <1>5, <1>6, <1>7, <1>8, <1>9, <1>10, <1>11, <1>12, <1>13, <1>14, <1>15 DEF Next

(* DoorInv holds throughout. *)
LEMMA DoorInvariant == Spec => []DoorInv
  BY InitEstablishesInv, NextKeepsInv, PTL DEF Spec
-----------------------------------------------------------------------------
LEMMA StampsOrdered == DoorInv => RetryIsAccepted
<1> SUFFICES ASSUME DoorInv, NEW m \in net, m.kind = "init", m.at - accepted.sent >= REKEY_TIMEOUT
             PROVE  after(m.stamp, accepted.stamp)
  BY DEF RetryIsAccepted
<1>1. PICK s \in 0..m.at : m.at \in Nat /\ m.stamp = stamp(s, m.at)
  BY DEF DoorInv, StampsAreTimely, IsStampOf
<1>2. CASE accepted.stamp = zero
  <2>1. SECOND \in Nat \ {0}
    BY DoorAssumption
  <2>2. s \div SECOND \in Nat /\ (m.at - s) \div SECOND \in Nat
    BY <1>1, <2>1
  <2> QED  BY <1>1, <1>2, <2>2 DEF after, stamp, zero
<1>3. CASE IsStampOf(accepted.stamp, accepted.sent)
  <2>1. PICK r \in 0..accepted.sent :
          accepted.sent \in Nat /\ accepted.stamp = stamp(r, accepted.sent)
    BY <1>3 DEF IsStampOf
  <2> QED  BY <1>1, <2>1, StampsGrow
<1> QED  BY <1>2, <1>3 DEF DoorInv, StampsAreTimely

(* An initiation sent REKEY_TIMEOUT after the last accepted one is newer to *)
(* the device, whatever the second, the whitener's grain and the restarts   *)
(* of either side (TimeStamper::stamp, Tai64N::after).                      *)
THEOREM RetriesAccepted == Spec => []RetryIsAccepted
  BY StampsOrdered, DoorInvariant, PTL

(* The limiter forgets its load within two seconds and the loop's delay,    *)
(* for any ticker whose rounds make a second (reset_count, Device::run).    *)
THEOREM LoadForgotten == Spec => []LoadIsForgotten
<1>1. DoorInv => LoadIsForgotten
  <2> SUFFICES ASSUME DoorInv PROVE clock - limiter.last_reset <= 2 * SECOND + DELAY
    BY DEF LoadIsForgotten
  <2>1. /\ PERIOD \in Nat /\ DELAY \in Nat /\ TICKS \in Nat \ {0} /\ SECOND \in Nat
    BY DoorAssumption
  <2>2. /\ clock \in Nat /\ ticker.due \in Nat /\ limiter.last_reset \in Nat
        /\ TICKS - 1 - ticker.count \in Nat
    BY <2>1 DEF DoorInv, TypeInv
  <2>3. ticker.due <= ResetDue /\ ResetDue \in Nat
    <3>1. (TICKS - 1 - ticker.count) * PERIOD \in Nat
      BY <2>2, RoundLength
    <3> QED  BY <2>2, <3>1 DEF ResetDue
  <2> QED  BY <2>1, <2>2, <2>3 DEF DoorInv, RoundsAreTimely
<1> QED  BY <1>1, DoorInvariant, PTL
-----------------------------------------------------------------------------
(* A peer behind a loaded limiter.  What is under way is known by the       *)
(* initiation it belongs to, at most one message for each.                  *)
MessagesInv ==
  /\ tries \in Nat /\ turns \in Nat
  /\ -REKEY_TIMEOUT <= initiator.sent_at /\ initiator.sent_at <= clock /\ accepted.sent <= clock
  /\ \A m \in net :
       /\ m.kind \in {"init", "cookie", "response"}
       /\ m.at \in Nat /\ m.at <= clock /\ clock <= m.at + FLIGHT
       /\ m.index \in Nat \X Nat /\ m.index[1] <= m.index[2] /\ m.at <= m.index[2] + FLIGHT
       /\ m.kind = "init" => m.index[2] = m.at
       /\ m.index[1] <= initiator.start
       /\ m.index[1] = initiator.start => m.index[2] <= initiator.sent_at
  /\ \A m, n \in net : m.index = n.index => m = n

Mine(m) == m.index = IndexOf(initiator)

(* The device has seen nothing sent after the peer's last initiation; a     *)
(* peer that has just restarted has not sent one yet.                       *)
Settled ==
  /\ accepted.sent <= initiator.sent_at
  /\ \A m \in net : m.kind = "init" => m.at <= initiator.sent_at

SettledInv == Settled \/ (initiator.sent_at < initiator.start /\ tries = 0 /\ turns >= 1)

(* The peer's last initiation m is under way and newer than all others. *)
Pending(m) ==
  /\ m \in net /\ m.kind = "init" /\ Mine(m)
  /\ initiator.sent_at - accepted.sent >= REKEY_TIMEOUT
  /\ \A n \in net : n.kind = "init" /\ n # m => initiator.sent_at - n.at >= REKEY_TIMEOUT

(* current_cookie, with what it depends on spelled out. *)
CookieAt(l, now, addr) ==
  [boot |-> l.boot, period |-> (now - l.start) \div COOKIE_REFRESH, addr |-> addr]
RightCookie(addr) == CookieAt(limiter, clock, addr)

(* Its answer will be a cookie for the next try, or an acceptance. *)
Asking == \E m \in net : Pending(m) /\ (m.addr = initiator.addr \/ m.cookie = RightCookie(m.addr))

(* The cookie is under way or here. *)
Told == \E m \in net : m.kind = "cookie" /\ Mine(m) /\ m.cookie = RightCookie(initiator.addr)
Knowing == initiator.cookie = RightCookie(initiator.addr) /\ \A m \in net : ~Mine(m)

(* The initiation under way carries the right cookie. *)
Showing ==
  \E m \in net : /\ Pending(m) /\ m.addr = initiator.addr
                 /\ m.cookie = RightCookie(m.addr) /\ initiator.cookie = m.cookie

TriesInv ==
  /\ tries <= 2 + turns
  /\ tries = 1 + turns => Asking \/ Told \/ Knowing
  /\ tries = 2 + turns => Showing

CookieInv == MessagesInv /\ SettledInv /\ TriesInv
-----------------------------------------------------------------------------
LEMMA CurrentIsRight == \A a : current_cookie(a) = RightCookie(a)
  BY DEF current_cookie, RightCookie, CookieAt, CookiePeriod

(* The limiter's secret is the one in use before the step. *)
SameCookies == \A a : CookieAt(limiter', clock', a) = CookieAt(limiter, clock, a)

LEMMA CookiesStay ==
  ASSUME limiter'.boot = limiter.boot, limiter'.start = limiter.start, clock' = clock
  PROVE  SameCookies
  BY DEF SameCookies, CookieAt

LEMMA CountedKeepsSecret ==
  ASSUME TypeInv
  PROVE  Counted.boot = limiter.boot /\ Counted.start = limiter.start
  BY DEF TypeInv, Counted

SamePeer ==
  /\ initiator'.start = initiator.start /\ initiator'.sent_at = initiator.sent_at

LEMMA DoorTypes ==
  ASSUME DoorInv
  PROVE  /\ clock \in Nat /\ accepted.sent \in Int
         /\ initiator.start \in Nat /\ initiator.sent_at \in Int /\ initiator.start <= clock
         /\ REKEY_TIMEOUT \in Nat \ {0} /\ FLIGHT \in Nat
  BY DoorAssumption DEF DoorInv, TypeInv, StampsAreTimely

LEMMA FewerKeepMessages ==
  ASSUME DoorInv, MessagesInv, SamePeer, clock' = clock, net' \subseteq net,
         tries' \in Nat, turns' \in Nat, accepted'.sent <= clock
  PROVE  MessagesInv'
  BY DEF MessagesInv, SamePeer

(* An initiation gives way to its answer. *)
LEMMA AnswerKeepsMessages ==
  ASSUME DoorInv, MessagesInv, SamePeer, clock' = clock, NEW m \in net, m.kind = "init",
         NEW k, k.kind \in {"cookie", "response"}, k.index = m.index, k.at = clock,
         net' = (net \ {m}) \cup {k}, tries' \in Nat, turns' \in Nat, accepted'.sent <= clock
  PROVE  MessagesInv'
<1>1. clock \in Nat /\ FLIGHT \in Nat
  BY DoorTypes
<1>2. /\ m.index \in Nat \X Nat /\ m.index[1] <= m.index[2] /\ m.index[2] = m.at
      /\ m.index[1] <= initiator.start /\ clock <= m.at + FLIGHT
      /\ m.index[1] = initiator.start => m.index[2] <= initiator.sent_at
  BY DEF MessagesInv
<1>3. \A n \in net' : n = k \/ (n \in net /\ n.index # m.index)
  BY DEF MessagesInv
<1>4. \A n, o \in net' : n.index = o.index => n = o
  BY <1>3 DEF MessagesInv
<1>5. ASSUME NEW n \in net'
      PROVE  /\ n.kind \in {"init", "cookie", "response"}
             /\ n.at \in Nat /\ n.at <= clock /\ clock <= n.at + FLIGHT
             /\ n.index \in Nat \X Nat /\ n.index[1] <= n.index[2] /\ n.at <= n.index[2] + FLIGHT
             /\ n.kind = "init" => n.index[2] = n.at
             /\ n.index[1] <= initiator.start
             /\ n.index[1] = initiator.start => n.index[2] <= initiator.sent_at
  <2>1. CASE n = k
    BY <1>1, <1>2, <2>1
  <2>2. CASE n \in net
    BY <2>2 DEF MessagesInv
  <2> QED  BY <1>3, <2>1, <2>2
<1> QED  BY <1>4, <1>5 DEF MessagesInv, SamePeer

LEMMA SettledStays ==
  ASSUME DoorInv, MessagesInv, SettledInv, SamePeer, tries' = tries, turns' \in {turns, turns + 1},
         \A n \in net' : n.kind = "init" => n \in net,
         \/ accepted'.sent \in {accepted.sent, -REKEY_TIMEOUT}
         \/ \E n \in net : n.kind = "init" /\ accepted'.sent = n.at
  PROVE  SettledInv'
<1>1. turns \in Nat /\ -REKEY_TIMEOUT <= initiator.sent_at
  BY DEF MessagesInv
<1>2. CASE Settled
  BY <1>1, <1>2 DEF Settled, SettledInv, SamePeer
<1>3. CASE initiator.sent_at < initiator.start /\ tries = 0 /\ turns >= 1
  BY <1>1, <1>3 DEF SettledInv, SamePeer
<1> QED  BY <1>2, <1>3 DEF SettledInv

(* A step that leaves the peer's try alone. *)
LEMMA QuietTries ==
  ASSUME DoorInv, MessagesInv, TriesInv, SamePeer, SameCookies,
         initiator'.addr = initiator.addr, initiator'.cookie = initiator.cookie,
         tries' = tries, turns' = turns,
         \/ accepted'.sent = accepted.sent
         \/ \E n \in net : n.kind = "init" /\ ~Mine(n) /\ accepted'.sent = n.at,
         \A m \in net : Mine(m) /\ m.kind # "response" => m \in net',
         \A m \in net' : m \in net \/ (~Mine(m) /\ m.kind # "init")
  PROVE  TriesInv'
<1>1. \A a : RightCookie(a)' = RightCookie(a)
  BY DEF SameCookies, RightCookie
<1>2. IndexOf(initiator)' = IndexOf(initiator)
  BY DEF SamePeer, IndexOf
<1>3. ASSUME NEW m \in net, Pending(m) PROVE m \in net' /\ Pending(m)'
  <2>1. m \in net'
    BY <1>3 DEF Pending
  <2>2. initiator.sent_at - accepted'.sent >= REKEY_TIMEOUT
    BY <1>3 DEF Pending
  <2> QED  BY <1>2, <1>3, <2>1, <2>2 DEF Pending, Mine, SamePeer
<1>4. Asking => Asking'
  BY <1>1, <1>3 DEF Asking, RightCookie, SameCookies
<1>5. Told => Told'
  BY <1>2 DEF Told, Mine, RightCookie, SameCookies
<1>6. Knowing => Knowing'
  BY <1>2 DEF Knowing, Mine, RightCookie, SameCookies
<1>7. Showing => Showing'
  BY <1>3 DEF Showing, RightCookie, SameCookies
<1> QED  BY <1>4, <1>5, <1>6, <1>7 DEF TriesInv

(* What costs a try leaves the peer with a message or the cookie. *)
LEMMA TurnTries ==
  ASSUME MessagesInv, TriesInv, tries' = tries, turns' = turns + 1,
         Showing => Asking' \/ Told' \/ Knowing'
  PROVE  TriesInv'
<1>1. tries \in Nat /\ turns \in Nat
  BY DEF MessagesInv
<1>2. tries <= 2 + turns /\ (tries = 2 + turns => Showing)
  BY DEF TriesInv
<1>3. tries' <= 2 + turns' /\ ~(tries' = 2 + turns')
  BY <1>1, <1>2
<1>4. tries' = 1 + turns' => Showing
  BY <1>1, <1>2
<1> QED  BY <1>3, <1>4 DEF TriesInv

LEMMA ShownAsks ==
  ASSUME DoorInv, MessagesInv, SamePeer, net' = net,
         accepted'.sent \in {accepted.sent, -REKEY_TIMEOUT},
         initiator'.addr = initiator.addr \/ SameCookies, Showing
  PROVE  Asking'
<1>1. PICK m \in net : /\ Pending(m) /\ m.addr = initiator.addr /\ m.cookie = RightCookie(m.addr)
  BY DEF Showing
<1>2. IndexOf(initiator)' = IndexOf(initiator)
  BY DEF SamePeer, IndexOf
<1>3. initiator.sent_at \in Nat /\ REKEY_TIMEOUT \in Nat
  <2>1. m.index \in Nat \X Nat /\ m.index = <<initiator.start, initiator.sent_at>>
    BY <1>1 DEF Pending, Mine, IndexOf, MessagesInv
  <2> QED  BY <2>1, DoorAssumption
<1>4. initiator.sent_at - accepted'.sent >= REKEY_TIMEOUT
  BY <1>1, <1>3 DEF Pending
<1>5. Pending(m)'
  BY <1>1, <1>2, <1>4 DEF Pending, Mine, SamePeer
<1>6. m.addr = initiator'.addr \/ m.cookie = RightCookie(m.addr)'
  BY <1>1 DEF SameCookies, RightCookie
<1> QED  BY <1>5, <1>6 DEF Asking
-----------------------------------------------------------------------------
(* CookieInv is inductive when an answer is back before the next try.       *)

LEMMA InitiateKeepsCookie ==
  ASSUME DoorInv, CookieInv, 2 * FLIGHT < REKEY_TIMEOUT,
         NEW p \in [start : Nat, addr : Address, waiting : BOOLEAN, sent_at : Int,
                    cookie : Cookie, cookie_at : Int],
         p.start = initiator.start, p.addr = initiator.addr, p.sent_at = initiator.sent_at,
         clock - initiator.sent_at >= REKEY_TIMEOUT, Initiate(p)
  PROVE  CookieInv'
<1>0. PICK k : k = [kind |-> "init", index |-> <<p.start, clock>>, addr |-> p.addr,
                    cookie |-> p.cookie, stamp |-> stamp(p.start, clock), at |-> clock]
  OBVIOUS
<1>1. /\ initiator' = [p EXCEPT !.waiting = TRUE, !.sent_at = clock]
      /\ net' = net \cup {k} /\ UNCHANGED <<clock, limiter, accepted>>
      /\ tries' = tries + 1 /\ turns' = IF p = initiator THEN turns ELSE turns + 1
  BY <1>0 DEF Initiate
<1>2. /\ k.kind = "init" /\ k.index = <<initiator.start, clock>> /\ k.addr = p.addr
      /\ k.cookie = p.cookie /\ k.at = clock
  BY <1>0
<1>3. /\ initiator'.start = initiator.start /\ initiator'.addr = initiator.addr
      /\ initiator'.sent_at = clock /\ initiator'.cookie = p.cookie
  BY ONLY <1>1, p.start = initiator.start, p.addr = initiator.addr,
          p \in [start : Nat, addr : Address, waiting : BOOLEAN, sent_at : Int,
                 cookie : Cookie, cookie_at : Int]
<1>4. /\ clock \in Nat /\ accepted.sent \in Int
      /\ initiator.start \in Nat /\ initiator.sent_at \in Int /\ initiator.start <= clock
      /\ REKEY_TIMEOUT \in Nat \ {0} /\ FLIGHT \in Nat
  BY DoorTypes
<1>5. tries \in Nat /\ turns \in Nat /\ accepted.sent <= clock
  BY DEF CookieInv, MessagesInv
<1>6. initiator.sent_at + REKEY_TIMEOUT <= clock /\ initiator.sent_at < clock
  BY ONLY <1>4, clock - initiator.sent_at >= REKEY_TIMEOUT
<1>7. \A m \in net :
        /\ m.kind \in {"init", "cookie", "response"}
        /\ m.at \in Nat /\ m.at <= clock /\ clock <= m.at + FLIGHT
        /\ m.index \in Nat \X Nat /\ m.index[1] <= m.index[2] /\ m.at <= m.index[2] + FLIGHT
        /\ m.kind = "init" => m.index[2] = m.at
        /\ m.index[1] <= initiator.start
        /\ m.index[1] = initiator.start => m.index[2] <= initiator.sent_at
  BY DEF CookieInv, MessagesInv
<1>8. \A m \in net : ~Mine(m)
  <2> SUFFICES ASSUME NEW m \in net, Mine(m) PROVE FALSE
    OBVIOUS
  <2>1. m.index[2] = initiator.sent_at
    BY DEF Mine, IndexOf
  <2> QED  BY ONLY <1>4, <1>6, <1>7, <2>1, m \in net, 2 * FLIGHT < REKEY_TIMEOUT
<1>9. \A m \in net : m.index # k.index
  BY ONLY <1>2, <1>4, <1>6, <1>7
<1>10. MessagesInv'
  <2>1. ASSUME NEW m \in net'
        PROVE  /\ m.kind \in {"init", "cookie", "response"}
               /\ m.at \in Nat /\ m.at <= clock /\ clock <= m.at + FLIGHT
               /\ m.index \in Nat \X Nat /\ m.index[1] <= m.index[2] /\ m.at <= m.index[2] + FLIGHT
               /\ m.kind = "init" => m.index[2] = m.at
               /\ m.index[1] <= initiator.start
               /\ m.index[1] = initiator.start => m.index[2] <= clock
    <3>1. CASE m = k
      <4>1. m.index = <<initiator.start, clock>> /\ m.at = clock /\ m.kind = "init"
        BY ONLY <1>2, <3>1
      <4>2. m.index \in Nat \X Nat /\ m.index[1] = initiator.start /\ m.index[2] = clock
        BY ONLY <1>4, <4>1
      <4> QED  BY ONLY <1>4, <4>1, <4>2
    <3>2. CASE m \in net
      BY ONLY <1>4, <1>6, <1>7, <3>2
    <3> QED  BY <1>1, <2>1, <3>1, <3>2
  <2>2. \A m, n \in net' : m.index = n.index => m = n
    <3>1. \A m, n \in net : m.index = n.index => m = n
      BY DEF CookieInv, MessagesInv
    <3> QED  BY ONLY <1>1, <1>9, <3>1
  <2>3. tries' \in Nat /\ turns' \in Nat
    BY ONLY <1>1, <1>5
  <2>4. -REKEY_TIMEOUT <= clock /\ clock <= clock
    BY ONLY <1>4
  <2> QED  BY ONLY <1>1, <1>3, <1>5, <2>1, <2>2, <2>3, <2>4 DEF MessagesInv
<1>11. SettledInv'
  <2>1. \A m \in net' : m.at <= clock
    BY ONLY <1>1, <1>2, <1>4, <1>7
  <2> QED  BY ONLY <1>1, <1>3, <1>5, <2>1 DEF SettledInv, Settled
<1>12. /\ tries <= 1 + turns /\ (tries = 1 + turns => Knowing)
  <2>1. ~Asking /\ ~Told /\ ~Showing
    BY <1>8 DEF Asking, Told, Showing, Pending
  <2>2. /\ tries <= 2 + turns /\ (tries = 1 + turns => Asking \/ Told \/ Knowing)
        /\ (tries = 2 + turns => Showing)
    BY DEF CookieInv, TriesInv
  <2> QED  BY ONLY <1>5, <2>1, <2>2
<1>13. /\ turns' \in {turns, turns + 1} /\ (turns' = turns => p = initiator)
  BY ONLY <1>1, <1>5
<1>14. ASSUME tries' >= 1 + turns' PROVE Pending(k)' /\ k \in net'
  <2>1. Settled
    BY ONLY <1>1, <1>5, <1>13, <1>14, CookieInv DEF CookieInv, SettledInv
  <2>2. clock - accepted.sent >= REKEY_TIMEOUT
    BY ONLY <1>4, <1>6, <2>1 DEF Settled
  <2>3. \A n \in net' : n.kind = "init" /\ n # k => clock - n.at >= REKEY_TIMEOUT
    BY ONLY <1>1, <1>4, <1>6, <1>7, <2>1 DEF Settled
  <2>4. k \in net'
    BY <1>1
  <2> QED  BY ONLY <1>1, <1>2, <1>3, <2>2, <2>3, <2>4 DEF Pending, Mine, IndexOf
<1>15. tries' <= 2 + turns'
  BY ONLY <1>1, <1>5, <1>12, <1>13
<1>16. ASSUME tries' = 1 + turns' PROVE Asking'
  <2>1. tries' >= 1 + turns'
    BY ONLY <1>1, <1>5, <1>13, <1>16
  <2>2. k.addr = initiator'.addr
    BY ONLY <1>2, <1>3, p.addr = initiator.addr
  <2> QED  BY <1>14, <2>1, <2>2 DEF Asking
<1>17. ASSUME tries' = 2 + turns' PROVE Showing'
  <2>1. tries' >= 1 + turns' /\ tries = 1 + turns /\ p = initiator
    BY ONLY <1>1, <1>5, <1>12, <1>13, <1>17
  <2>2. initiator.cookie = RightCookie(initiator.addr)
    BY <1>12, <2>1 DEF Knowing
  <2>3. \A a : RightCookie(a)' = RightCookie(a)
    BY <1>1 DEF RightCookie
  <2>4. k.addr = initiator'.addr /\ k.cookie = RightCookie(k.addr)' /\ initiator'.cookie = k.cookie
    BY ONLY <1>2, <1>3, <2>1, <2>2, <2>3
  <2> QED  BY <1>14, <2>1, <2>4 DEF Showing
<1> QED  BY <1>10, <1>11, <1>15, <1>16, <1>17 DEF CookieInv, TriesInv

LEMMA AdvanceKeepsCookie ==
  ASSUME DoorInv, CookieInv, Advance
  PROVE  CookieInv'
<1>1. /\ \A m \in net : clock < m.at + FLIGHT
      /\ clock' = clock + 1
      /\ turns' = IF CookiePeriod(clock + 1) # CookiePeriod(clock) THEN turns + 1 ELSE turns
      /\ UNCHANGED <<limiter, accepted, initiator, net, tries>>
  BY DEF Advance
<1>2. /\ clock \in Nat /\ accepted.sent \in Int /\ FLIGHT \in Nat
      /\ initiator.sent_at \in Int
  BY DoorTypes
<1>3. MessagesInv /\ SettledInv /\ TriesInv
  BY DEF CookieInv
<1>4. SamePeer /\ initiator'.addr = initiator.addr /\ initiator'.cookie = initiator.cookie
  BY <1>1 DEF SamePeer
<1>5. MessagesInv'
  <2>1. turns' \in Nat
    BY <1>1, <1>3 DEF MessagesInv
  <2>2. \A m \in net : m.at \in Nat /\ m.at <= clock + 1 /\ clock + 1 <= m.at + FLIGHT
    BY <1>1, <1>2, <1>3 DEF MessagesInv
  <2>3. initiator.sent_at <= clock + 1 /\ accepted.sent <= clock + 1
    BY <1>2, <1>3 DEF MessagesInv
  <2> QED  BY <1>1, <1>3, <2>1, <2>2, <2>3 DEF MessagesInv
<1>6. SettledInv'
  BY <1>1, <1>3, <1>4, SettledStays
<1>7. TriesInv'
  <2>1. CASE CookiePeriod(clock + 1) = CookiePeriod(clock)
    <3>1. SameCookies
      BY <1>1, <2>1 DEF SameCookies, CookieAt, CookiePeriod
    <3> QED  BY <1>1, <1>3, <1>4, <2>1, <3>1, QuietTries
  <2>2. CASE CookiePeriod(clock + 1) # CookiePeriod(clock)
    <3>1. Showing => Asking'
      BY <1>1, <1>3, <1>4, ShownAsks
    <3> QED  BY <1>1, <1>3, <2>2, <3>1, TurnTries
  <2> QED  BY <2>1, <2>2
<1> QED  BY <1>5, <1>6, <1>7 DEF CookieInv

(* The limiter's counter changes, and nothing of the peer's. *)
LEMMA CountingKeepsCookie ==
  ASSUME DoorInv, CookieInv, limiter'.boot = limiter.boot, limiter'.start = limiter.start,
         UNCHANGED <<clock, accepted, initiator, net, tries, turns>>
  PROVE  CookieInv'
<1>1. MessagesInv /\ SettledInv /\ TriesInv
  BY DEF CookieInv
<1>2. SamePeer /\ SameCookies
  BY CookiesStay DEF SamePeer
<1>3. MessagesInv'
  BY <1>1, <1>2, FewerKeepMessages DEF MessagesInv
<1>4. SettledInv'
  BY <1>1, <1>2, SettledStays
<1>5. TriesInv'
  BY <1>1, <1>2, QuietTries
<1> QED  BY <1>3, <1>4, <1>5 DEF CookieInv

LEMMA ReplyKeepsCookie ==
  ASSUME DoorInv, CookieInv, NEW m \in net, HandleCookieReply(m)
  PROVE  CookieInv'
<1>1. /\ m.kind = "cookie" /\ net' = net \ {m}
      /\ UNCHANGED <<clock, limiter, accepted, tries, turns>>
      /\ \/ /\ Mine(m)
            /\ \E lag \in {0, PERIOD} :
                 initiator' = [initiator EXCEPT !.cookie = m.cookie, !.cookie_at = clock - lag]
         \/ ~Mine(m) /\ UNCHANGED initiator
  BY DEF HandleCookieReply, Mine
<1>2. MessagesInv /\ SettledInv /\ TriesInv
  BY DEF CookieInv
<1>3. /\ initiator'.start = initiator.start /\ initiator'.sent_at = initiator.sent_at
      /\ initiator'.addr = initiator.addr /\ (Mine(m) => initiator'.cookie = m.cookie)
  <2>1. initiator \in [start : Nat, addr : Address, waiting : BOOLEAN, sent_at : Int,
                       cookie : Cookie, cookie_at : Int]
    BY DEF DoorInv, TypeInv
  <2> QED  BY ONLY <1>1, <2>1
<1>4. SamePeer /\ SameCookies
  BY <1>1, <1>3, CookiesStay DEF SamePeer
<1>5. MessagesInv'
  BY <1>1, <1>2, <1>4, FewerKeepMessages DEF MessagesInv
<1>6. SettledInv'
  BY <1>1, <1>2, <1>4, SettledStays
<1>7. TriesInv'
  <2>1. CASE ~Mine(m)
    <3>1. initiator'.cookie = initiator.cookie
      BY <1>1, <2>1
    <3> QED  BY <1>1, <1>2, <1>3, <1>4, <2>1, <3>1, QuietTries
  <2>2. CASE Mine(m)
    <3>1. \A n \in net : Mine(n) => n = m
      BY <1>2, <2>2 DEF MessagesInv, Mine
    <3>2. ~Asking /\ ~Showing /\ ~Knowing
      BY <1>1, <2>2, <3>1 DEF Asking, Showing, Knowing, Pending
    <3>3. ASSUME Told PROVE Knowing'
      <4>1. m.cookie = RightCookie(initiator.addr)
        BY <3>1, <3>3 DEF Told
      <4>2. \A n \in net' : ~Mine(n)'
        BY <1>1, <1>3, <3>1 DEF Mine, IndexOf
      <4>3. RightCookie(initiator.addr)' = RightCookie(initiator.addr)
        BY <1>1, <1>3 DEF RightCookie
      <4> QED  BY <1>3, <2>2, <4>1, <4>2, <4>3 DEF Knowing
    <3> QED  BY <1>1, <1>2, <3>2, <3>3 DEF TriesInv
  <2> QED  BY <2>1, <2>2
<1> QED  BY <1>5, <1>6, <1>7 DEF CookieInv

LEMMA ResponseKeepsCookie ==
  ASSUME DoorInv, CookieInv, NEW m \in net, HandleHandshakeResponse(m)
  PROVE  CookieInv'
<1>1. /\ m.kind = "response" /\ net' = net \ {m}
      /\ initiator' = [initiator EXCEPT !.waiting = @ /\ m.index # IndexOf(initiator)]
      /\ UNCHANGED <<clock, limiter, accepted, tries, turns>>
  BY DEF HandleHandshakeResponse
<1>2. MessagesInv /\ SettledInv /\ TriesInv
  BY DEF CookieInv
<1>3. /\ initiator'.start = initiator.start /\ initiator'.sent_at = initiator.sent_at
      /\ initiator'.addr = initiator.addr /\ initiator'.cookie = initiator.cookie
  <2>1. initiator \in [start : Nat, addr : Address, waiting : BOOLEAN, sent_at : Int,
                       cookie : Cookie, cookie_at : Int]
    BY DEF DoorInv, TypeInv
  <2> QED  BY ONLY <1>1, <2>1
<1>4. SamePeer /\ SameCookies
  BY <1>1, <1>3, CookiesStay DEF SamePeer
<1>5. MessagesInv'
  BY <1>1, <1>2, <1>4, FewerKeepMessages DEF MessagesInv
<1>6. SettledInv'
  BY <1>1, <1>2, <1>4, SettledStays
<1>7. TriesInv'
  BY <1>1, <1>2, <1>3, <1>4, QuietTries
<1> QED  BY <1>5, <1>6, <1>7 DEF CookieInv

LEMMA SendCookieKeepsCookie ==
  ASSUME DoorInv, CookieInv, NEW m \in net, SendCookie(m)
  PROVE  CookieInv'
<1>0. PICK k : k = [kind |-> "cookie", index |-> m.index, cookie |-> current_cookie(m.addr), at |-> clock]
  OBVIOUS
<1>1. /\ m.kind = "init" /\ m.cookie # RightCookie(m.addr)
      /\ net' = (net \ {m}) \cup {k} /\ limiter' = Counted
      /\ UNCHANGED <<clock, accepted, initiator, tries, turns>>
  BY <1>0, CurrentIsRight DEF SendCookie, NeedsCookie
<1>2. k.kind = "cookie" /\ k.index = m.index /\ k.cookie = RightCookie(m.addr) /\ k.at = clock
  BY <1>0, CurrentIsRight
<1>3. MessagesInv /\ SettledInv /\ TriesInv
  BY DEF CookieInv
<1>4. SamePeer /\ SameCookies
  BY <1>1, CookiesStay, CountedKeepsSecret DEF SamePeer, DoorInv
<1>5. MessagesInv'
  <2>1. tries' \in Nat /\ turns' \in Nat /\ accepted'.sent <= clock
    BY <1>1, <1>3 DEF MessagesInv
  <2> QED  BY <1>1, <1>2, <1>3, <1>4, <2>1, AnswerKeepsMessages
<1>6. SettledInv'
  BY <1>1, <1>2, <1>3, <1>4, SettledStays
<1>7. TriesInv'
  <2>1. CASE ~Mine(m)
    <3>1. ~Mine(k)
      BY <1>2, <2>1 DEF Mine
    <3> QED  BY <1>1, <1>2, <1>3, <1>4, <2>1, <3>1, QuietTries
  <2>2. CASE Mine(m)
    <3>1. \A n \in net : Mine(n) => n = m
      BY <1>3, <2>2 DEF MessagesInv, Mine
    <3>2. ~Told /\ ~Showing /\ ~Knowing
      BY <1>1, <2>2, <3>1 DEF Told, Showing, Knowing, Pending
    <3>3. ASSUME Asking PROVE Told'
      <4>1. m.addr = initiator.addr
        BY <1>1, <3>1, <3>3 DEF Asking, Pending
      <4>2. Mine(k)' /\ k \in net'
        BY <1>1, <1>2, <2>2 DEF Mine, IndexOf
      <4>3. k.cookie = RightCookie(initiator.addr)'
        BY <1>1, <1>2, <1>4, <4>1 DEF RightCookie, SameCookies
      <4> QED  BY <1>2, <4>2, <4>3 DEF Told
    <3> QED  BY <1>1, <1>3, <3>2, <3>3 DEF TriesInv
  <2> QED  BY <2>1, <2>2
<1> QED  BY <1>5, <1>6, <1>7 DEF CookieInv

LEMMA HandleInitKeepsCookie ==
  ASSUME DoorInv, CookieInv, NEW m \in net, HandleHandshakeInit(m)
  PROVE  CookieInv'
<1>0. PICK k : k = [kind |-> "response", index |-> m.index, at |-> clock]
  OBVIOUS
<1>1. /\ m.kind = "init" /\ limiter' = Counted /\ UNCHANGED <<clock, initiator>>
      /\ \/ /\ accepted' = [stamp |-> m.stamp, sent |-> m.at]
            /\ net' = (net \ {m}) \cup {k}
            /\ IF Mine(m) THEN tries' = 0 /\ turns' = 0 ELSE UNCHANGED <<tries, turns>>
         \/ /\ ~after(m.stamp, accepted.stamp)
            /\ net' = net \ {m} /\ UNCHANGED <<accepted, tries, turns>>
  BY <1>0 DEF HandleHandshakeInit, Mine
<1>2. k.kind = "response" /\ k.index = m.index /\ k.at = clock
  BY <1>0
<1>3. MessagesInv /\ SettledInv /\ TriesInv
  BY DEF CookieInv
<1>4. SamePeer /\ SameCookies
  BY <1>1, CookiesStay, CountedKeepsSecret DEF SamePeer, DoorInv
<1>5. tries \in Nat /\ turns \in Nat /\ accepted.sent <= clock /\ m.at <= clock
  BY <1>3 DEF MessagesInv
<1>6. ASSUME Mine(m) PROVE /\ \A n \in net : Mine(n) => n = m
                           /\ m.at = initiator.sent_at /\ Settled
  <2>1. /\ m.index = <<initiator.start, initiator.sent_at>>
        /\ m.index[1] <= m.index[2] /\ m.index[2] = m.at /\ m.index \in Nat \X Nat
    BY <1>1, <1>3, <1>6 DEF MessagesInv, Mine, IndexOf
  <2>2. initiator.start <= initiator.sent_at /\ m.at = initiator.sent_at
        /\ initiator.start \in Nat /\ initiator.sent_at \in Nat
    BY ONLY <2>1
  <2>3. Settled
    BY <1>3, <2>2 DEF SettledInv
  <2> QED  BY <1>3, <1>6, <2>2, <2>3 DEF MessagesInv, Mine
<1>7. CASE /\ accepted' = [stamp |-> m.stamp, sent |-> m.at] /\ net' = (net \ {m}) \cup {k}
           /\ IF Mine(m) THEN tries' = 0 /\ turns' = 0 ELSE UNCHANGED <<tries, turns>>
  <2>1. MessagesInv'
    <3>1. tries' \in Nat /\ turns' \in Nat /\ accepted'.sent <= clock
      BY <1>5, <1>7
    <3> QED  BY <1>1, <1>2, <1>3, <1>4, <1>7, <3>1, AnswerKeepsMessages
  <2>2. CASE Mine(m)
    <3>1. Settled'
      BY <1>1, <1>2, <1>6, <1>7, <2>2 DEF Settled
    <3>2. TriesInv'
      BY <1>7, <2>2 DEF TriesInv
    <3> QED  BY <2>1, <3>1, <3>2 DEF CookieInv, SettledInv
  <2>3. CASE ~Mine(m)
    <3>1. SettledInv'
      BY <1>1, <1>2, <1>3, <1>4, <1>7, <2>3, SettledStays
    <3>2. ~Mine(k)
      BY <1>2, <2>3 DEF Mine
    <3>3. TriesInv'
      BY <1>1, <1>2, <1>3, <1>4, <1>7, <2>3, <3>2, QuietTries
    <3> QED  BY <2>1, <3>1, <3>3 DEF CookieInv
  <2> QED  BY <2>2, <2>3
<1>8. CASE /\ ~after(m.stamp, accepted.stamp)
           /\ net' = net \ {m} /\ UNCHANGED <<accepted, tries, turns>>
  <2>1. MessagesInv'
    BY <1>1, <1>3, <1>4, <1>5, <1>8, FewerKeepMessages
  <2>2. SettledInv'
    BY <1>1, <1>3, <1>4, <1>8, SettledStays
  <2>3. TriesInv'
    <3>1. CASE ~Mine(m)
      BY <1>1, <1>3, <1>4, <1>8, <3>1, QuietTries
    <3>2. CASE Mine(m)
      <4>1. ~(m.at - accepted.sent >= REKEY_TIMEOUT)
        BY <1>1, <1>8, StampsOrdered DEF RetryIsAccepted
      <4>2. ~Asking /\ ~Showing
        BY <1>6, <3>2, <4>1 DEF Asking, Showing, Pending
      <4>3. ~Told /\ ~Knowing
        BY <1>1, <1>6, <3>2 DEF Told, Knowing
      <4> QED  BY <1>3, <1>8, <4>2, <4>3 DEF TriesInv
    <3> QED  BY <3>1, <3>2
  <2> QED  BY <2>1, <2>2, <2>3 DEF CookieInv
<1> QED  BY <1>1, <1>7, <1>8

LEMMA LoseKeepsCookie ==
  ASSUME DoorInv, CookieInv, NEW m \in net, Lose(m)
  PROVE  CookieInv'
<1>1. /\ net' = net \ {m} /\ turns' = turns + 1
      /\ UNCHANGED <<clock, limiter, accepted, initiator, tries>>
  BY DEF Lose, Trouble
<1>2. MessagesInv /\ SettledInv /\ TriesInv
  BY DEF CookieInv
<1>3. SamePeer
  BY <1>1 DEF SamePeer
<1>4. MessagesInv'
  <2>1. tries' \in Nat /\ turns' \in Nat /\ accepted'.sent <= clock
    BY <1>1, <1>2 DEF MessagesInv
  <2> QED  BY <1>1, <1>2, <1>3, <2>1, FewerKeepMessages
<1>5. SettledInv'
  BY <1>1, <1>2, <1>3, SettledStays
<1>6. ASSUME Showing PROVE Asking' \/ Knowing'
  <2>1. PICK n \in net : /\ Pending(n) /\ n.addr = initiator.addr
                         /\ n.cookie = RightCookie(n.addr) /\ initiator.cookie = n.cookie
    BY <1>6 DEF Showing
  <2>2. CASE n = m
    <3>1. \A o \in net' : ~Mine(o)'
      BY <1>1, <1>2, <2>1, <2>2 DEF Mine, IndexOf, Pending, MessagesInv
    <3>2. (initiator.cookie = RightCookie(initiator.addr))'
      BY <1>1, <2>1 DEF RightCookie
    <3> QED  BY <3>1, <3>2 DEF Knowing
  <2>3. CASE n # m
    <3>1. Pending(n)'
      BY <1>1, <2>1, <2>3 DEF Pending, Mine, IndexOf
    <3>2. (n.addr = initiator.addr)' /\ n \in net'
      BY <1>1, <2>1, <2>3
    <3> QED  BY <3>1, <3>2 DEF Asking
  <2> QED  BY <2>2, <2>3
<1>7. TriesInv'
  BY <1>1, <1>2, <1>6, TurnTries
<1> QED  BY <1>4, <1>5, <1>7 DEF CookieInv

(* The address, the cookie or the device is new. *)
LEMMA TurnKeepsCookie ==
  ASSUME DoorInv, CookieInv, SamePeer, UNCHANGED <<clock, net, tries>>, turns' = turns + 1,
         accepted'.sent \in {accepted.sent, -REKEY_TIMEOUT},
         initiator'.addr = initiator.addr \/ SameCookies
  PROVE  CookieInv'
<1>1. MessagesInv /\ SettledInv /\ TriesInv
  BY DEF CookieInv
<1>2. MessagesInv'
  <2>1. tries' \in Nat /\ turns' \in Nat
    BY <1>1 DEF MessagesInv
  <2>2. accepted'.sent <= clock
    BY <1>1, DoorTypes DEF MessagesInv
  <2> QED  BY <1>1, <2>1, <2>2, FewerKeepMessages
<1>3. SettledInv'
  BY <1>1, SettledStays
<1>4. Showing => Asking'
  BY <1>1, ShownAsks
<1>5. TriesInv'
  BY <1>1, <1>4, TurnTries
<1> QED  BY <1>2, <1>3, <1>5 DEF CookieInv

LEMMA RestartKeepsCookie ==
  ASSUME DoorInv, CookieInv, RestartInitiator
  PROVE  CookieInv'
<1>1. /\ clock > initiator.start /\ initiator' = NewInitiator(initiator.addr)
      /\ tries' = 0 /\ turns' = 1 /\ UNCHANGED <<clock, limiter, accepted, net>>
  BY DEF RestartInitiator
<1>2. MessagesInv
  BY DEF CookieInv
<1>3. /\ clock \in Nat /\ initiator.start \in Nat /\ REKEY_TIMEOUT \in Nat \ {0}
  BY DoorTypes
<1>4. initiator'.start = clock /\ initiator'.sent_at = clock - REKEY_TIMEOUT
  BY <1>1 DEF NewInitiator
<1>5. MessagesInv'
  <2>1. -REKEY_TIMEOUT <= clock - REKEY_TIMEOUT /\ clock - REKEY_TIMEOUT <= clock
    BY <1>3
  <2>2. \A m \in net : m.index[1] <= clock /\ m.index[1] # clock
    BY <1>1, <1>2, <1>3 DEF MessagesInv
  <2> QED  BY <1>1, <1>2, <1>4, <2>1, <2>2 DEF MessagesInv
<1>6. SettledInv'
  BY <1>1, <1>3, <1>4 DEF SettledInv
<1>7. TriesInv'
  BY <1>1 DEF TriesInv
<1> QED  BY <1>5, <1>6, <1>7 DEF CookieInv

LEMMA InitEstablishesCookie == Init => CookieInv
<1> SUFFICES ASSUME Init PROVE CookieInv
  OBVIOUS
<1>1. REKEY_TIMEOUT \in Nat
  BY DoorAssumption
<1>2. /\ clock = 0 /\ accepted.sent = -REKEY_TIMEOUT /\ initiator.sent_at = 0 - REKEY_TIMEOUT
      /\ net = {} /\ tries = 0 /\ turns = 0
  BY DEF Init, NewInitiator
<1>3. MessagesInv
  BY <1>1, <1>2 DEF MessagesInv
<1>4. SettledInv
  BY <1>1, <1>2 DEF SettledInv, Settled
<1>5. TriesInv
  BY <1>2 DEF TriesInv
<1> QED  BY <1>3, <1>4, <1>5 DEF CookieInv

LEMMA NextKeepsCookie ==
  ASSUME 2 * FLIGHT < REKEY_TIMEOUT
  PROVE  DoorInv /\ CookieInv /\ [Next]_vars => CookieInv'
<1> SUFFICES ASSUME DoorInv, CookieInv, [Next]_vars PROVE CookieInv'
  OBVIOUS
<1> DEFINE Initiator == [start : Nat, addr : Address, waiting : BOOLEAN, sent_at : Int,
                         cookie : Cookie, cookie_at : Int]
<1>1. initiator \in Initiator
  BY DEF DoorInv, TypeInv
<1>2. CASE UNCHANGED vars
  BY <1>2, CountingKeepsCookie DEF vars
<1>3. CASE Begin
  BY <1>1, <1>3, InitiateKeepsCookie DEF Begin
<1>4. CASE InitiatorTick
  <2> DEFINE p == ClearOldCookie(initiator)
  <2>1. /\ p \in Initiator /\ p.start = initiator.start
        /\ p.addr = initiator.addr /\ p.sent_at = initiator.sent_at
    BY <1>1 DEF ClearOldCookie, Cookie
  <2> HIDE DEF p
  <2>2. \/ clock - initiator.sent_at >= REKEY_TIMEOUT /\ Initiate(p)
        \/ /\ initiator' = p /\ turns' = turns + 1
           /\ UNCHANGED <<clock, limiter, ticker, accepted, net, tries>>
    BY <1>4 DEF InitiatorTick, RetryDue, p
  <2>3. CASE clock - initiator.sent_at >= REKEY_TIMEOUT /\ Initiate(p)
    <3>1. PICK q \in Initiator : q = p
      BY <2>1
    <3> QED  BY <2>1, <2>3, <3>1, InitiateKeepsCookie
  <2>4. CASE /\ initiator' = p /\ turns' = turns + 1
             /\ UNCHANGED <<clock, limiter, ticker, accepted, net, tries>>
    <3>1. SamePeer /\ initiator'.addr = initiator.addr
      BY <2>1, <2>4 DEF SamePeer
    <3> QED  BY <2>4, <3>1, TurnKeepsCookie
  <2> QED  BY <2>2, <2>3, <2>4
<1>5. CASE Flood
  BY <1>5, CountingKeepsCookie, CountedKeepsSecret DEF Flood, DoorInv
<1>6. CASE Tick
  <2>1. limiter' \in {limiter, reset_count(limiter)} /\ UNCHANGED <<clock, accepted, initiator, net, tries, turns>>
    BY <1>6 DEF Tick
  <2>2. limiter'.boot = limiter.boot /\ limiter'.start = limiter.start
    BY <2>1 DEF reset_count, DoorInv, TypeInv
  <2> QED  BY <2>1, <2>2, CountingKeepsCookie
<1>7. ASSUME NEW m \in net, HandleCookieReply(m) PROVE CookieInv'
  BY <1>7, ReplyKeepsCookie
<1>8. ASSUME NEW m \in net, HandleHandshakeResponse(m) PROVE CookieInv'
  BY <1>8, ResponseKeepsCookie
<1>9. ASSUME NEW m \in net, SendCookie(m) PROVE CookieInv'
  BY <1>9, SendCookieKeepsCookie
<1>10. ASSUME NEW m \in net, HandleHandshakeInit(m) PROVE CookieInv'
  BY <1>10, HandleInitKeepsCookie
<1>11. ASSUME NEW m \in net, Lose(m) PROVE CookieInv'
  BY <1>11, LoseKeepsCookie
<1>12. CASE Move
  <2>1. PICK a \in Address : initiator' = [initiator EXCEPT !.addr = a]
    BY <1>12 DEF Move
  <2>2. turns' = turns + 1 /\ UNCHANGED <<clock, limiter, accepted, net, tries>>
    BY <1>12 DEF Move, Trouble
  <2>3. SamePeer /\ SameCookies
    BY <1>1, <2>1, <2>2, CookiesStay DEF SamePeer
  <2> QED  BY <2>2, <2>3, TurnKeepsCookie
<1>13. CASE RestartInitiator
  BY <1>13, RestartKeepsCookie
<1>14. CASE RestartDevice
  BY <1>14, TurnKeepsCookie DEF RestartDevice, Trouble, SamePeer
<1>15. CASE Advance
  BY <1>15, AdvanceKeepsCookie
<1> QED  BY <1>2, <1>3, <1>4, <1>5, <1>6, <1>7, <1>8, <1>9, <1>10, <1>11, <1>12, <1>13, <1>14, <1>15 DEF Next

(* A peer behind a loaded limiter is let in with its second try, and only   *)
(* a loss, a move, a restart, a new secret or the cookie's expiry costs     *)
(* another, when a round trip is shorter than the wait for the next try     *)
(* (RateLimiter::verify_packet, receive_cookie_reply).                      *)
THEOREM CookieAlwaysLetsIn == (2 * FLIGHT < REKEY_TIMEOUT) => (Spec => []CookieLetsIn)
<1> SUFFICES ASSUME 2 * FLIGHT < REKEY_TIMEOUT PROVE Spec => []CookieLetsIn
  OBVIOUS
<1>1. DoorInv /\ CookieInv /\ [Next]_vars => CookieInv'
  BY NextKeepsCookie
<1>2. CookieInv => CookieLetsIn
  BY DEF CookieInv, TriesInv, CookieLetsIn
<1> QED  BY <1>1, <1>2, InitEstablishesCookie, DoorInvariant, PTL DEF Spec
=============================================================================
