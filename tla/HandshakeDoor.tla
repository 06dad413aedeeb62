--------------------------- MODULE HandshakeDoor ---------------------------
(***************************************************************************)
(* What an initiation passes before a tunnel answers it: the rate limiter  *)
(* with its cookies (noise/rate_limiter.rs, the cookies of                 *)
(* noise/handshake.rs) and the check of its time stamp (timestamper.rs).   *)
(*                                                                         *)
(* One device, whose loop resets the limiter as its ticker tells it, and   *)
(* one peer that initiates, gets cookies and retries.  Other peers load    *)
(* the limiter (Flood).  A cookie is what it is made from: the limiter's   *)
(* secret, the period and the address.  The session an answer makes is     *)
(* module Tunnel, and so is when an attempt is given up.                   *)
(***************************************************************************)
EXTENDS Integers, FiniteSets

CONSTANTS
  SECOND,                 \* the units of time in a second
  PERIOD, TICKS,          \* the ticker's period, and ticks from one reset to the next
  DELAY,                  \* how late the loop comes to a tick
  FLIGHT,                 \* how long a message is under way
  GRAIN,                  \* the whitener: a stamp's fraction is a multiple of this
  REKEY_TIMEOUT, COOKIE_EXPIRATION_TIME,
  COOKIE_REFRESH,
  HANDSHAKE_RATE_LIMIT,
  Address,
  NoCookie,
  HorizonTime, MaxTrouble \* bounds of the model

ASSUME DoorAssumption ==
  /\ SECOND \in Nat /\ PERIOD \in Nat /\ TICKS \in Nat \ {0}
  /\ DELAY \in Nat /\ FLIGHT \in Nat /\ GRAIN \in Nat \ {0} /\ HANDSHAKE_RATE_LIMIT \in Nat
  /\ TICKS * PERIOD = SECOND /\ DELAY < PERIOD /\ GRAIN <= SECOND
  /\ REKEY_TIMEOUT \in Nat /\ REKEY_TIMEOUT >= SECOND + GRAIN
  /\ COOKIE_REFRESH \in Nat \ {0} /\ COOKIE_EXPIRATION_TIME \in Nat
  /\ REKEY_TIMEOUT + 2 * PERIOD + DELAY < COOKIE_EXPIRATION_TIME
  /\ HorizonTime \in Nat /\ MaxTrouble \in Nat

VARIABLES
  clock,       \* Instant::now(), and the wall clock
  limiter,     \* the device's RateLimiter
  ticker,      \* when the loop's next tick is due, and its tick_count
  accepted,    \* last_handshake_timestamp; history: when that was sent
  initiator,   \* the peer's handshake, cookies and stamper
  net,         \* messages under way
  tries,       \* history: initiations sent since one was accepted
  turns,       \* history: what cost a try since then
  trouble      \* losses, moves and restarts so far (bound)

vars == <<clock, limiter, ticker, accepted, initiator, net, tries, turns, trouble>>
-----------------------------------------------------------------------------
(* timestamper.rs *)

(* A stamper is known by when it was made: the wall clock in whole seconds  *)
(* is its anchor.                                                           *)
stamp(start, now) ==
  [secs |-> start \div SECOND + (now - start) \div SECOND,
   nano |-> (((now - start) % SECOND) \div GRAIN) * GRAIN]

zero == [secs |-> -1, nano |-> 0]

AfterInBoth(s, o) == s.secs > o.secs /\ s.nano > o.nano   \* mutant: not lexicographic

after(s, o) == s.secs > o.secs \/ (s.secs = o.secs /\ s.nano > o.nano)
-----------------------------------------------------------------------------
(* noise/rate_limiter.rs *)

NewLimiter(boot) == [boot |-> boot, start |-> clock, count |-> 0, last_reset |-> clock]

is_under_load == limiter.count >= HANDSHAKE_RATE_LIMIT

(* The counter, which is only compared with the limit, stops there. *)
Counted == [limiter EXCEPT !.count = IF is_under_load THEN @ ELSE @ + 1]

CookieOfTheSecond(addr) ==   \* mutant: the seconds are not divided into periods
  [boot |-> limiter.boot, period |-> (clock - limiter.start) \div SECOND, addr |-> addr]

(* Which secret is in use at a time. *)
CookiePeriod(now) == (now - limiter.start) \div COOKIE_REFRESH

current_cookie(addr) == [boot |-> limiter.boot, period |-> CookiePeriod(clock), addr |-> addr]

ResetAfterMore(l) ==   \* mutant: more than a second must have passed
  IF (clock - l.last_reset) \div SECOND > 1 THEN [l EXCEPT !.count = 0, !.last_reset = clock] ELSE l

reset_count(l) ==
  IF (clock - l.last_reset) \div SECOND >= 1 THEN [l EXCEPT !.count = 0, !.last_reset = clock] ELSE l

(* verify_packet: the message needs a cookie and has not the right one. *)
NeedsCookie(m) == is_under_load /\ m.cookie # current_cookie(m.addr)
-----------------------------------------------------------------------------
(* The peer. *)

NewInitiator(addr) ==
  [start |-> clock, addr |-> addr, waiting |-> FALSE, sent_at |-> clock - REKEY_TIMEOUT,
   cookie |-> NoCookie, cookie_at |-> clock]

(* The answer to an initiation names its index, and a cookie reply is sealed *)
(* with its mac1; this stands for both.                                      *)
IndexOf(p) == <<p.start, p.sent_at>>

(* format_handshake_initiation, append_mac1_and_mac2 *)
Initiate(p) ==
  /\ initiator' = [p EXCEPT !.waiting = TRUE, !.sent_at = clock]
  /\ net' = net \cup {[kind |-> "init", index |-> <<p.start, clock>>, addr |-> p.addr,
                       cookie |-> p.cookie, stamp |-> stamp(p.start, clock), at |-> clock]}
  /\ tries' = tries + 1
  /\ turns' = IF p = initiator THEN turns ELSE turns + 1
  /\ UNCHANGED <<clock, limiter, ticker, accepted, trouble>>

(* A packet wants a session.  The last handshake is REKEY_TIMEOUT old, or   *)
(* older: the timer rules wait longer than that.                            *)
Begin ==
  /\ ~initiator.waiting /\ clock - initiator.sent_at >= REKEY_TIMEOUT
  /\ Initiate(initiator)

(* The cookie is cleared after COOKIE_EXPIRATION_TIME. *)
ClearOldCookie(p) ==
  IF p.cookie # NoCookie /\ clock - p.cookie_at >= COOKIE_EXPIRATION_TIME THEN [p EXCEPT !.cookie = NoCookie] ELSE p

RetryDue == initiator.waiting /\ clock - initiator.sent_at >= REKEY_TIMEOUT

(* The peer's own timer tick, as far as it matters here. *)
InitiatorTick ==
  \/ RetryDue /\ Initiate(ClearOldCookie(initiator))
  \/ /\ ~RetryDue
     /\ ClearOldCookie(initiator) # initiator
     /\ initiator' = ClearOldCookie(initiator)
     /\ turns' = turns + 1
     /\ UNCHANGED <<clock, limiter, ticker, accepted, net, tries, trouble>>

(* TimeCookieReceived is the time of the peer's last tick. *)
HandleCookieReply(m) ==
  /\ m.kind = "cookie"
  /\ net' = net \ {m}
  /\ \/ /\ m.index = IndexOf(initiator)
        /\ \E lag \in {0, PERIOD} :
             initiator' = [initiator EXCEPT !.cookie = m.cookie, !.cookie_at = clock - lag]
     \/ m.index # IndexOf(initiator) /\ UNCHANGED initiator
  /\ UNCHANGED <<clock, limiter, ticker, accepted, tries, turns, trouble>>

HandleHandshakeResponse(m) ==
  /\ m.kind = "response"
  /\ net' = net \ {m}
  /\ initiator' = [initiator EXCEPT !.waiting = @ /\ m.index # IndexOf(initiator)]
  /\ UNCHANGED <<clock, limiter, ticker, accepted, tries, turns, trouble>>
-----------------------------------------------------------------------------
(* The device. *)

(* A handshake message of another peer. *)
Flood ==
  /\ ~is_under_load
  /\ limiter' = Counted
  /\ UNCHANGED <<clock, ticker, accepted, initiator, net, tries, turns, trouble>>

(* verify_packet answers with a cookie, under the index of the message. *)
SendCookie(m) ==
  /\ m.kind = "init" /\ NeedsCookie(m)
  /\ net' = (net \ {m}) \cup
              {[kind |-> "cookie", index |-> m.index, cookie |-> current_cookie(m.addr), at |-> clock]}
  /\ limiter' = Counted
  /\ UNCHANGED <<clock, ticker, accepted, initiator, tries, turns, trouble>>

(* verify_packet lets the message pass, and receive_handshake_initialization *)
(* checks its stamp.                                                         *)
HandleHandshakeInit(m) ==
  /\ m.kind = "init" /\ ~NeedsCookie(m)
  /\ limiter' = Counted
  /\ \/ /\ after(m.stamp, accepted.stamp)
        /\ accepted' = [stamp |-> m.stamp, sent |-> m.at]
        /\ net' = (net \ {m}) \cup {[kind |-> "response", index |-> m.index, at |-> clock]}
        /\ IF m.index = IndexOf(initiator) THEN tries' = 0 /\ turns' = 0 ELSE UNCHANGED <<tries, turns>>
     \/ /\ ~after(m.stamp, accepted.stamp)
        /\ net' = net \ {m}
        /\ UNCHANGED <<accepted, tries, turns>>
  /\ UNCHANGED <<clock, ticker, initiator, trouble>>

(* A missed tick is made up for: the next is due a period after this was. *)
Tick ==
  /\ clock >= ticker.due
  /\ LET last == ticker.count + 1 >= TICKS
     IN  /\ ticker' = [due |-> ticker.due + PERIOD,
                       count |-> IF last THEN 0 ELSE ticker.count + 1]
         /\ limiter' = IF last THEN reset_count(limiter) ELSE limiter
  /\ UNCHANGED <<clock, accepted, initiator, net, tries, turns, trouble>>
-----------------------------------------------------------------------------
(* The world. *)

Trouble ==
  /\ trouble < MaxTrouble
  /\ trouble' = trouble + 1
  /\ turns' = turns + 1

Lose(m) ==
  /\ Trouble
  /\ net' = net \ {m}
  /\ UNCHANGED <<clock, limiter, ticker, accepted, initiator, tries>>

(* The peer's address changes. *)
Move ==
  /\ Trouble
  /\ \E a \in Address \ {initiator.addr} : initiator' = [initiator EXCEPT !.addr = a]
  /\ UNCHANGED <<clock, limiter, ticker, accepted, net, tries>>

RestartInitiator ==
  /\ clock > initiator.start
  /\ trouble < MaxTrouble
  /\ trouble' = trouble + 1
  /\ initiator' = NewInitiator(initiator.addr)
  /\ tries' = 0 /\ turns' = 1
  /\ UNCHANGED <<clock, limiter, ticker, accepted, net>>

(* The std ticker's first tick is due at once, the embedded one's after a   *)
(* period.                                                                  *)
RestartDevice ==
  /\ Trouble
  /\ limiter' = NewLimiter(limiter.boot + 1)
  /\ ticker' \in [due : {clock, clock + PERIOD}, count : {0}]
  /\ accepted' = [stamp |-> zero, sent |-> -REKEY_TIMEOUT]
  /\ UNCHANGED <<clock, initiator, net, tries>>

(* Ticks and messages are late by their bounds at most. *)
Advance ==
  /\ clock < HorizonTime
  /\ clock < ticker.due + DELAY
  /\ \A m \in net : clock < m.at + FLIGHT
  /\ initiator.waiting => clock < initiator.sent_at + REKEY_TIMEOUT + PERIOD + DELAY
  /\ clock' = clock + 1
  /\ turns' = IF CookiePeriod(clock + 1) # CookiePeriod(clock) THEN turns + 1 ELSE turns
  /\ UNCHANGED <<limiter, ticker, accepted, initiator, net, tries, trouble>>

Init ==
  /\ clock = 0
  /\ limiter = NewLimiter(0)
  /\ ticker \in [due : {0, PERIOD}, count : {0}]
  /\ accepted = [stamp |-> zero, sent |-> -REKEY_TIMEOUT]
  /\ \E a \in Address : initiator = NewInitiator(a)
  /\ net = {} /\ tries = 0 /\ turns = 0 /\ trouble = 0

Next ==
  \/ Begin \/ InitiatorTick \/ Flood \/ Tick
  \/ \E m \in net : HandleCookieReply(m) \/ HandleHandshakeResponse(m)
                      \/ SendCookie(m) \/ HandleHandshakeInit(m) \/ Lose(m)
  \/ Move \/ RestartInitiator \/ RestartDevice \/ Advance

Spec == Init /\ [][Next]_vars
-----------------------------------------------------------------------------
(* An initiation sent REKEY_TIMEOUT after the last accepted one is newer to *)
(* the device, though stamps are truncated and a restart of the peer moves  *)
(* their anchor back by up to a second (stamp, after).                      *)
RetryIsAccepted ==
  \A m \in net : m.kind = "init" /\ m.at - accepted.sent >= REKEY_TIMEOUT
    => after(m.stamp, accepted.stamp)

(* A peer behind a loaded limiter is let in: one try gets the cookie and    *)
(* the next one uses it.  Only a lost message, a new address, a restart, a  *)
(* new secret or the cookie's expiry costs another try (verify_packet,      *)
(* receive_cookie_reply).                                                   *)
CookieLetsIn == tries <= 2 + turns

(* The limiter forgets its load within two seconds and the loop's delay,    *)
(* though a reset that comes a moment early is skipped for a whole round    *)
(* (reset_count, the loop's tick_count).                                    *)
LoadIsForgotten == clock - limiter.last_reset <= 2 * SECOND + DELAY
=============================================================================
