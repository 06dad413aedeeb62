------------------------- MODULE HealthMonitorProofs -------------------------
(***************************************************************************)
(* Theorems about HealthMonitor, for every set of routes, every policy     *)
(* list and every value of the intervals.  First what the methods of       *)
(* PeerHealth return and preserve, then the passes that call them.         *)
(*                                                                         *)
(* None of the properties is inductive alone.  MonitorInv adds to the      *)
(* types how the two clocks of the health record relate to what really     *)
(* happened: traffic heard and not yet folded in is still pending in       *)
(* `received', the inbound clock never predates the last switch, and a     *)
(* failover leaves a backoff run behind.  RoutesInv adds what the entries  *)
(* of single routes say of the past: when a failed one was blamed, whose   *)
(* traffic the active one has heard, and how far a dead one has got.       *)
(***************************************************************************)
EXTENDS HealthMonitor, SequenceTheorems, WellFoundedInduction, TLAPS

(* A health record that belongs to the policy list rts. *)
FitsRoutes(h, rts) ==
  /\ h \in Health
  /\ Len(h.policy_health) = Len(rts)
  /\ h.active_policy <= Len(rts)
  /\ h.recovery_fallback <= Len(rts)
  /\ \A i \in 1..Len(rts) :
       /\ h.policy_health[i].route = rts[i]
       /\ LabelFits(h.policy_health[i])

(* A list a map may contain. *)
GoodList(rts) ==
  /\ rts \in Seq(RouteKey)
  /\ Len(rts) >= 1
  /\ \A i, j \in 1..Len(rts) : rts[i] = rts[j] => i = j
-----------------------------------------------------------------------------
(* Entries. *)

(* A route's entry starts well typed, on its own route, and with a label    *)
(* that fits its score.                                                     *)
LEMMA NewEntryFits ==
  ASSUME NEW r \in RouteKey
  PROVE  /\ NewEntry(r) \in PolicyHealthEntry
         /\ NewEntry(r).route = r
         /\ LabelFits(NewEntry(r))
BY DEF NewEntry, PolicyHealthEntry, LabelFits, POLICY_FAILURE_SCORE, PolicyState,
       MaybeInstant, None

(* Any update of an entry's mutable fields within their types is an entry   *)
(* again, and only these fields differ.                                     *)
Updated(p, s, ok, bad, st) ==
  [p EXCEPT !.suspicion = s, !.last_success = ok, !.last_failure = bad, !.state = st]

(* Replacing the fields record_success, record_failure and decay write      *)
(* gives an entry of the same route with those fields.                      *)
LEMMA EntryUpdate ==
  ASSUME NEW p \in PolicyHealthEntry, NEW s \in 0..POLICY_FAILURE_SCORE,
         NEW ok \in MaybeInstant, NEW bad \in MaybeInstant, NEW st \in PolicyState
  PROVE  /\ Updated(p, s, ok, bad, st) \in PolicyHealthEntry
         /\ Updated(p, s, ok, bad, st).route = p.route
         /\ Updated(p, s, ok, bad, st).suspicion = s
         /\ Updated(p, s, ok, bad, st).last_success = ok
         /\ Updated(p, s, ok, bad, st).last_failure = bad
         /\ Updated(p, s, ok, bad, st).state = st
BY DEF PolicyHealthEntry, Updated

(* The types of an entry's fields, in the form the provers use them.        *)
LEMMA EntryFields ==
  ASSUME NEW p \in PolicyHealthEntry
  PROVE  /\ p.suspicion \in 0..4 /\ p.suspicion \in Int
         /\ p.last_success \in MaybeInstant /\ p.last_failure \in MaybeInstant
         /\ p.last_failure \in Nat
         /\ p.state \in PolicyState
         /\ p.route \in RouteKey
BY DEF PolicyHealthEntry, POLICY_FAILURE_SCORE, MaybeInstant

(* record_success keeps an entry well typed, its route, and the agreement   *)
(* of its label with its score.                                             *)
LEMMA SuccessFits ==
  ASSUME NEW p \in PolicyHealthEntry, NEW t \in Instant, LabelFits(p)
  PROVE  /\ record_success(p, t) \in PolicyHealthEntry
         /\ record_success(p, t).route = p.route
         /\ LabelFits(record_success(p, t))
<1> DEFINE score == AtLeast(p.suspicion - HEALTHY_SCORE_DELTA, 0)
           q == record_success(p, t)
<1>0. score \in 0..3 /\ (score > 0 => p.suspicion > 0)
  BY EntryFields DEF HEALTHY_SCORE_DELTA, AtLeast
<1>1. score \in 0..POLICY_FAILURE_SCORE
  BY <1>0 DEF POLICY_FAILURE_SCORE
<1>2. t \in MaybeInstant /\ "Healthy" \in PolicyState
  BY DEF MaybeInstant, Instant, PolicyState
<1>3. q = Updated(p, score, t, p.last_failure, "Healthy")
  BY EntryFields DEF Updated, record_success, PolicyHealthEntry
<1> HIDE DEF score, q
<1>4. /\ q \in PolicyHealthEntry /\ q.route = p.route /\ q.suspicion = score
      /\ q.state = "Healthy" /\ q.last_failure = p.last_failure
  BY <1>1, <1>2, <1>3, EntryUpdate, EntryFields
<1>5. LabelFits(q)
  BY <1>0, <1>4 DEF LabelFits, POLICY_FAILURE_SCORE
<1> QED
  BY <1>4, <1>5 DEF q

(* record_failure caps the score and chooses the label for it, whatever the *)
(* entry was.                                                               *)
LEMMA FailureFits ==
  ASSUME NEW p \in PolicyHealthEntry, NEW t \in Instant
  PROVE  /\ record_failure(p, t) \in PolicyHealthEntry
         /\ record_failure(p, t).route = p.route
         /\ LabelFits(record_failure(p, t))
<1> DEFINE score == AtMost(p.suspicion + UNHEALTHY_SCORE_DELTA, POLICY_FAILURE_SCORE)
           q == record_failure(p, t)
<1>1. score \in 2..4 /\ score \in 0..POLICY_FAILURE_SCORE
  BY EntryFields DEF POLICY_FAILURE_SCORE, UNHEALTHY_SCORE_DELTA, AtMost
<1>2. t \in MaybeInstant /\ StateForScore(score) \in PolicyState
  BY DEF MaybeInstant, Instant, PolicyState, StateForScore
<1>3. q = Updated(p, score, p.last_success, t, StateForScore(score))
  BY EntryFields DEF Updated, record_failure, PolicyHealthEntry
<1> HIDE DEF score, q
<1>4. /\ q \in PolicyHealthEntry /\ q.route = p.route /\ q.suspicion = score
      /\ q.state = StateForScore(score) /\ q.last_failure = t
  BY <1>1, <1>2, <1>3, EntryUpdate, EntryFields
<1>5. LabelFits(q)
  BY <1>1, <1>4 DEF LabelFits, POLICY_FAILURE_SCORE, StateForScore, Instant, None
<1> QED
  BY <1>4, <1>5 DEF q

(* The loop of PolicyHealth::decay stops: the count it is modelled by       *)
(* exists, because a score is at most four; and it counts whole intervals.  *)
LEMMA DecayCount ==
  ASSUME NEW p \in PolicyHealthEntry, NEW t \in Instant
  PROVE  /\ DecaySteps(p, t) \in 0..p.suspicion
         /\ DecaySteps(p, t) > 0 =>
              t - p.last_failure >= DecaySteps(p, t) * POLICY_FAILURE_DECAY_INTERVAL
         /\ \/ DecaySteps(p, t) = p.suspicion
            \/ t - p.last_failure < (DecaySteps(p, t) + 1) * POLICY_FAILURE_DECAY_INTERVAL
<1> DEFINE D == POLICY_FAILURE_DECAY_INTERVAL
           d == t - p.last_failure
           Stop(k) == /\ k > 0 => d >= k * D
                      /\ k = p.suspicion \/ d < (k + 1) * D
<1>1. D \in Nat /\ D > 0 /\ d \in Int /\ p.suspicion \in 0..4
  BY IntervalAssumption DEF PolicyHealthEntry, MaybeInstant, Instant, POLICY_FAILURE_SCORE
<1>2. \E k \in 0..p.suspicion : Stop(k)
  <2>1. CASE p.suspicion = 0 \/ d < D
    <3>1. Stop(0)
      BY <1>1, <2>1
    <3> QED
      BY <3>1, <1>1
  <2>2. CASE p.suspicion >= 1 /\ d >= D /\ (p.suspicion = 1 \/ d < 2 * D)
    <3>1. Stop(1)
      BY <1>1, <2>2
    <3> QED
      BY <3>1, <1>1, <2>2
  <2>3. CASE p.suspicion >= 2 /\ d >= 2 * D /\ (p.suspicion = 2 \/ d < 3 * D)
    <3>1. Stop(2)
      BY <1>1, <2>3
    <3> QED
      BY <3>1, <1>1, <2>3
  <2>4. CASE p.suspicion >= 3 /\ d >= 3 * D /\ (p.suspicion = 3 \/ d < 4 * D)
    <3>1. Stop(3)
      BY <1>1, <2>4
    <3> QED
      BY <3>1, <1>1, <2>4
  <2>5. CASE p.suspicion = 4 /\ d >= 4 * D
    <3>1. Stop(4)
      BY <1>1, <2>5
    <3> QED
      BY <3>1, <1>1, <2>5
  <2> QED
    BY <1>1, <2>1, <2>2, <2>3, <2>4, <2>5
<1>3. DecaySteps(p, t) = CHOOSE k \in 0..p.suspicion : Stop(k)
  BY DEF DecaySteps
<1> HIDE DEF Stop
<1>4. DecaySteps(p, t) \in 0..p.suspicion /\ Stop(DecaySteps(p, t))
  BY <1>2, <1>3
<1> QED
  BY <1>4 DEF Stop

(* decay keeps an entry well typed, its route, and the agreement of its     *)
(* label with its score.                                                    *)
LEMMA DecayFits ==
  ASSUME NEW p \in PolicyHealthEntry, NEW t \in Instant, LabelFits(p)
  PROVE  /\ decay(p, t) \in PolicyHealthEntry
         /\ decay(p, t).route = p.route
         /\ LabelFits(decay(p, t))
<1>1. CASE p.last_failure = None \/ p.suspicion = 0
  BY <1>1 DEF decay
<1>2. CASE ~(p.last_failure = None \/ p.suspicion = 0)
  <2> DEFINE steps == DecaySteps(p, t)
             age == steps * POLICY_FAILURE_DECAY_INTERVAL
  <2>1. steps \in 0..p.suspicion
    BY DecayCount
  <2>2. p.suspicion \in 0..4 /\ p.last_failure \in Nat
    BY DEF PolicyHealthEntry, POLICY_FAILURE_SCORE, MaybeInstant
  <2>3. steps \in Nat
    BY <2>1, <2>2
  <2>4. age \in Nat
    BY <2>3, IntervalAssumption
  <2> DEFINE q == decay(p, t)
  <2>5. CASE p.suspicion - steps = 0
    <3>1. 0 \in 0..POLICY_FAILURE_SCORE /\ None \in MaybeInstant /\ "Unknown" \in PolicyState
      BY DEF POLICY_FAILURE_SCORE, None, MaybeInstant, PolicyState
    <3>2. q = Updated(p, 0, p.last_success, None, "Unknown")
      BY <1>2, <2>5 DEF Updated, decay, PolicyHealthEntry
    <3> HIDE DEF q
    <3>3. /\ q \in PolicyHealthEntry /\ q.route = p.route /\ q.suspicion = 0
          /\ q.state = "Unknown"
      BY <3>1, <3>2, EntryUpdate, EntryFields
    <3>4. LabelFits(q)
      BY <3>3 DEF LabelFits, POLICY_FAILURE_SCORE
    <3> QED
      BY <3>3, <3>4 DEF q
  <2>6. CASE p.suspicion - steps # 0
    <3> DEFINE score == p.suspicion - steps
    <3> HIDE DEF steps, age
    <3>1. q = Updated(p, score, p.last_success, p.last_failure + age, StateForScore(score))
      BY <1>2, <2>6 DEF Updated, decay, steps, age, PolicyHealthEntry
    <3>2. score \in 1..4 /\ score \in 0..POLICY_FAILURE_SCORE
      BY <2>1, <2>2, <2>6 DEF POLICY_FAILURE_SCORE
    <3>3. StateForScore(score) \in PolicyState /\ p.last_failure + age \in MaybeInstant
      BY <2>2, <2>4 DEF StateForScore, PolicyState, MaybeInstant
    <3>4. p.last_failure + age # None
      BY <1>2, <2>2, <2>4 DEF None
    <3> HIDE DEF q, score
    <3>5. /\ q \in PolicyHealthEntry /\ q.route = p.route /\ q.suspicion = score
          /\ q.state = StateForScore(score) /\ q.last_failure = p.last_failure + age
      BY <3>1, <3>2, <3>3, EntryUpdate, EntryFields
    <3>6. LabelFits(q)
      BY <3>2, <3>4, <3>5 DEF LabelFits, StateForScore, POLICY_FAILURE_SCORE
    <3> QED
      BY <3>5, <3>6 DEF q
  <2> QED
    BY <2>5, <2>6
<1> QED
  BY <1>1, <1>2
-----------------------------------------------------------------------------
(* Sequences and choices. *)

(* A function on 1..n is a sequence of length n.                            *)
LEMMA FunctionIsSeq ==
  ASSUME NEW S, NEW n \in Nat, NEW f \in [1..n -> S]
  PROVE  f \in Seq(S) /\ Len(f) = n /\ DOMAIN f = 1..n
OBVIOUS

(* A non-empty set of naturals has a least element, so the CHOOSE of        *)
(* `min_by_key` is never arbitrary.                                         *)
LEMMA LeastNatural ==
  ASSUME NEW T, T \subseteq Nat, T # {}
  PROVE  \E x \in T : \A y \in T : x <= y
<1> DEFINE Less == {ss \in Nat \X Nat : ss[1] < ss[2]}
<1>1. IsWellFoundedOn(Less, Nat)
  BY NatLessThanWellFounded DEF OpToRel
<1> HIDE DEF Less
<1>2. \E x \in T : \A y \in T : ~(<<y, x>> \in Less)
  BY <1>1, WFMin
<1>3. \A x, y \in Nat : <<y, x>> \notin Less => x <= y
  BY DEF Less
<1> QED
  BY <1>2, <1>3

(* The types of a PeerHealth's fields, in the form the provers use them.    *)
LEMMA HealthFields ==
  ASSUME NEW h \in Health
  PROVE  /\ h.active_policy \in Nat /\ h.active_policy >= 1
         /\ h.last_switch \in Instant /\ h.switch_count \in Nat
         /\ h.last_inbound_at \in MaybeInstant
         /\ h.consecutive_peer_failures \in 0..U8_MAX
         /\ h.policy_health \in Seq(PolicyHealthEntry)
         /\ Len(h.policy_health) \in Nat
         /\ DOMAIN h.policy_health = 1..Len(h.policy_health)
         /\ \A i \in 1..Len(h.policy_health) : h.policy_health[i] \in PolicyHealthEntry
         /\ h.recovery_fallback \in Nat /\ h.jitter \in Nat
         /\ h.jitter \in 0..MAX_HEALTH_JITTER
         /\ h.next_recovery_attempt_at \in Instant
BY IntervalAssumption DEF Health

(* The failure streak is an 8-bit number.                                   *)
LEMMA StreakBounds ==
  ASSUME NEW h \in Health
  PROVE  /\ h.consecutive_peer_failures \in Int
         /\ h.consecutive_peer_failures >= 0
         /\ h.consecutive_peer_failures <= 255
<1> DEFINE c == h.consecutive_peer_failures
<1>1. c \in 0..U8_MAX
  BY DEF Health
<1> HIDE DEF c
<1>2. c \in Int /\ c >= 0 /\ c <= 255
  BY <1>1 DEF U8_MAX
<1> QED
  BY <1>2 DEF c

(* The minimum of best_failover_policy and best_recovery_policy exists. *)
LEMMA PreferredIsCandidate ==
  ASSUME NEW h \in Health, NEW C, C # {}, C \subseteq 1..Len(h.policy_health)
  PROVE  Preferred(h, C) \in C
<1> DEFINE susp(i) == h.policy_health[i].suspicion
           Scores == {susp(i) : i \in C}
<1>1. \A i \in C : susp(i) \in Nat /\ i \in Nat
  <2> TAKE i \in C
  <2>1. i \in 1..Len(h.policy_health) /\ h.policy_health[i] \in PolicyHealthEntry
    BY HealthFields
  <2>2. susp(i) \in 0..4
    BY <2>1, EntryFields
  <2> QED
    BY <2>1, <2>2, HealthFields
<1>2. Scores \subseteq Nat /\ Scores # {}
  BY <1>1
<1>3. PICK m \in Scores : \A y \in Scores : m <= y
  BY <1>2, LeastNatural
<1> DEFINE Lowest == {i \in C : susp(i) = m}
<1>4. Lowest \subseteq Nat /\ Lowest # {}
  BY <1>1, <1>3
<1>5. PICK l \in Lowest : \A y \in Lowest : l <= y
  BY <1>4, LeastNatural
<1>6. \A j \in C : susp(l) < susp(j) \/ (susp(l) = susp(j) /\ l <= j)
  <2> TAKE j \in C
  <2>1. l \in C /\ susp(l) = m /\ susp(j) \in Scores
    BY <1>5
  <2>2. m <= susp(j) /\ m \in Nat /\ susp(j) \in Nat
    BY <1>1, <1>2, <1>3, <2>1
  <2>3. susp(j) = m => l <= j
    BY <1>5
  <2> HIDE DEF susp
  <2> QED
    BY <2>1, <2>2, <2>3
<1> DEFINE Least(i) == \A j \in C : susp(i) < susp(j) \/ (susp(i) = susp(j) /\ i <= j)
<1>7. Preferred(h, C) = CHOOSE i \in C : Least(i)
  BY Zenon DEF Preferred
<1>8. \E i \in C : Least(i)
  BY <1>5, <1>6
<1> HIDE DEF Least
<1> QED
  BY <1>7, <1>8
-----------------------------------------------------------------------------
(* The health record follows its policy list through every method. *)

(* What sync_policies needs of the record it starts from. *)
Sound(h) ==
  /\ h \in Health
  /\ \A i \in 1..Len(h.policy_health) : LabelFits(h.policy_health[i])
  /\ \A i, j \in 1..Len(h.policy_health) :
       h.policy_health[i].route = h.policy_health[j].route => i = j

(* A PeerHealth that fits a good route list is sound on its own.            *)
LEMMA FittingIsSound ==
  ASSUME NEW rts, GoodList(rts), NEW h, FitsRoutes(h, rts)
  PROVE  Sound(h)
BY DEF GoodList, FitsRoutes, Sound

(* The instants and counters that only switching and sampling touch. *)
SameClock(h, g) ==
  /\ g.last_switch = h.last_switch
  /\ g.last_inbound_at = h.last_inbound_at
  /\ g.switch_count = h.switch_count
  /\ g.jitter = h.jitter

(* sync_policies gives each route its old entry or a new one; either is     *)
(* well typed, on that route, and fits its label.                           *)
LEMMA EntryForFits ==
  ASSUME NEW h, Sound(h), NEW r \in RouteKey
  PROVE  /\ EntryFor(h, r) \in PolicyHealthEntry
         /\ EntryFor(h, r).route = r
         /\ LabelFits(EntryFor(h, r))
<1> DEFINE at == {i \in DOMAIN h.policy_health : h.policy_health[i].route = r}
           First(i) == \A j \in at : i <= j
<1>1. h \in Health /\ at \subseteq 1..Len(h.policy_health)
  BY HealthFields DEF Sound
<1>2. CASE at = {}
  <2>1. EntryFor(h, r) = NewEntry(r)
    BY <1>2 DEF EntryFor
  <2> QED
    BY <2>1, NewEntryFits
<1>3. CASE at # {}
  <2>1. PICK i \in at : TRUE
    BY <1>3
  <2>2. \A j \in at : j = i
    BY <1>1, <2>1 DEF Sound
  <2>3. First(i)
    BY <1>1, <2>1, <2>2
  <2>4. EntryFor(h, r) = h.policy_health[CHOOSE k \in at : First(k)]
    BY <1>3, Zenon DEF EntryFor
  <2> HIDE DEF First
  <2>5. (CHOOSE k \in at : First(k)) = i
    BY <2>1, <2>2, <2>3
  <2>6. h.policy_health[i] \in PolicyHealthEntry /\ LabelFits(h.policy_health[i])
    BY <1>1, <2>1, HealthFields DEF Sound
  <2> QED
    BY <2>1, <2>4, <2>5, <2>6
<1> QED
  BY <1>2, <1>3

(* sync_policies makes any sound PeerHealth fit the new route list, and     *)
(* touches neither the clocks nor the streak.                               *)
LEMMA SyncFits ==
  ASSUME NEW h, Sound(h), NEW rts, GoodList(rts), NEW a \in Nat \ {0}
  PROVE  /\ FitsRoutes(sync_policies(h, a, rts), rts)
         /\ SameClock(h, sync_policies(h, a, rts))
         /\ sync_policies(h, a, rts).consecutive_peer_failures = h.consecutive_peer_failures
         /\ sync_policies(h, a, rts).has_observed_stats = h.has_observed_stats
<1> DEFINE n == Len(rts)
           ph == [i \in 1..n |-> EntryFor(h, rts[i])]
           ap == AtMost(a, n)
           rf == IF h.recovery_fallback > n THEN None ELSE h.recovery_fallback
           g == sync_policies(h, a, rts)
<1>1. h \in Health /\ n \in Nat /\ n >= 1 /\ \A i \in 1..n : rts[i] \in RouteKey
  BY DEF GoodList, Sound
<1>2. ph \in [1..n -> PolicyHealthEntry]
  BY <1>1, EntryForFits
<1>3. ph \in Seq(PolicyHealthEntry) /\ Len(ph) = n
  BY <1>1, <1>2, FunctionIsSeq
<1>4. ap \in Nat \ {0} /\ ap <= n
  BY <1>1 DEF AtMost
<1>5. rf \in Nat /\ rf <= n
  BY <1>1, HealthFields DEF None
<1>6. \A i \in 1..n : ph[i].route = rts[i] /\ LabelFits(ph[i])
  BY <1>1, EntryForFits
<1>7. g = [h EXCEPT !.policy_health = ph, !.active_policy = ap, !.recovery_fallback = rf]
  BY DEF sync_policies
<1> HIDE DEF ph, ap, rf, g
<1>8. /\ g \in Health /\ g.policy_health = ph /\ g.active_policy = ap
      /\ g.recovery_fallback = rf /\ SameClock(h, g)
      /\ g.consecutive_peer_failures = h.consecutive_peer_failures
      /\ g.has_observed_stats = h.has_observed_stats
  BY <1>1, <1>3, <1>4, <1>5, <1>7 DEF Health, SameClock
<1>9. FitsRoutes(g, rts)
  BY <1>3, <1>4, <1>5, <1>6, <1>8 DEF FitsRoutes
<1> QED
  BY <1>8, <1>9 DEF g

(* schedule_next_recovery_attempt moves only the time of the next probe.    *)
LEMMA ScheduleFits ==
  ASSUME NEW rts, NEW h, FitsRoutes(h, rts), NEW t \in Instant
  PROVE  /\ FitsRoutes(schedule_next_recovery_attempt(h, t), rts)
         /\ SameClock(h, schedule_next_recovery_attempt(h, t))
         /\ schedule_next_recovery_attempt(h, t).consecutive_peer_failures
              = h.consecutive_peer_failures
         /\ schedule_next_recovery_attempt(h, t).active_policy = h.active_policy
<1> DEFINE due == t + RECOVERY_PROBE_INTERVAL + h.jitter
           g == schedule_next_recovery_attempt(h, t)
<1>1. h \in Health
  BY DEF FitsRoutes
<1>2. due \in Instant
  BY <1>1, HealthFields, IntervalAssumption DEF Instant
<1>3. g = [h EXCEPT !.next_recovery_attempt_at = due]
  BY DEF schedule_next_recovery_attempt
<1> HIDE DEF due, g
<1>4. /\ g \in Health /\ g.policy_health = h.policy_health
      /\ g.active_policy = h.active_policy
      /\ g.recovery_fallback = h.recovery_fallback /\ SameClock(h, g)
      /\ g.consecutive_peer_failures = h.consecutive_peer_failures
  BY <1>1, <1>2, <1>3 DEF Health, SameClock
<1>5. FitsRoutes(g, rts)
  BY <1>4 DEF FitsRoutes
<1> QED
  BY <1>4, <1>5 DEF g

(* A switch at t restarts both clocks. *)
Restarted(g, t) == g.last_switch = t /\ g.last_inbound_at = None /\ g.switch_count >= 1

(* switch_to keeps the PeerHealth fitting its routes and restarts the       *)
(* silence and switch clocks at t.                                          *)
LEMMA SwitchFits ==
  ASSUME NEW rts, NEW h, FitsRoutes(h, rts), NEW t \in Instant,
         NEW policy \in 1..Len(rts), NEW probe
  PROVE  /\ FitsRoutes(switch_to(h, policy, t, probe), rts)
         /\ Restarted(switch_to(h, policy, t, probe), t)
         /\ switch_to(h, policy, t, probe).consecutive_peer_failures
              = h.consecutive_peer_failures
<1> DEFINE run == IF t - h.last_switch >= SWITCH_BACKOFF_RESET_INTERVAL
                  THEN 0 ELSE h.switch_count
           cnt == run + 1
           rf == IF probe THEN h.active_policy ELSE None
           moved == [h EXCEPT !.switch_count = cnt, !.active_policy = policy,
                              !.last_switch = t, !.last_inbound_at = None,
                              !.recovery_fallback = rf]
<1>1. h \in Health
  BY DEF FitsRoutes
<1>2. cnt \in Nat /\ cnt >= 1
  BY <1>1, HealthFields
<1>3. rf \in Nat /\ rf <= Len(rts)
  BY <1>1, HealthFields DEF FitsRoutes, None
<1>4. policy \in Nat \ {0} /\ policy <= Len(rts) /\ None \in MaybeInstant
  BY <1>1, HealthFields DEF FitsRoutes, None, MaybeInstant
<1>5. switch_to(h, policy, t, probe) = schedule_next_recovery_attempt(moved, t)
  BY DEF switch_to
<1> HIDE DEF cnt, rf
<1>6. /\ moved \in Health /\ moved.policy_health = h.policy_health
      /\ moved.active_policy = policy /\ moved.recovery_fallback = rf
      /\ moved.last_switch = t /\ moved.last_inbound_at = None
      /\ moved.switch_count = cnt
      /\ moved.consecutive_peer_failures = h.consecutive_peer_failures
  BY <1>1, <1>2, <1>3, <1>4 DEF Health
<1> HIDE DEF moved
<1>7. FitsRoutes(moved, rts)
  BY <1>3, <1>4, <1>6 DEF FitsRoutes
<1> QED
  BY <1>2, <1>5, <1>6, <1>7, ScheduleFits DEF Restarted, SameClock

(* Decaying every entry moves neither the active route nor the clocks nor   *)
(* the streak.                                                              *)
LEMMA DecayAllFits ==
  ASSUME NEW rts, NEW h, FitsRoutes(h, rts), NEW t \in Instant
  PROVE  /\ FitsRoutes(DecayAll(h, t), rts)
         /\ SameClock(h, DecayAll(h, t))
         /\ DecayAll(h, t).consecutive_peer_failures = h.consecutive_peer_failures
         /\ DecayAll(h, t).active_policy = h.active_policy
<1> DEFINE n == Len(h.policy_health)
           ph == [i \in 1..n |-> decay(h.policy_health[i], t)]
           g == DecayAll(h, t)
<1>1. h \in Health /\ n \in Nat /\ n = Len(rts) /\ DOMAIN h.policy_health = 1..n
  BY HealthFields DEF FitsRoutes
<1>2. \A i \in 1..n : /\ decay(h.policy_health[i], t) \in PolicyHealthEntry
                      /\ decay(h.policy_health[i], t).route = rts[i]
                      /\ LabelFits(decay(h.policy_health[i], t))
  BY <1>1, HealthFields, DecayFits DEF FitsRoutes
<1>3. ph \in Seq(PolicyHealthEntry) /\ Len(ph) = n
  BY <1>1, <1>2, FunctionIsSeq
<1>4. g = [h EXCEPT !.policy_health = ph]
  BY <1>1 DEF DecayAll
<1>5. \A i \in 1..n : ph[i].route = rts[i] /\ LabelFits(ph[i])
  BY <1>2
<1> HIDE DEF ph, g
<1>6. /\ g \in Health /\ g.policy_health = ph /\ g.active_policy = h.active_policy
      /\ g.recovery_fallback = h.recovery_fallback /\ SameClock(h, g)
      /\ g.consecutive_peer_failures = h.consecutive_peer_failures
  BY <1>1, <1>3, <1>4 DEF Health, SameClock
<1>7. FitsRoutes(g, rts)
  BY <1>1, <1>3, <1>5, <1>6 DEF FitsRoutes
<1> QED
  BY <1>6, <1>7 DEF g

(* One entry is replaced by another that fits. *)
Replaced(h, k, e, lv, f) ==
  [h EXCEPT !.policy_health[k] = e, !.liveness = lv, !.consecutive_peer_failures = f]

(* Replacing the active route's entry, the liveness and the streak keeps    *)
(* the rest.                                                                *)
LEMMA ReplaceEntryFits ==
  ASSUME NEW rts, NEW h, FitsRoutes(h, rts), NEW k \in 1..Len(rts),
         NEW e \in PolicyHealthEntry, e.route = rts[k], LabelFits(e),
         NEW lv \in Liveness, NEW f \in 0..U8_MAX
  PROVE  /\ FitsRoutes(Replaced(h, k, e, lv, f), rts)
         /\ SameClock(h, Replaced(h, k, e, lv, f))
         /\ Replaced(h, k, e, lv, f).consecutive_peer_failures = f
         /\ Replaced(h, k, e, lv, f).active_policy = h.active_policy
<1> DEFINE ph == [h.policy_health EXCEPT ![k] = e]
           g == Replaced(h, k, e, lv, f)
<1>1. h \in Health /\ Len(h.policy_health) = Len(rts)
  BY DEF FitsRoutes
<1>2. h.policy_health \in Seq(PolicyHealthEntry)
  BY <1>1, HealthFields
<1>3. /\ ph \in Seq(PolicyHealthEntry) /\ Len(ph) = Len(rts)
      /\ \A j \in 1..Len(rts) : ph[j] = IF j = k THEN e ELSE h.policy_health[j]
  BY <1>1, <1>2, ExceptSeq
<1>4. g = [h EXCEPT !.policy_health = ph, !.liveness = lv,
                    !.consecutive_peer_failures = f]
  BY <1>1 DEF Health, Replaced
<1> HIDE DEF ph, g
<1>5. /\ g \in Health /\ g.policy_health = ph /\ g.active_policy = h.active_policy
      /\ g.recovery_fallback = h.recovery_fallback /\ SameClock(h, g)
      /\ g.consecutive_peer_failures = f
  BY <1>1, <1>3, <1>4 DEF Health, SameClock
<1>6. FitsRoutes(g, rts)
  BY <1>1, <1>3, <1>5 DEF FitsRoutes
<1> QED
  BY <1>5, <1>6 DEF g

(* record_sample keeps the PeerHealth fitting its routes, and only an       *)
(* Unhealthy sample lengthens the streak.                                   *)
LEMMA RecordSampleFits ==
  ASSUME NEW rts, NEW h, FitsRoutes(h, rts), NEW t \in Instant,
         NEW k \in 1..Len(rts), NEW sample \in {"Healthy", "Unhealthy", "Idle"}
  PROVE  /\ FitsRoutes(record_sample(h, k, sample, t), rts)
         /\ SameClock(h, record_sample(h, k, sample, t))
         /\ record_sample(h, k, sample, t).active_policy = h.active_policy
         /\ sample # "Unhealthy" =>
              record_sample(h, k, sample, t).consecutive_peer_failures
                <= h.consecutive_peer_failures
<1> DEFINE e == h.policy_health[k]
           after == record_sample(h, k, sample, t)
<1>1. /\ h \in Health /\ e \in PolicyHealthEntry /\ e.route = rts[k] /\ LabelFits(e)
  BY HealthFields DEF FitsRoutes
<1>2. /\ h.consecutive_peer_failures \in Int /\ h.consecutive_peer_failures >= 0
      /\ h.consecutive_peer_failures <= 255
  BY <1>1, StreakBounds
<1>2a. h.liveness \in Liveness
  BY <1>1 DEF Health
<1>3. CASE sample = "Healthy"
  <2> DEFINE g == Replaced(h, k, record_success(e, t), "Reachable", 0)
  <2>1. "Reachable" \in Liveness /\ 0 \in 0..U8_MAX
    BY DEF Liveness, U8_MAX
  <2>2. /\ record_success(e, t) \in PolicyHealthEntry
        /\ record_success(e, t).route = rts[k] /\ LabelFits(record_success(e, t))
    BY <1>1, SuccessFits
  <2>3. after = schedule_next_recovery_attempt(g, t)
    BY <1>3 DEF record_sample, Replaced
  <2>4. /\ FitsRoutes(g, rts) /\ SameClock(h, g)
        /\ g.consecutive_peer_failures = 0 /\ g.active_policy = h.active_policy
    BY <2>1, <2>2, ReplaceEntryFits
  <2> HIDE DEF g, after
  <2>5. /\ FitsRoutes(after, rts) /\ SameClock(g, after)
        /\ after.consecutive_peer_failures = 0 /\ after.active_policy = h.active_policy
    BY <2>3, <2>4, ScheduleFits
  <2>6. SameClock(h, after)
    BY <2>4, <2>5 DEF SameClock
  <2>7. after.consecutive_peer_failures <= h.consecutive_peer_failures
    BY <1>2, <2>5
  <2> QED
    BY <2>5, <2>6, <2>7 DEF after
<1>4. CASE sample = "Unhealthy"
  <2> DEFINE f == AtMost(h.consecutive_peer_failures + 1, U8_MAX)
             g == Replaced(h, k, record_failure(e, t), h.liveness, f)
  <2> DEFINE c == h.consecutive_peer_failures
  <2>0. f = IF c + 1 <= 255 THEN c + 1 ELSE 255
    BY DEF AtMost, U8_MAX
  <2>1. f \in 0..U8_MAX
    <3> HIDE DEF c, f
    <3>1. c \in Int /\ c >= 0
      BY <1>2 DEF c
    <3> QED
      BY <2>0, <3>1 DEF U8_MAX
  <2>2. /\ record_failure(e, t) \in PolicyHealthEntry
        /\ record_failure(e, t).route = rts[k] /\ LabelFits(record_failure(e, t))
    <3> HIDE DEF e
    <3> QED
      BY <1>1, FailureFits
  <2>3. after = g
    BY <1>1, <1>4 DEF record_sample, Replaced, Health
  <2> HIDE DEF f
  <2>4. FitsRoutes(g, rts) /\ SameClock(h, g) /\ g.active_policy = h.active_policy
    BY <1>2a, <2>1, <2>2, ReplaceEntryFits
  <2> QED
    BY <1>4, <2>3, <2>4
<1>5. CASE sample = "Idle"
  <2>1. after = h
    BY <1>5 DEF record_sample
  <2> HIDE DEF after
  <2>2. SameClock(h, after)
    BY <2>1 DEF SameClock
  <2>3. after.consecutive_peer_failures <= h.consecutive_peer_failures
    BY <1>2, <2>1
  <2> QED
    BY <2>1, <2>2, <2>3 DEF after
<1> QED
  BY <1>3, <1>4, <1>5
-----------------------------------------------------------------------------
(* Decisions. *)

Decision == [kind : DecisionKind, next_policy : Nat]

(* What every decision makes of the record it is given: the record still    *)
(* fits, the failure streak is untouched, and either both clocks stand or a *)
(* switch restarted them; a failover switched, and the cooldown was over.   *)
Outcome(h, res, t, rts) ==
  /\ FitsRoutes(res.health, rts)
  /\ res.decision \in Decision
  /\ res.health.consecutive_peer_failures = h.consecutive_peer_failures
  /\ SameClock(h, res.health) \/ Restarted(res.health, t)

(* A decision to stay is an outcome: nothing moves.                         *)
LEMMA StayOutcome ==
  ASSUME NEW rts, NEW h, FitsRoutes(h, rts), NEW t \in Instant, NEW kind \in DecisionKind
  PROVE  Outcome(h, Decide(h, kind), t, rts)
BY DEF Outcome, Decide, Decision, SameClock, None

(* A decision to switch is an outcome: it names a route of the list, and    *)
(* the clocks restart.                                                      *)
LEMMA SwitchOutcome ==
  ASSUME NEW rts, NEW h, FitsRoutes(h, rts), NEW t \in Instant,
         NEW policy \in 1..Len(rts), NEW probe, NEW reason \in SwitchReason
  PROVE  /\ Outcome(h, DecideSwitch(switch_to(h, policy, t, probe), policy, reason), t, rts)
         /\ DecideSwitch(switch_to(h, policy, t, probe), policy, reason).decision.kind = reason
         /\ Restarted(DecideSwitch(switch_to(h, policy, t, probe), policy, reason).health, t)
<1>1. reason \in DecisionKind
  BY DEF DecisionKind
<1>2. policy \in Nat
  BY HealthFields DEF FitsRoutes
<1>3. [kind |-> reason, next_policy |-> policy] \in Decision
  BY <1>1, <1>2 DEF Decision
<1> QED
  BY <1>3, SwitchFits DEF Outcome, DecideSwitch

(* A probe that is decided on is a switch; its kind is never Failover. *)
LEMMA ProbeOutcome ==
  ASSUME NEW rts, NEW h, FitsRoutes(h, rts), NEW t \in Instant,
         NEW k \in 1..Len(rts), NEW s \in BOOLEAN, NEW due \in BOOLEAN
  PROVE  /\ Outcome(h, decide_recovery_probe(h, k, s, due, t), t, rts)
         /\ decide_recovery_probe(h, k, s, due, t).decision.kind \in {"Stay", "RecoveryProbe"}
<1> DEFINE C == RecoveryCandidates(h, k)
           next == Preferred(h, C)
<1>1. h \in Health /\ Len(h.policy_health) = Len(rts) /\ Len(rts) \in Nat
  BY HealthFields DEF FitsRoutes
<1>2. C \subseteq 1..Len(h.policy_health)
  BY <1>1 DEF RecoveryCandidates
<1>3. CASE s /\ due /\ C # {}
  <2>1. next \in 1..Len(rts)
    BY <1>1, <1>2, <1>3, PreferredIsCandidate
  <2>2. decide_recovery_probe(h, k, s, due, t)
          = DecideSwitch(switch_to(h, next, t, TRUE), next, "RecoveryProbe")
    BY <1>3 DEF decide_recovery_probe
  <2>3. "RecoveryProbe" \in SwitchReason
    BY DEF SwitchReason
  <2> DEFINE res == DecideSwitch(switch_to(h, next, t, TRUE), next, "RecoveryProbe")
  <2> HIDE DEF next
  <2>4. \A probe : LET r == DecideSwitch(switch_to(h, next, t, probe), next, "RecoveryProbe")
                   IN  Outcome(h, r, t, rts) /\ r.decision.kind = "RecoveryProbe"
    BY <2>1, <2>3, SwitchOutcome
  <2>5. Outcome(h, res, t, rts) /\ res.decision.kind = "RecoveryProbe"
    BY <2>4, Zenon
  <2> QED
    BY <2>2, <2>5
<1>4. CASE ~(s /\ due /\ C # {})
  <2>1. decide_recovery_probe(h, k, s, due, t) = Decide(h, "Stay")
    BY <1>4 DEF decide_recovery_probe
  <2>2. "Stay" \in DecisionKind
    BY DEF DecisionKind
  <2> QED
    BY <2>1, <2>2, StayOutcome DEF Decide
<1> QED
  BY <1>3, <1>4

(* decide_failover stays or moves to a route of the list; when it moves the *)
(* clocks restart.                                                          *)
LEMMA FailoverOutcome ==
  ASSUME NEW rts, NEW h, FitsRoutes(h, rts), NEW t \in Instant, NEW k \in 1..Len(rts)
  PROVE  /\ Outcome(h, decide_failover(h, k, t), t, rts)
         /\ decide_failover(h, k, t).decision.kind = "Failover" =>
              Restarted(decide_failover(h, k, t).health, t)
<1> DEFINE C == FailoverCandidates(h, k)
           next == Preferred(h, C)
           res == decide_failover(h, k, t)
<1>1. h \in Health /\ Len(h.policy_health) = Len(rts)
      /\ DOMAIN h.policy_health = 1..Len(h.policy_health)
  BY HealthFields DEF FitsRoutes
<1>2. C \subseteq 1..Len(h.policy_health)
  BY <1>1 DEF FailoverCandidates
<1>3. CASE C # {}
  <2> DEFINE sw == DecideSwitch(switch_to(h, next, t, FALSE), next, "Failover")
  <2>1. next \in 1..Len(rts)
    BY <1>1, <1>2, <1>3, PreferredIsCandidate
  <2>2. res = sw
    BY <1>3 DEF decide_failover
  <2>3. "Failover" \in SwitchReason
    BY DEF SwitchReason
  <2> HIDE DEF next, res
  <2>4. Outcome(h, sw, t, rts) /\ Restarted(sw.health, t)
    BY <2>1, <2>3, SwitchOutcome, Zenon
  <2> QED
    BY <2>2, <2>4 DEF res
<1>4. CASE C = {} /\ ~has_any_route_success(h) /\ h.consecutive_peer_failures > 2
  <2> DEFINE g == [h EXCEPT !.liveness = "LikelyInactive"]
  <2>1. "LikelyInactive" \in Liveness /\ "PeerInactive" \in DecisionKind
        /\ "PeerInactive" # "Failover"
    BY DEF Liveness, DecisionKind
  <2>2. res = Decide(g, "PeerInactive")
    BY <1>4 DEF decide_failover
  <2>3. /\ g \in Health /\ g.policy_health = h.policy_health /\ SameClock(h, g)
        /\ g.active_policy = h.active_policy /\ g.recovery_fallback = h.recovery_fallback
        /\ g.consecutive_peer_failures = h.consecutive_peer_failures
    BY <1>1, <2>1 DEF Health, SameClock
  <2> HIDE DEF g, res
  <2>4. FitsRoutes(g, rts)
    BY <2>3 DEF FitsRoutes
  <2>5. Outcome(g, res, t, rts) /\ res.health = g /\ res.decision.kind = "PeerInactive"
    BY <2>1, <2>2, <2>4, StayOutcome DEF Decide
  <2>6. Outcome(h, res, t, rts)
    BY <2>3, <2>5 DEF Outcome
  <2> QED
    BY <2>1, <2>5, <2>6 DEF res
<1>5. CASE C = {} /\ ~(~has_any_route_success(h) /\ h.consecutive_peer_failures > 2)
  <2>1. res = Decide(h, "NoViablePolicy")
    BY <1>5 DEF decide_failover
  <2>2. "NoViablePolicy" \in DecisionKind /\ "NoViablePolicy" # "Failover"
    BY DEF DecisionKind
  <2> HIDE DEF res
  <2>3. Outcome(h, res, t, rts) /\ res.decision.kind = "NoViablePolicy"
    BY <2>1, <2>2, StayOutcome DEF Decide
  <2> QED
    BY <2>2, <2>3 DEF res
<1> QED
  BY <1>3, <1>4, <1>5

(* After an unhealthy sample: a failover is decided only once the cooldown  *)
(* of the record at hand is over.                                           *)
LEMMA UnhealthyOutcome ==
  ASSUME NEW rts, NEW h, FitsRoutes(h, rts), NEW t \in Instant,
         NEW k \in 1..Len(rts), NEW s \in BOOLEAN, NEW due \in BOOLEAN
  PROVE  /\ Outcome(h, decide_after_unhealthy(h, k, s, due, t), t, rts)
         /\ decide_after_unhealthy(h, k, s, due, t).decision.kind = "Failover" =>
              /\ Restarted(decide_after_unhealthy(h, k, s, due, t).health, t)
              /\ cooldown_elapsed(h, t)
<1> DEFINE taken == [h EXCEPT !.recovery_fallback = None]
           fallback == h.recovery_fallback
           probe == decide_recovery_probe(taken, k, s, due, t)
           home == fallback # None /\ fallback <= Len(h.policy_health) /\ fallback # k
           res == decide_after_unhealthy(h, k, s, due, t)
<1>1. h \in Health /\ Len(h.policy_health) = Len(rts) /\ None \in Nat /\ 0 <= Len(rts)
      /\ Len(rts) \in Nat
  BY HealthFields DEF FitsRoutes, None
<1>2. /\ taken \in Health /\ taken.policy_health = h.policy_health /\ SameClock(h, taken)
      /\ taken.active_policy = h.active_policy /\ taken.recovery_fallback = None
      /\ taken.consecutive_peer_failures = h.consecutive_peer_failures
      /\ taken.jitter = h.jitter
  BY <1>1 DEF Health, SameClock
<1>3. res = IF home
            THEN DecideSwitch(switch_to(taken, fallback, t, FALSE), fallback, "RecoveryFailed")
            ELSE IF ~cooldown_elapsed(taken, t) THEN Decide(taken, "Stay")
            ELSE IF probe.decision.kind # "Stay" THEN probe
            ELSE IF is_failed(taken.policy_health[k]) THEN decide_failover(taken, k, t)
            ELSE Decide(taken, "Stay")
  BY Zenon DEF decide_after_unhealthy
<1>4. cooldown_elapsed(taken, t) = cooldown_elapsed(h, t)
  BY <1>2 DEF cooldown_elapsed, current_switch_cooldown, SameClock
<1> HIDE DEF taken, res, probe
<1>5. FitsRoutes(taken, rts)
  BY <1>1, <1>2 DEF FitsRoutes, None
<1>6. \A x : Outcome(taken, x, t, rts) => Outcome(h, x, t, rts)
  BY <1>2 DEF Outcome, SameClock
<1>7. "Stay" \in DecisionKind /\ "RecoveryFailed" \in SwitchReason
  BY DEF DecisionKind, SwitchReason
<1>8. CASE home
  <2> DEFINE sw == DecideSwitch(switch_to(taken, fallback, t, FALSE), fallback, "RecoveryFailed")
  <2>1. fallback \in 1..Len(rts)
    BY <1>1, <1>8, HealthFields DEF None
  <2>2. res = sw
    BY <1>3, <1>8
  <2> HIDE DEF fallback
  <2>3. \A b : LET r == DecideSwitch(switch_to(taken, fallback, t, b), fallback, "RecoveryFailed")
               IN  Outcome(taken, r, t, rts) /\ r.decision.kind = "RecoveryFailed"
    BY <1>5, <1>7, <2>1, SwitchOutcome
  <2>4. Outcome(taken, sw, t, rts) /\ sw.decision.kind = "RecoveryFailed"
    BY <2>3, Zenon
  <2> QED
    BY <1>6, <2>2, <2>4 DEF res
<1>9. CASE ~home /\ (~cooldown_elapsed(taken, t) \/ (probe.decision.kind = "Stay"
                        /\ ~is_failed(taken.policy_health[k])))
  <2>1. res = Decide(taken, "Stay")
    BY <1>3, <1>9
  <2>2. Outcome(taken, res, t, rts) /\ res.decision.kind = "Stay"
    BY <1>5, <1>7, <2>1, StayOutcome DEF Decide
  <2> QED
    BY <1>6, <2>2 DEF res
<1>10. CASE ~home /\ cooldown_elapsed(taken, t) /\ probe.decision.kind # "Stay"
  <2>1. res = probe
    BY <1>3, <1>10
  <2>2. Outcome(taken, probe, t, rts) /\ probe.decision.kind \in {"Stay", "RecoveryProbe"}
    BY <1>5, ProbeOutcome DEF probe
  <2> QED
    BY <1>6, <2>1, <2>2 DEF res
<1>11. CASE /\ ~home /\ cooldown_elapsed(taken, t) /\ probe.decision.kind = "Stay"
            /\ is_failed(taken.policy_health[k])
  <2>1. res = decide_failover(taken, k, t)
    BY <1>3, <1>11
  <2>2. Outcome(taken, res, t, rts) /\ (res.decision.kind = "Failover" => Restarted(res.health, t))
    BY <1>5, <2>1, FailoverOutcome
  <2> QED
    BY <1>4, <1>6, <1>11, <2>2 DEF res
<1> QED
  BY <1>8, <1>9, <1>10, <1>11
-----------------------------------------------------------------------------
(* Folding a sample into a record, and what observe guarantees. *)

(* The instant inbound_silence counts from. *)
Anchor(h) == IF h.last_inbound_at # None THEN h.last_inbound_at ELSE h.last_switch

(* What one observation makes of a record: the clocks stand, or inbound     *)
(* traffic moved the first, or a switch restarted both; traffic received is *)
(* never forgotten; the failure streak grows only in silence; a failover    *)
(* switches, and only when the cooldown is over.                            *)
Observation(h, res, r, t, rts) ==
  /\ FitsRoutes(res.health, rts)
  /\ res.decision \in Decision
  /\ \/ SameClock(h, res.health) /\ ~r
     \/ /\ res.health.last_switch = h.last_switch
        /\ res.health.last_inbound_at = t
        /\ res.health.switch_count = h.switch_count
     \/ Restarted(res.health, t)
  /\ res.health.consecutive_peer_failures > h.consecutive_peer_failures =>
       ~r /\ t - Anchor(h) >= INBOUND_SILENCE_TIMEOUT
  /\ res.decision.kind = "Failover" =>
       Restarted(res.health, t) /\ cooldown_elapsed(h, t)

(* Noting inbound traffic moves only the time of the last inbound traffic.  *)
LEMMA HeardFits ==
  ASSUME NEW rts, NEW h, FitsRoutes(h, rts), NEW t \in Instant
  PROVE  LET g == [h EXCEPT !.last_inbound_at = t]
         IN  /\ FitsRoutes(g, rts)
             /\ g.last_inbound_at = t /\ g.last_switch = h.last_switch
             /\ g.switch_count = h.switch_count /\ g.active_policy = h.active_policy
             /\ g.consecutive_peer_failures = h.consecutive_peer_failures
<1> DEFINE g == [h EXCEPT !.last_inbound_at = t]
<1>1. h \in Health /\ t \in MaybeInstant
  BY DEF FitsRoutes, Instant, MaybeInstant
<1>2. /\ g \in Health /\ g.policy_health = h.policy_health
      /\ g.active_policy = h.active_policy /\ g.recovery_fallback = h.recovery_fallback
      /\ g.last_inbound_at = t /\ g.last_switch = h.last_switch
      /\ g.switch_count = h.switch_count
      /\ g.consecutive_peer_failures = h.consecutive_peer_failures
  BY <1>1 DEF Health
<1> HIDE DEF g
<1>3. FitsRoutes(g, rts)
  BY <1>2 DEF FitsRoutes
<1> QED
  BY <1>2, <1>3 DEF g

(* Forgetting the probe's fallback moves nothing else.                      *)
LEMMA ForgetFallbackFits ==
  ASSUME NEW rts, NEW h, FitsRoutes(h, rts)
  PROVE  LET g == [h EXCEPT !.recovery_fallback = None]
         IN  /\ FitsRoutes(g, rts) /\ SameClock(h, g)
             /\ g.consecutive_peer_failures = h.consecutive_peer_failures
<1> DEFINE g == [h EXCEPT !.recovery_fallback = None]
<1>1. h \in Health /\ None \in Nat /\ 0 <= Len(rts)
  BY HealthFields DEF FitsRoutes, None
<1>2. /\ g \in Health /\ g.policy_health = h.policy_health
      /\ g.active_policy = h.active_policy /\ g.recovery_fallback = None
      /\ SameClock(h, g)
      /\ g.consecutive_peer_failures = h.consecutive_peer_failures
  BY <1>1 DEF Health, SameClock
<1> HIDE DEF g
<1>3. FitsRoutes(g, rts)
  BY <1>1, <1>2 DEF FitsRoutes, None
<1> QED
  BY <1>2, <1>3 DEF g

(* Folding one sample is an observation: the streak grows only after the    *)
(* silence timeout, and a failover only after the cooldown.                 *)
LEMMA FoldObservation ==
  ASSUME NEW rts, NEW h, FitsRoutes(h, rts), NEW t \in Instant,
         NEW s \in BOOLEAN, NEW r \in BOOLEAN
  PROVE  Observation(h, FoldSample(h, s, r, t), r, t, rts)
<1> DEFINE active == h.active_policy
           due == recovery_attempt_due(h, t)
           sample == classify(h, s, r, t)
           heard == IF r THEN [h EXCEPT !.last_inbound_at = t] ELSE h
           aged == DecayAll(heard, t)
           recorded == record_sample(aged, active, sample, t)
           calm == [recorded EXCEPT !.recovery_fallback = None]
           res == FoldSample(h, s, r, t)
<1>1. h \in Health /\ active \in 1..Len(rts) /\ due \in BOOLEAN
  BY HealthFields DEF FitsRoutes, recovery_attempt_due
<1>2. /\ sample \in {"Healthy", "Unhealthy", "Idle"}
      /\ sample = "Healthy" <=> r
      /\ sample = "Unhealthy" => t - Anchor(h) >= INBOUND_SILENCE_TIMEOUT
  BY DEF classify, inbound_silence, Anchor
<1>3. res = CASE sample = "Healthy" -> decide_recovery_probe(calm, active, s, due, t)
              [] sample = "Idle" -> Decide(recorded, "Stay")
              [] sample = "Unhealthy" -> decide_after_unhealthy(recorded, active, s, due, t)
  BY Zenon DEF FoldSample
<1>4. /\ FitsRoutes(heard, rts) /\ heard.active_policy = active
      /\ heard.last_switch = h.last_switch /\ heard.switch_count = h.switch_count
      /\ heard.consecutive_peer_failures = h.consecutive_peer_failures
      /\ r => heard.last_inbound_at = t
      /\ ~r => heard = h
  BY HeardFits
<1>5. h.consecutive_peer_failures \in Int
  BY <1>1, StreakBounds
<1> HIDE DEF active, due, sample, heard, res
<1>6. /\ FitsRoutes(aged, rts) /\ SameClock(heard, aged)
      /\ aged.consecutive_peer_failures = h.consecutive_peer_failures
  BY <1>4, DecayAllFits
<1> HIDE DEF aged
<1>7. /\ FitsRoutes(recorded, rts) /\ SameClock(aged, recorded)
      /\ sample # "Unhealthy" =>
           recorded.consecutive_peer_failures <= h.consecutive_peer_failures
  BY <1>1, <1>2, <1>6, RecordSampleFits
<1> HIDE DEF recorded
<1>8. SameClock(heard, recorded)
  BY <1>6, <1>7 DEF SameClock
<1>9. recorded.consecutive_peer_failures \in Int
  BY <1>7, StreakBounds DEF FitsRoutes
<1>10. CASE sample = "Healthy"
  <2>1. res = decide_recovery_probe(calm, active, s, due, t)
    BY <1>3, <1>10
  <2>2. /\ FitsRoutes(calm, rts) /\ SameClock(recorded, calm)
        /\ calm.consecutive_peer_failures = recorded.consecutive_peer_failures
    BY <1>7, ForgetFallbackFits
  <2> HIDE DEF calm
  <2>3. Outcome(calm, res, t, rts) /\ res.decision.kind \in {"Stay", "RecoveryProbe"}
    BY <1>1, <2>1, <2>2, ProbeOutcome
  <2>4. ~(res.health.consecutive_peer_failures > h.consecutive_peer_failures)
    BY <1>5, <1>7, <1>9, <1>10, <2>2, <2>3 DEF Outcome
  <2>5. res.decision.kind # "Failover"
    BY <2>3
  <2>6. FitsRoutes(res.health, rts) /\ res.decision \in Decision
    BY <2>3 DEF Outcome
  <2>7. SameClock(calm, res.health) \/ Restarted(res.health, t)
    BY <2>3 DEF Outcome
  <2>8. SameClock(calm, res.health) =>
          /\ res.health.last_switch = h.last_switch
          /\ res.health.last_inbound_at = t
          /\ res.health.switch_count = h.switch_count
    BY <1>2, <1>4, <1>8, <1>10, <2>2 DEF SameClock
  <2> QED
    BY <2>4, <2>5, <2>6, <2>7, <2>8 DEF Observation, res
<1>11. CASE sample = "Idle"
  <2>1. res = Decide(recorded, "Stay") /\ ~r /\ heard = h
    BY <1>2, <1>3, <1>4, <1>11
  <2>2. "Stay" \in DecisionKind
    BY DEF DecisionKind
  <2>3. Outcome(recorded, res, t, rts) /\ res.decision.kind = "Stay" /\ res.health = recorded
    BY <1>7, <2>1, <2>2, StayOutcome DEF Decide
  <2>4. ~(res.health.consecutive_peer_failures > h.consecutive_peer_failures)
    BY <1>5, <1>7, <1>9, <1>11, <2>3
  <2>5. SameClock(h, res.health)
    BY <1>8, <2>1, <2>3
  <2>6. FitsRoutes(res.health, rts) /\ res.decision \in Decision
    BY <2>3 DEF Outcome
  <2> QED
    BY <2>1, <2>3, <2>4, <2>5, <2>6 DEF Observation, res
<1>12. CASE sample = "Unhealthy"
  <2>1. res = decide_after_unhealthy(recorded, active, s, due, t) /\ ~r /\ heard = h
    BY <1>2, <1>3, <1>4, <1>12
  <2>2. /\ Outcome(recorded, res, t, rts)
        /\ res.decision.kind = "Failover" =>
             Restarted(res.health, t) /\ cooldown_elapsed(recorded, t)
    BY <1>1, <1>7, <2>1, UnhealthyOutcome
  <2>3. cooldown_elapsed(recorded, t) = cooldown_elapsed(h, t)
    BY <1>8, <2>1 DEF SameClock, cooldown_elapsed, current_switch_cooldown
  <2>4. FitsRoutes(res.health, rts) /\ res.decision \in Decision
    BY <2>2 DEF Outcome
  <2>5. SameClock(h, res.health) \/ Restarted(res.health, t)
    BY <1>8, <2>1, <2>2 DEF Outcome, SameClock
  <2> QED
    BY <1>2, <1>12, <2>1, <2>2, <2>3, <2>4, <2>5 DEF Observation, res
<1> QED
  BY <1>2, <1>10, <1>11, <1>12

(* The first sample only seeds the counters' history and the time of the    *)
(* last inbound traffic.                                                    *)
LEMMA SeedFits ==
  ASSUME NEW rts, NEW h, FitsRoutes(h, rts), NEW t \in Instant,
         NEW s \in BOOLEAN, NEW r \in BOOLEAN
  PROVE  LET g == SeedFirstSample(h, s, r, t)
         IN  /\ FitsRoutes(g, rts)
             /\ g.consecutive_peer_failures = h.consecutive_peer_failures
             /\ g.last_switch = h.last_switch /\ g.switch_count = h.switch_count
             /\ g.jitter = h.jitter
             /\ g.last_inbound_at = IF r THEN t ELSE h.last_inbound_at
<1> DEFINE li == IF r THEN t ELSE h.last_inbound_at
           seeded == [h EXCEPT !.has_observed_stats = TRUE, !.last_inbound_at = li]
           g == SeedFirstSample(h, s, r, t)
<1>1. h \in Health
  BY DEF FitsRoutes
<1>2. li \in MaybeInstant /\ TRUE \in BOOLEAN
  BY <1>1, HealthFields DEF Instant, MaybeInstant
<1>3. g = IF s \/ r THEN schedule_next_recovery_attempt(seeded, t) ELSE seeded
  BY DEF SeedFirstSample
<1> HIDE DEF li, g
<1>4. /\ seeded \in Health /\ seeded.policy_health = h.policy_health
      /\ seeded.active_policy = h.active_policy
      /\ seeded.recovery_fallback = h.recovery_fallback
      /\ seeded.last_inbound_at = li /\ seeded.last_switch = h.last_switch
      /\ seeded.switch_count = h.switch_count /\ seeded.jitter = h.jitter
      /\ seeded.consecutive_peer_failures = h.consecutive_peer_failures
  BY <1>1, <1>2 DEF Health
<1> HIDE DEF seeded
<1>5. FitsRoutes(seeded, rts)
  BY <1>4 DEF FitsRoutes
<1>6. CASE s \/ r
  <2>1. g = schedule_next_recovery_attempt(seeded, t)
    BY <1>3, <1>6
  <2> QED
    BY <1>4, <1>5, <2>1, ScheduleFits DEF SameClock, g, li
<1>7. CASE ~(s \/ r)
  <2>1. g = seeded
    BY <1>3, <1>7
  <2> QED
    BY <1>4, <1>5, <2>1 DEF g, li
<1> QED
  BY <1>6, <1>7

(* PeerHealth::observe, for a peer with more than one policy. *)
LEMMA ObserveObservation ==
  ASSUME NEW rts, GoodList(rts), Len(rts) > 1, NEW h, FitsRoutes(h, rts),
         NEW t \in Instant, NEW s \in BOOLEAN, NEW r \in BOOLEAN
  PROVE  Observation(h, observe(h, rts, s, r, t), r, t, rts)
<1> DEFINE synced == sync_policies(h, h.active_policy, rts)
           seed == SeedFirstSample(synced, s, r, t)
           res == observe(h, rts, s, r, t)
<1>1. h \in Health /\ h.active_policy \in Nat \ {0} /\ Sound(h) /\ Len(rts) \in Nat
  BY FittingIsSound, HealthFields DEF FitsRoutes
<1>2. /\ FitsRoutes(synced, rts) /\ SameClock(h, synced)
      /\ synced.consecutive_peer_failures = h.consecutive_peer_failures
  BY <1>1, SyncFits
<1>3. res = IF ~synced.has_observed_stats THEN Decide(seed, "Stay")
            ELSE FoldSample(synced, s, r, t)
  BY <1>1 DEF observe
<1>4. h.consecutive_peer_failures \in Int
  BY <1>1, StreakBounds
<1> HIDE DEF synced, res
<1>5. \A x : Observation(synced, x, r, t, rts) => Observation(h, x, r, t, rts)
  BY <1>2 DEF Observation, SameClock, Anchor, cooldown_elapsed, current_switch_cooldown
<1>6. CASE synced.has_observed_stats
  BY <1>2, <1>3, <1>5, <1>6, FoldObservation DEF res
<1>7. CASE ~synced.has_observed_stats
  <2>1. res.health = seed /\ res.decision = [kind |-> "Stay", next_policy |-> None]
    BY <1>3, <1>7 DEF Decide
  <2>2. res.decision \in Decision /\ res.decision.kind = "Stay"
    BY <2>1 DEF Decision, DecisionKind, None
  <2>3. /\ FitsRoutes(seed, rts)
        /\ seed.consecutive_peer_failures = h.consecutive_peer_failures
        /\ seed.last_switch = h.last_switch /\ seed.switch_count = h.switch_count
        /\ seed.jitter = h.jitter
        /\ seed.last_inbound_at = IF r THEN t ELSE h.last_inbound_at
    BY <1>2, SeedFits DEF SameClock
  <2> HIDE DEF seed
  <2>4. ~(seed.consecutive_peer_failures > h.consecutive_peer_failures)
    BY <1>4, <2>3
  <2>5. CASE r
    BY <2>1, <2>2, <2>3, <2>4, <2>5 DEF Observation, res
  <2>6. CASE ~r
    BY <2>1, <2>2, <2>3, <2>4, <2>6 DEF Observation, SameClock, res
  <2> QED
    BY <2>5, <2>6
<1> QED
  BY <1>6, <1>7

-----------------------------------------------------------------------------
(* Observations in full: every history, and where the peer ends up. *)

(* The entry of a route that is on the list is the one at its index.        *)
LEMMA EntryForAt ==
  ASSUME NEW h, Sound(h), NEW k \in 1..Len(h.policy_health)
  PROVE  EntryFor(h, h.policy_health[k].route) = h.policy_health[k]
<1> DEFINE r == h.policy_health[k].route
           at == {i \in DOMAIN h.policy_health : h.policy_health[i].route = r}
           First(i) == \A j \in at : i <= j
<1>1. h \in Health /\ DOMAIN h.policy_health = 1..Len(h.policy_health)
      /\ Len(h.policy_health) \in Nat
  BY HealthFields DEF Sound
<1>2. k \in at /\ \A j \in at : j = k
  BY <1>1 DEF Sound
<1>3. First(k) /\ at # {}
  BY <1>1, <1>2
<1>4. EntryFor(h, r) = h.policy_health[CHOOSE i \in at : First(i)]
  BY <1>3, Zenon DEF EntryFor
<1> HIDE DEF First, at
<1>5. (CHOOSE i \in at : First(i)) = k
  BY <1>2, <1>3
<1> QED
  BY <1>4, <1>5

(* A route without history starts with a new entry.                         *)
LEMMA EntryForNew ==
  ASSUME NEW h, NEW r, \A i \in DOMAIN h.policy_health : h.policy_health[i].route # r
  PROVE  EntryFor(h, r) = NewEntry(r)
BY DEF EntryFor

(* sync_policies with the list the record already belongs to changes        *)
(* nothing.                                                                 *)
LEMMA SyncIsIdle ==
  ASSUME NEW rts, GoodList(rts), NEW h, FitsRoutes(h, rts)
  PROVE  sync_policies(h, h.active_policy, rts) = h
<1> DEFINE n == Len(rts)
           ph == [i \in 1..n |-> EntryFor(h, rts[i])]
           ap == AtMost(h.active_policy, n)
           rf == IF h.recovery_fallback > n THEN None ELSE h.recovery_fallback
<1>1. /\ h \in Health /\ n \in Nat /\ Len(h.policy_health) = n /\ Sound(h)
      /\ h.policy_health \in Seq(PolicyHealthEntry)
  BY FittingIsSound, HealthFields DEF GoodList, FitsRoutes
<1>2. \A i \in 1..n : EntryFor(h, rts[i]) = h.policy_health[i]
  BY <1>1, EntryForAt DEF FitsRoutes
<1>3. h.policy_health = [i \in 1..n |-> h.policy_health[i]]
  BY <1>1
<1>4. ph = h.policy_health
  BY <1>2, <1>3
<1>5. ap = h.active_policy /\ rf = h.recovery_fallback
  BY <1>1, HealthFields DEF FitsRoutes, AtMost
<1>6. sync_policies(h, h.active_policy, rts)
        = [h EXCEPT !.policy_health = ph, !.active_policy = ap, !.recovery_fallback = rf]
  BY DEF sync_policies
<1> HIDE DEF ph, ap, rf
<1> QED
  BY <1>1, <1>4, <1>5, <1>6 DEF Health

(* What a decision made of the record it was given: it either stays where   *)
(* it is, or moves to another route for one of three reasons; the histories *)
(* of the routes are left alone.                                            *)
Stays(h, res) ==
  /\ res.decision.kind \notin SwitchReason
  /\ res.health.active_policy = h.active_policy
  /\ res.health.recovery_fallback \in {None, h.recovery_fallback}
  /\ SameClock(h, res.health)

Probes(h, res, t) ==
  /\ res.decision.kind = "RecoveryProbe"
  /\ res.health.active_policy \in RecoveryCandidates(h, h.active_policy)
  /\ res.health.recovery_fallback = h.active_policy
  /\ res.health.last_switch = t

GoesBack(h, res, t) ==
  /\ res.decision.kind = "RecoveryFailed"
  /\ h.recovery_fallback # None
  /\ h.recovery_fallback # h.active_policy
  /\ res.health.active_policy = h.recovery_fallback
  /\ res.health.recovery_fallback = None
  /\ res.health.last_switch = t

FailsOver(h, res, t) ==
  /\ res.decision.kind = "Failover"
  /\ res.health.active_policy \in FailoverCandidates(h, h.active_policy)
  /\ res.health.recovery_fallback = None
  /\ res.health.last_switch = t

Verdict(h, res, t) ==
  /\ res.health.policy_health = h.policy_health
  /\ res.health.has_observed_stats = h.has_observed_stats
  /\ Stays(h, res) \/ Probes(h, res, t) \/ GoesBack(h, res, t) \/ FailsOver(h, res, t)

(* switch_to moves the active policy and its clocks, never a history.       *)
LEMMA SwitchMoves ==
  ASSUME NEW h \in Health, NEW t \in Instant, NEW policy, NEW probe
  PROVE  LET g == switch_to(h, policy, t, probe)
         IN  /\ g.policy_health = h.policy_health
             /\ g.has_observed_stats = h.has_observed_stats
             /\ g.active_policy = policy
             /\ g.recovery_fallback = IF probe THEN h.active_policy ELSE None
             /\ g.last_switch = t
<1> DEFINE cnt == (IF t - h.last_switch >= SWITCH_BACKOFF_RESET_INTERVAL
                   THEN 0 ELSE h.switch_count) + 1
           rf == IF probe THEN h.active_policy ELSE None
           moved == [h EXCEPT !.switch_count = cnt, !.active_policy = policy,
                              !.last_switch = t, !.last_inbound_at = None,
                              !.recovery_fallback = rf]
           due == t + RECOVERY_PROBE_INTERVAL + moved.jitter
           g == switch_to(h, policy, t, probe)
<1>1. g = [moved EXCEPT !.next_recovery_attempt_at = due]
  BY DEF switch_to, schedule_next_recovery_attempt
<1> HIDE DEF cnt, rf, due, g
<1>2. /\ g.policy_health = h.policy_health
      /\ g.has_observed_stats = h.has_observed_stats
      /\ g.active_policy = policy /\ g.recovery_fallback = rf /\ g.last_switch = t
  BY <1>1 DEF Health
<1> QED
  BY <1>2 DEF g, rf

(* decide_recovery_probe stays, or probes one of its candidates and         *)
(* remembers where it came from.                                            *)
LEMMA ProbeVerdict ==
  ASSUME NEW rts, NEW h, FitsRoutes(h, rts), NEW t \in Instant,
         NEW s \in BOOLEAN, NEW due \in BOOLEAN
  PROVE  LET res == decide_recovery_probe(h, h.active_policy, s, due, t)
         IN  \/ res = Decide(h, "Stay")
             \/ Probes(h, res, t) /\ Verdict(h, res, t)
<1> DEFINE k == h.active_policy
           C == RecoveryCandidates(h, k)
           next == Preferred(h, C)
           res == decide_recovery_probe(h, k, s, due, t)
<1>1. h \in Health /\ k \in 1..Len(h.policy_health) /\ Len(h.policy_health) \in Nat
  BY HealthFields DEF FitsRoutes
<1>2. C \subseteq 1..Len(h.policy_health)
  BY <1>1 DEF RecoveryCandidates
<1>3. CASE s /\ due /\ C # {}
  <2>1. next \in C
    BY <1>1, <1>2, <1>3, PreferredIsCandidate
  <2>2. res = DecideSwitch(switch_to(h, next, t, TRUE), next, "RecoveryProbe")
    BY <1>3 DEF decide_recovery_probe
  <2> HIDE DEF next, res
  <2>3. PICK yes \in BOOLEAN : yes = TRUE
    OBVIOUS
  <2>4. PICK g : g = switch_to(h, next, t, yes)
    OBVIOUS
  <2>5. /\ g.policy_health = h.policy_health
        /\ g.has_observed_stats = h.has_observed_stats
        /\ g.active_policy = next /\ g.last_switch = t
        /\ g.recovery_fallback = IF yes THEN h.active_policy ELSE None
    BY <1>1, <2>4, SwitchMoves
  <2>6. res.health = g /\ res.decision.kind = "RecoveryProbe"
    BY <2>2, <2>3, <2>4 DEF DecideSwitch
  <2>7. Probes(h, res, t)
    BY <2>1, <2>3, <2>5, <2>6 DEF Probes
  <2> QED
    BY <2>5, <2>6, <2>7 DEF Verdict, res
<1>4. CASE ~(s /\ due /\ C # {})
  BY <1>4 DEF decide_recovery_probe
<1> QED
  BY <1>3, <1>4

(* decide_failover moves to a candidate whenever there is one.              *)
LEMMA FailoverVerdict ==
  ASSUME NEW rts, NEW h, FitsRoutes(h, rts), NEW t \in Instant
  PROVE  LET res == decide_failover(h, h.active_policy, t)
         IN  /\ Verdict(h, res, t)
             /\ Stays(h, res) => FailoverCandidates(h, h.active_policy) = {}
<1> DEFINE k == h.active_policy
           C == FailoverCandidates(h, k)
           next == Preferred(h, C)
           res == decide_failover(h, k, t)
<1>1. /\ h \in Health /\ Len(h.policy_health) = Len(rts)
      /\ DOMAIN h.policy_health = 1..Len(h.policy_health)
  BY HealthFields DEF FitsRoutes
<1>2. C \subseteq 1..Len(h.policy_health)
  BY <1>1 DEF FailoverCandidates
<1>3. CASE C # {}
  <2>1. next \in C
    BY <1>1, <1>2, <1>3, PreferredIsCandidate
  <2>2. res = DecideSwitch(switch_to(h, next, t, FALSE), next, "Failover")
    BY <1>3 DEF decide_failover
  <2> HIDE DEF next, res
  <2>3. PICK no \in BOOLEAN : no = FALSE
    OBVIOUS
  <2>4. PICK g : g = switch_to(h, next, t, no)
    OBVIOUS
  <2>5. /\ g.policy_health = h.policy_health
        /\ g.has_observed_stats = h.has_observed_stats
        /\ g.active_policy = next /\ g.last_switch = t
        /\ g.recovery_fallback = IF no THEN h.active_policy ELSE None
    BY <1>1, <2>4, SwitchMoves
  <2>6. res.health = g /\ res.decision.kind = "Failover"
    BY <2>2, <2>3, <2>4 DEF DecideSwitch
  <2>7. FailsOver(h, res, t) /\ ~Stays(h, res)
    BY <2>1, <2>3, <2>5, <2>6 DEF FailsOver, Stays, SwitchReason
  <2> QED
    BY <2>5, <2>6, <2>7 DEF Verdict, res
<1>4. CASE C = {}
  <2> DEFINE g == [h EXCEPT !.liveness = "LikelyInactive"]
  <2>1. \/ res = Decide(g, "PeerInactive")
        \/ res = Decide(h, "NoViablePolicy")
    BY <1>4 DEF decide_failover
  <2>2. /\ g.policy_health = h.policy_health /\ g.active_policy = h.active_policy
        /\ g.has_observed_stats = h.has_observed_stats
        /\ g.recovery_fallback = h.recovery_fallback /\ SameClock(h, g)
    BY <1>1 DEF Health, SameClock
  <2> HIDE DEF g, res
  <2>3. res.health \in {g, h} /\ res.decision.kind \in {"PeerInactive", "NoViablePolicy"}
    BY <2>1 DEF Decide
  <2>4. Verdict(h, res, t)
    BY <2>2, <2>3 DEF Verdict, Stays, SwitchReason, SameClock
  <2> QED
    BY <1>4, <2>4 DEF res
<1> QED
  BY <1>3, <1>4

(* decide_after_unhealthy ends in one of the four ways; when it stays       *)
(* although the cooldown is over and the active route has failed, there was *)
(* no route to go to.                                                       *)
LEMMA UnhealthyVerdict ==
  ASSUME NEW rts, NEW h, FitsRoutes(h, rts), NEW t \in Instant,
         NEW s \in BOOLEAN, NEW due \in BOOLEAN
  PROVE  LET res == decide_after_unhealthy(h, h.active_policy, s, due, t)
         IN  /\ Verdict(h, res, t)
             /\ Stays(h, res) /\ cooldown_elapsed(h, t)
                  /\ is_failed(h.policy_health[h.active_policy])
                  => FailoverCandidates(h, h.active_policy) = {}
<1> DEFINE k == h.active_policy
           taken == [h EXCEPT !.recovery_fallback = None]
           fallback == h.recovery_fallback
           probe == decide_recovery_probe(taken, k, s, due, t)
           home == fallback # None /\ fallback <= Len(h.policy_health) /\ fallback # k
           res == decide_after_unhealthy(h, k, s, due, t)
<1>1. h \in Health /\ Len(h.policy_health) = Len(rts) /\ None \in Nat /\ 0 <= Len(rts)
      /\ Len(rts) \in Nat
  BY HealthFields DEF FitsRoutes, None
<1>2. /\ taken \in Health /\ taken.policy_health = h.policy_health /\ SameClock(h, taken)
      /\ taken.active_policy = h.active_policy /\ taken.recovery_fallback = None
      /\ taken.has_observed_stats = h.has_observed_stats
  BY <1>1 DEF Health, SameClock
<1>3. res = IF home
            THEN DecideSwitch(switch_to(taken, fallback, t, FALSE), fallback, "RecoveryFailed")
            ELSE IF ~cooldown_elapsed(taken, t) THEN Decide(taken, "Stay")
            ELSE IF probe.decision.kind # "Stay" THEN probe
            ELSE IF is_failed(taken.policy_health[k]) THEN decide_failover(taken, k, t)
            ELSE Decide(taken, "Stay")
  BY Zenon DEF decide_after_unhealthy
<1>4. cooldown_elapsed(taken, t) = cooldown_elapsed(h, t)
  BY <1>2 DEF cooldown_elapsed, current_switch_cooldown, SameClock
<1> HIDE DEF taken, res, probe
<1>5. FitsRoutes(taken, rts)
  BY <1>1, <1>2 DEF FitsRoutes, None
<1>6. \A x : Stays(taken, x) => Stays(h, x)
  BY <1>2 DEF Stays, SameClock
<1>6a. \A x : Stays(h, x) /\ Verdict(taken, x, t) => Stays(taken, x)
  BY <1>2 DEF Stays, Verdict, Probes, GoesBack, FailsOver, SwitchReason
<1>7. \A x : Verdict(taken, x, t) => Verdict(h, x, t)
  <2> TAKE x
  <2>1. Probes(taken, x, t) => Probes(h, x, t)
    BY <1>2 DEF Probes, RecoveryCandidates, FallbackValidated, SameClock
  <2>2. FailsOver(taken, x, t) => FailsOver(h, x, t)
    BY <1>2 DEF FailsOver, FailoverCandidates
  <2>3. ~GoesBack(taken, x, t)
    BY <1>2 DEF GoesBack
  <2> QED
    BY <1>2, <1>6, <2>1, <2>2, <2>3 DEF Verdict
<1>8. CASE home
  <2>1. res = DecideSwitch(switch_to(taken, fallback, t, FALSE), fallback, "RecoveryFailed")
    BY <1>3, <1>8
  <2>2. PICK no \in BOOLEAN : no = FALSE
    OBVIOUS
  <2>3. PICK g : g = switch_to(taken, fallback, t, no)
    OBVIOUS
  <2>4. /\ g.policy_health = taken.policy_health
        /\ g.has_observed_stats = taken.has_observed_stats
        /\ g.active_policy = fallback /\ g.last_switch = t
        /\ g.recovery_fallback = IF no THEN taken.active_policy ELSE None
    BY <1>2, <2>3, SwitchMoves
  <2>5. res.health = g /\ res.decision.kind = "RecoveryFailed"
    BY <2>1, <2>2, <2>3 DEF DecideSwitch
  <2>6. GoesBack(h, res, t) /\ ~Stays(h, res)
    BY <1>8, <2>2, <2>4, <2>5 DEF GoesBack, Stays, SwitchReason
  <2> QED
    BY <1>2, <2>4, <2>5, <2>6 DEF Verdict, res
<1>9. ASSUME res = Decide(taken, "Stay"), ~home,
             ~cooldown_elapsed(taken, t) \/ ~is_failed(taken.policy_health[k])
      PROVE  /\ Verdict(h, res, t)
             /\ ~(cooldown_elapsed(h, t) /\ is_failed(h.policy_health[k]))
  <2>1. res.health = taken /\ res.decision.kind = "Stay"
    BY <1>9 DEF Decide
  <2>2. Verdict(taken, res, t)
    BY <2>1 DEF Verdict, Stays, SwitchReason, SameClock
  <2> QED
    BY <1>2, <1>4, <1>7, <1>9, <2>2
<1>10. CASE ~home /\ cooldown_elapsed(taken, t) /\ probe.decision.kind # "Stay"
  <2>1. res = probe
    BY <1>3, <1>10
  <2>2. Probes(taken, probe, t) /\ Verdict(taken, probe, t)
    <3>1. \/ probe = Decide(taken, "Stay")
          \/ Probes(taken, probe, t) /\ Verdict(taken, probe, t)
      BY <1>2, <1>5, ProbeVerdict DEF probe
    <3>2. probe = Decide(taken, "Stay") => probe.decision.kind = "Stay"
      BY DEF Decide
    <3> QED
      BY <1>10, <3>1, <3>2
  <2>3. ~Stays(h, probe)
    BY <2>2 DEF Probes, Stays, SwitchReason
  <2> QED
    BY <1>7, <2>1, <2>2, <2>3 DEF res
<1>11. CASE /\ ~home /\ cooldown_elapsed(taken, t) /\ probe.decision.kind = "Stay"
            /\ is_failed(taken.policy_health[k])
  <2>1. res = decide_failover(taken, k, t)
    BY <1>3, <1>11
  <2>2. /\ Verdict(taken, res, t)
        /\ Stays(taken, res) => FailoverCandidates(taken, k) = {}
    BY <1>2, <1>5, <2>1, FailoverVerdict
  <2>3. FailoverCandidates(taken, k) = FailoverCandidates(h, k)
    BY <1>2 DEF FailoverCandidates
  <2> QED
    BY <1>6a, <1>7, <2>2, <2>3 DEF res
<1> QED
  BY <1>3, <1>8, <1>9, <1>10, <1>11 DEF res
-----------------------------------------------------------------------------
(* What a sample makes of the entry of the active route. *)
Folded(p, sample, t) ==
  CASE sample = "Healthy" -> record_success(p, t)
    [] sample = "Unhealthy" -> record_failure(p, t)
    [] sample = "Idle" -> p

(* The entry of policy i after the sample: aged, and scored if it is the    *)
(* active one.                                                              *)
EntryAfter(h, s, r, t, i) ==
  LET aged == decay(h.policy_health[i], t)
  IN  IF i = h.active_policy THEN Folded(aged, classify(h, s, r, t), t) ELSE aged

ScoresOnly(h, g, k, sample, t) ==
  /\ g.recovery_fallback = h.recovery_fallback
  /\ g.has_observed_stats = h.has_observed_stats
  /\ \A i \in 1..Len(h.policy_health) :
       g.policy_health[i] = IF i = k THEN Folded(h.policy_health[i], sample, t)
                            ELSE h.policy_health[i]

(* record_sample scores the active route's entry and no other.              *)
LEMMA RecordSampleEntries ==
  ASSUME NEW rts, NEW h, FitsRoutes(h, rts), NEW t \in Instant,
         NEW k \in 1..Len(rts), NEW sample \in {"Healthy", "Unhealthy", "Idle"}
  PROVE  ScoresOnly(h, record_sample(h, k, sample, t), k, sample, t)
<1> DEFINE e == h.policy_health[k]
           g == record_sample(h, k, sample, t)
           ph == h.policy_health
<1>1. h \in Health /\ ph \in Seq(PolicyHealthEntry) /\ Len(ph) = Len(rts)
      /\ Len(rts) \in Nat
  BY HealthFields DEF FitsRoutes
<1>2. \A x : \A i \in 1..Len(rts) :
        [ph EXCEPT ![k] = x][i] = IF i = k THEN x ELSE ph[i]
  BY <1>1
<1>3. CASE sample = "Healthy"
  <2> DEFINE x == record_success(e, t)
             q == [ph EXCEPT ![k] = x]
             lv == "Reachable"
             m == [h EXCEPT !.policy_health = q, !.liveness = lv,
                            !.consecutive_peer_failures = 0]
             due == t + RECOVERY_PROBE_INTERVAL + m.jitter
  <2>1. g = [m EXCEPT !.next_recovery_attempt_at = due]
    BY <1>1, <1>3 DEF record_sample, schedule_next_recovery_attempt, Health
  <2> HIDE DEF x, q, due, g, lv
  <2>2. /\ g.recovery_fallback = h.recovery_fallback /\ g.policy_health = q
        /\ g.has_observed_stats = h.has_observed_stats
    BY <1>1, <2>1 DEF Health
  <2>3. Folded(e, sample, t) = x
    BY <1>3 DEF Folded, x
  <2>4. \A i \in 1..Len(rts) : q[i] = IF i = k THEN x ELSE ph[i]
    BY <1>2 DEF q
  <2>5. ScoresOnly(h, g, k, sample, t)
    BY <1>1, <2>2, <2>3, <2>4 DEF ScoresOnly
  <2> QED
    BY <2>5 DEF g
<1>4. CASE sample = "Unhealthy"
  <2> DEFINE x == record_failure(e, t)
             q == [ph EXCEPT ![k] = x]
             f == AtMost(h.consecutive_peer_failures + 1, U8_MAX)
  <2>1. g = [h EXCEPT !.policy_health = q, !.consecutive_peer_failures = f]
    BY <1>1, <1>4 DEF record_sample, Health
  <2> HIDE DEF x, q, g, f
  <2>2. /\ g.recovery_fallback = h.recovery_fallback /\ g.policy_health = q
        /\ g.has_observed_stats = h.has_observed_stats
    BY <1>1, <2>1 DEF Health
  <2>3. Folded(e, sample, t) = x
    BY <1>4 DEF Folded, x
  <2>4. \A i \in 1..Len(rts) : q[i] = IF i = k THEN x ELSE ph[i]
    BY <1>2 DEF q
  <2>5. ScoresOnly(h, g, k, sample, t)
    BY <1>1, <2>2, <2>3, <2>4 DEF ScoresOnly
  <2> QED
    BY <2>5 DEF g
<1>5. CASE sample = "Idle"
  <2>1. g = h
    BY <1>5 DEF record_sample
  <2>2. \A i \in 1..Len(rts) : Folded(ph[i], sample, t) = ph[i]
    BY <1>5 DEF Folded
  <2> QED
    BY <1>1, <2>1, <2>2 DEF ScoresOnly
<1> QED
  BY <1>3, <1>4, <1>5

(* A whole observation after the first: what it makes of every history, and *)
(* where the peer ends up.                                                  *)
Scored(h, res, s, r, t) ==
  LET g == res.health
      a == h.active_policy
      sample == classify(h, s, r, t)
  IN  /\ g.has_observed_stats
      /\ \A i \in 1..Len(h.policy_health) :
           g.policy_health[i] = EntryAfter(h, s, r, t, i)
      /\ \/ /\ res.decision.kind \notin SwitchReason
            /\ g.active_policy = a
            /\ g.recovery_fallback \in {None, h.recovery_fallback}
            /\ g.last_switch = h.last_switch
            /\ g.last_inbound_at = IF r THEN t ELSE h.last_inbound_at
            /\ sample = "Unhealthy" /\ cooldown_elapsed(g, t)
                 /\ is_failed(g.policy_health[a]) => FailoverCandidates(g, a) = {}
         \/ /\ res.decision.kind = "RecoveryProbe"
            /\ g.active_policy \in 1..(a - 1)
            /\ \/ ~is_failed(g.policy_health[g.active_policy])
               \/ g.policy_health[a].last_success >= h.last_switch
            /\ g.recovery_fallback = a
            /\ g.last_switch = t
         \/ GoesBack(h, res, t)
         \/ /\ res.decision.kind = "Failover"
            /\ g.active_policy # a
            /\ g.recovery_fallback = None
            /\ g.last_switch = t

(* FoldSample is such an observation.                                       *)
LEMMA FoldScored ==
  ASSUME NEW rts, NEW h, FitsRoutes(h, rts), h.has_observed_stats, NEW t \in Instant,
         NEW s \in BOOLEAN, NEW r \in BOOLEAN
  PROVE  Scored(h, FoldSample(h, s, r, t), s, r, t)
<1> DEFINE active == h.active_policy
           due == recovery_attempt_due(h, t)
           sample == classify(h, s, r, t)
           heard == IF r THEN [h EXCEPT !.last_inbound_at = t] ELSE h
           aged == DecayAll(heard, t)
           recorded == record_sample(aged, active, sample, t)
           calm == [recorded EXCEPT !.recovery_fallback = None]
           res == FoldSample(h, s, r, t)
<1>1. /\ h \in Health /\ active \in 1..Len(rts) /\ due \in BOOLEAN
      /\ Len(h.policy_health) = Len(rts) /\ Len(rts) \in Nat
      /\ DOMAIN h.policy_health = 1..Len(rts)
  BY HealthFields DEF FitsRoutes, recovery_attempt_due
<1>2. sample \in {"Healthy", "Unhealthy", "Idle"} /\ (sample = "Healthy" <=> r)
  BY DEF classify
<1>3. res = CASE sample = "Healthy" -> decide_recovery_probe(calm, active, s, due, t)
              [] sample = "Idle" -> Decide(recorded, "Stay")
              [] sample = "Unhealthy" -> decide_after_unhealthy(recorded, active, s, due, t)
  BY Zenon DEF FoldSample
<1>4. /\ FitsRoutes(heard, rts) /\ heard.active_policy = active
      /\ heard.last_switch = h.last_switch
      /\ heard.policy_health = h.policy_health
      /\ heard.recovery_fallback = h.recovery_fallback
      /\ heard.has_observed_stats = h.has_observed_stats
      /\ heard.last_inbound_at = IF r THEN t ELSE h.last_inbound_at
  <2>1. CASE r
    BY <1>1, <2>1, HeardFits DEF Health
  <2>2. CASE ~r
    BY <2>2
  <2> QED
    BY <2>1, <2>2
<1> HIDE DEF active, due, sample, heard, res
<1>5. /\ FitsRoutes(aged, rts) /\ SameClock(heard, aged) /\ aged.active_policy = active
      /\ \A i \in 1..Len(rts) : aged.policy_health[i] = decay(h.policy_health[i], t)
      /\ aged.recovery_fallback = h.recovery_fallback
      /\ aged.has_observed_stats = h.has_observed_stats
  <2>1. FitsRoutes(aged, rts) /\ SameClock(heard, aged) /\ aged.active_policy = active
    BY <1>4, DecayAllFits
  <2> DEFINE ph == [i \in DOMAIN heard.policy_health |-> decay(heard.policy_health[i], t)]
  <2>2. aged = [heard EXCEPT !.policy_health = ph]
    BY DEF DecayAll
  <2> HIDE DEF ph
  <2>3. heard \in Health
    BY <1>4 DEF FitsRoutes
  <2>4. /\ aged.policy_health = ph
        /\ aged.recovery_fallback = heard.recovery_fallback
        /\ aged.has_observed_stats = heard.has_observed_stats
    BY <2>2, <2>3 DEF Health
  <2> QED
    BY <1>1, <1>4, <2>1, <2>4 DEF ph
<1> HIDE DEF aged
<1>6. /\ FitsRoutes(recorded, rts) /\ SameClock(aged, recorded)
      /\ recorded.active_policy = active
      /\ recorded.recovery_fallback = h.recovery_fallback
      /\ recorded.has_observed_stats
      /\ \A i \in 1..Len(rts) : recorded.policy_health[i] = EntryAfter(h, s, r, t, i)
  <2>1. FitsRoutes(recorded, rts) /\ SameClock(aged, recorded)
        /\ recorded.active_policy = active
    BY <1>1, <1>2, <1>5, RecordSampleFits
  <2>2. /\ recorded.recovery_fallback = aged.recovery_fallback
        /\ recorded.has_observed_stats = aged.has_observed_stats
        /\ \A i \in 1..Len(rts) :
             recorded.policy_health[i] = IF i = active
                                         THEN Folded(aged.policy_health[i], sample, t)
                                         ELSE aged.policy_health[i]
    <3>1. ScoresOnly(aged, recorded, active, sample, t)
      BY <1>1, <1>2, <1>5, RecordSampleEntries
    <3>2. Len(aged.policy_health) = Len(rts)
      BY <1>5 DEF FitsRoutes
    <3> HIDE DEF recorded
    <3> QED
      BY <3>1, <3>2 DEF ScoresOnly
  <2> HIDE DEF recorded
  <2>3. \A i \in 1..Len(rts) : recorded.policy_health[i] = EntryAfter(h, s, r, t, i)
    BY <1>5, <2>2 DEF EntryAfter, active, sample
  <2> QED
    BY <1>5, <2>1, <2>2, <2>3
<1> HIDE DEF recorded
<1>7. /\ FitsRoutes(calm, rts) /\ SameClock(recorded, calm)
      /\ calm.active_policy = active /\ calm.recovery_fallback = None
      /\ calm.policy_health = recorded.policy_health
      /\ calm.has_observed_stats
  <2>1. recorded \in Health
    BY <1>6 DEF FitsRoutes
  <2>2. /\ calm.active_policy = active /\ calm.recovery_fallback = None
        /\ calm.policy_health = recorded.policy_health
        /\ calm.has_observed_stats
    BY <1>6, <2>1 DEF Health
  <2> QED
    BY <1>6, <2>2, ForgetFallbackFits
<1> HIDE DEF calm
<1>8. PICK rec : rec = IF sample = "Healthy" THEN calm ELSE recorded
  OBVIOUS
<1>9. /\ FitsRoutes(rec, rts) /\ rec.active_policy = active
      /\ rec.recovery_fallback \in {None, h.recovery_fallback}
      /\ sample # "Healthy" => rec.recovery_fallback = h.recovery_fallback
      /\ rec.has_observed_stats
      /\ rec.last_switch = h.last_switch
      /\ rec.last_inbound_at = IF r THEN t ELSE h.last_inbound_at
      /\ \A i \in 1..Len(rts) : rec.policy_health[i] = EntryAfter(h, s, r, t, i)
  BY <1>4, <1>5, <1>6, <1>7, <1>8 DEF SameClock
<1>10. /\ Verdict(rec, res, t)
       /\ sample = "Healthy" => Stays(rec, res) \/ Probes(rec, res, t)
       /\ sample = "Unhealthy" /\ Stays(rec, res) /\ cooldown_elapsed(rec, t)
            /\ is_failed(rec.policy_health[active])
            => FailoverCandidates(rec, active) = {}
  <2>1. \A x : x = Decide(rec, "Stay") => Stays(rec, x) /\ Verdict(rec, x, t)
    BY DEF Decide, Stays, Verdict, SwitchReason, SameClock
  <2>2. CASE sample = "Healthy"
    <3>1. res = decide_recovery_probe(rec, active, s, due, t)
      BY <1>3, <1>8, <2>2
    <3>2. res = Decide(rec, "Stay") \/ (Probes(rec, res, t) /\ Verdict(rec, res, t))
      BY <1>1, <1>9, <3>1, ProbeVerdict
    <3> QED
      BY <2>1, <2>2, <3>2
  <2>3. CASE sample = "Idle"
    BY <1>3, <1>8, <2>1, <2>3
  <2>4. CASE sample = "Unhealthy"
    <3>1. res = decide_after_unhealthy(rec, active, s, due, t)
      BY <1>3, <1>8, <2>4
    <3> QED
      BY <1>1, <1>9, <2>4, <3>1, UnhealthyVerdict
  <2> QED
    BY <1>2, <2>2, <2>3, <2>4
<1>11. /\ res.health.policy_health = rec.policy_health /\ res.health.has_observed_stats
       /\ \A i \in 1..Len(rts) : res.health.policy_health[i] = EntryAfter(h, s, r, t, i)
  BY <1>9, <1>10 DEF Verdict
<1>12. CASE Stays(rec, res)
  <2>1. /\ res.decision.kind \notin SwitchReason
        /\ res.health.active_policy = active
        /\ res.health.recovery_fallback \in {None, h.recovery_fallback}
        /\ res.health.last_switch = h.last_switch
        /\ res.health.last_inbound_at = IF r THEN t ELSE h.last_inbound_at
    BY <1>9, <1>12 DEF Stays, SameClock
  <2>2. cooldown_elapsed(res.health, t) = cooldown_elapsed(rec, t)
    BY <1>12 DEF Stays, SameClock, cooldown_elapsed, current_switch_cooldown
  <2>3. FailoverCandidates(res.health, active) = FailoverCandidates(rec, active)
    BY <1>11 DEF FailoverCandidates
  <2>4. sample = "Unhealthy" /\ cooldown_elapsed(res.health, t)
          /\ is_failed(res.health.policy_health[active])
          => FailoverCandidates(res.health, active) = {}
    BY <1>10, <1>11, <1>12, <2>2, <2>3
  <2> QED
    BY <1>1, <1>11, <2>1, <2>4 DEF Scored, res, active, sample
<1>13. CASE Probes(rec, res, t)
  <2>1. /\ res.health.active_policy \in 1..(active - 1)
        /\ \/ ~is_failed(res.health.policy_health[res.health.active_policy])
           \/ res.health.policy_health[active].last_success >= h.last_switch
    BY <1>9, <1>11, <1>13 DEF Probes, RecoveryCandidates, FallbackValidated
  <2>2. /\ res.decision.kind = "RecoveryProbe"
        /\ res.health.recovery_fallback = active /\ res.health.last_switch = t
    BY <1>9, <1>13 DEF Probes
  <2> QED
    BY <1>1, <1>11, <2>1, <2>2 DEF Scored, res, active, sample
<1>14. CASE GoesBack(rec, res, t)
  <2>1. sample # "Healthy"
    BY <1>10, <1>14 DEF GoesBack, Stays, Probes, SwitchReason
  <2>2. GoesBack(h, res, t)
    BY <1>9, <1>14, <2>1 DEF GoesBack, active
  <2> QED
    BY <1>1, <1>11, <2>2 DEF Scored, res
<1>15. CASE FailsOver(rec, res, t)
  <2>1. /\ res.decision.kind = "Failover" /\ res.health.active_policy # active
        /\ res.health.recovery_fallback = None /\ res.health.last_switch = t
    BY <1>9, <1>15 DEF FailsOver, FailoverCandidates
  <2> QED
    BY <1>1, <1>11, <2>1 DEF Scored, res, active
<1> QED
  BY <1>10, <1>12, <1>13, <1>14, <1>15 DEF Verdict, res

(* The first observation: nothing is scored and nothing decided.            *)
Seeded(h, res, r, t) ==
  LET g == res.health
  IN  /\ ~h.has_observed_stats
      /\ g.has_observed_stats
      /\ g.policy_health = h.policy_health
      /\ res.decision.kind = "Stay"
      /\ g.active_policy = h.active_policy
      /\ g.recovery_fallback = h.recovery_fallback
      /\ g.last_switch = h.last_switch
      /\ g.last_inbound_at = IF r THEN t ELSE h.last_inbound_at

(* PeerHealth::observe, for a peer with more than one policy, in full.      *)
LEMMA ObserveInFull ==
  ASSUME NEW rts, GoodList(rts), Len(rts) > 1, NEW h, FitsRoutes(h, rts),
         NEW t \in Instant, NEW s \in BOOLEAN, NEW r \in BOOLEAN
  PROVE  LET res == observe(h, rts, s, r, t)
         IN  IF h.has_observed_stats THEN Scored(h, res, s, r, t) ELSE Seeded(h, res, r, t)
<1> DEFINE seed == SeedFirstSample(h, s, r, t)
           res == observe(h, rts, s, r, t)
           li == IF r THEN t ELSE h.last_inbound_at
           first == [h EXCEPT !.has_observed_stats = TRUE, !.last_inbound_at = li]
           due == t + RECOVERY_PROBE_INTERVAL + first.jitter
<1>1. h \in Health /\ Len(rts) \in Nat
  BY DEF FitsRoutes, GoodList
<1>2. res = IF ~h.has_observed_stats THEN Decide(seed, "Stay") ELSE FoldSample(h, s, r, t)
  BY <1>1, SyncIsIdle DEF observe
<1>3. CASE h.has_observed_stats
  BY <1>2, <1>3, FoldScored
<1>4. CASE ~h.has_observed_stats
  <2>1. res.health = seed /\ res.decision.kind = "Stay"
    BY <1>2, <1>4 DEF Decide
  <2>2. seed = first \/ seed = [first EXCEPT !.next_recovery_attempt_at = due]
    BY DEF SeedFirstSample, schedule_next_recovery_attempt
  <2> HIDE DEF seed, res, li, due
  <2>3. /\ seed.has_observed_stats /\ seed.policy_health = h.policy_health
        /\ seed.active_policy = h.active_policy
        /\ seed.recovery_fallback = h.recovery_fallback
        /\ seed.last_switch = h.last_switch /\ seed.last_inbound_at = li
    BY <1>1, <2>2 DEF Health
  <2> QED
    BY <1>4, <2>1, <2>3 DEF Seeded, res, li
<1> QED
  BY <1>3, <1>4
-----------------------------------------------------------------------------
(* Entries through one pass. *)

(* decay leaves the last success alone and never moves the anchor past the  *)
(* present; what is still failed afterwards was failed before, with the     *)
(* same anchor, less than one interval ago; within one interval nothing     *)
(* decays at all.                                                           *)
LEMMA DecayHistory ==
  ASSUME NEW p \in PolicyHealthEntry, NEW t \in Instant, LabelFits(p), p.last_failure <= t
  PROVE  /\ decay(p, t).last_success = p.last_success
         /\ decay(p, t).last_failure <= t
         /\ is_failed(decay(p, t)) =>
              /\ is_failed(p)
              /\ decay(p, t).last_failure = p.last_failure
              /\ t - p.last_failure < POLICY_FAILURE_DECAY_INTERVAL
         /\ t - p.last_failure < POLICY_FAILURE_DECAY_INTERVAL =>
              decay(p, t).suspicion = p.suspicion
<1> DEFINE D == POLICY_FAILURE_DECAY_INTERVAL
           q == decay(p, t)
<1>1. /\ p.suspicion \in 0..4 /\ p.last_failure \in Nat /\ D \in Nat /\ D > 0
      /\ p.last_success \in MaybeInstant /\ t \in Nat
      /\ p.state = "Failed" <=> p.suspicion = 4
  BY EntryFields, IntervalAssumption DEF Instant, LabelFits, POLICY_FAILURE_SCORE
<1>2. \A e : is_failed(e) <=> e.suspicion >= 4 \/ e.state = "Failed"
  BY DEF is_failed, POLICY_FAILURE_SCORE
<1>3. CASE p.last_failure = None \/ p.suspicion = 0
  <2>1. q = p
    BY <1>3 DEF decay
  <2>2. p.suspicion = 0
    BY <1>1, <1>3 DEF LabelFits
  <2>3. ~is_failed(p)
    BY <1>1, <1>2, <2>2
  <2> QED
    BY <2>1, <2>3
<1>4. CASE ~(p.last_failure = None \/ p.suspicion = 0)
  <2> DEFINE k == DecaySteps(p, t)
             score == p.suspicion - k
             age == k * D
             last == p.last_failure + age
  <2>1. /\ k \in 0..p.suspicion /\ (k > 0 => t - p.last_failure >= k * D)
        /\ k = p.suspicion \/ t - p.last_failure < (k + 1) * D
    BY DecayCount
  <2> HIDE DEF k, D
  <2>2. k \in 0..4 /\ score \in 0..4
    <3>1. PICK n : n = p.suspicion
      OBVIOUS
    <3>2. n \in 0..4 /\ k \in 0..n
      BY <1>1, <2>1, <3>1
    <3>3. k \in 0..4 /\ n - k \in 0..4
      BY <3>2
    <3> QED
      BY <3>1, <3>3
  <2>3. age \in Nat /\ last \in Nat /\ last <= t
    <3>1. k = 0 \/ k = 1 \/ k = 2 \/ k = 3 \/ k = 4
      BY <2>2
    <3> QED
      BY <1>1, <2>1, <3>1
  <2>4. t - p.last_failure < D => k = 0
    <3>1. k > 0 => k * D >= D
      BY <1>1, <2>2
    <3>2. k * D \in Nat
      BY <2>3
    <3> QED
      BY <1>1, <2>1, <2>2, <3>1, <3>2
  <2>5. k = 0 => age = 0 /\ t - p.last_failure < D
    BY <1>1, <1>4, <2>1
  <2> HIDE DEF age
  <2>6. CASE score = 0
    <3>1. q = [p EXCEPT !.suspicion = 0, !.last_failure = None, !.state = "Unknown"]
      BY <1>4, <2>6 DEF decay, k
    <3> HIDE DEF q
    <3>2. /\ q.last_success = p.last_success /\ q.last_failure = None
          /\ q.suspicion = 0 /\ q.state = "Unknown"
      BY <3>1 DEF PolicyHealthEntry
    <3>3. ~is_failed(q) /\ q.last_failure <= t
      BY <1>1, <1>2, <3>2 DEF None
    <3>4. t - p.last_failure < D => q.suspicion = p.suspicion
      BY <1>1, <2>2, <2>4, <2>6, <3>2
    <3> QED
      BY <3>2, <3>3, <3>4 DEF q, D
  <2>7. CASE score # 0
    <3>1. q = [p EXCEPT !.suspicion = score, !.last_failure = last,
                        !.state = StateForScore(score)]
      BY <1>4, <2>7 DEF decay, k, age, D
    <3> HIDE DEF q, score, last
    <3>2. /\ q.last_success = p.last_success /\ q.last_failure = last
          /\ q.suspicion = score /\ q.state = StateForScore(score)
      BY <3>1 DEF PolicyHealthEntry
    <3>3. is_failed(q) => score = 4
      BY <1>2, <2>2, <3>2 DEF StateForScore, POLICY_FAILURE_SCORE
    <3>4. score = 4 => p.suspicion = 4 /\ k = 0
      BY <1>1, <2>2 DEF score
    <3>5. k = 0 => last = p.last_failure /\ score = p.suspicion
      BY <1>1, <2>5 DEF last, score
    <3>6. is_failed(q) => /\ is_failed(p) /\ q.last_failure = p.last_failure
                          /\ t - p.last_failure < D
      BY <1>1, <1>2, <2>5, <3>2, <3>3, <3>4, <3>5
    <3> QED
      BY <2>3, <2>4, <3>2, <3>5, <3>6 DEF q, D
  <2> QED
    BY <2>6, <2>7
<1> QED
  BY <1>3, <1>4

(* A success moves only the last success and clears the failed state.       *)
LEMMA SuccessHistory ==
  ASSUME NEW p \in PolicyHealthEntry, NEW t \in Instant
  PROVE  /\ record_success(p, t).last_success = t
         /\ record_success(p, t).last_failure = p.last_failure
         /\ record_success(p, t).state = "Healthy"
         /\ ~is_failed(record_success(p, t))
<1> DEFINE score == AtLeast(p.suspicion - HEALTHY_SCORE_DELTA, 0)
           q == record_success(p, t)
<1>1. score \in 0..3
  BY EntryFields DEF HEALTHY_SCORE_DELTA, AtLeast
<1>2. /\ q.last_success = t /\ q.last_failure = p.last_failure
      /\ q.state = "Healthy" /\ q.suspicion = score
  BY DEF record_success, PolicyHealthEntry
<1> HIDE DEF score, q
<1>3. ~is_failed(q)
  BY <1>1, <1>2 DEF is_failed, POLICY_FAILURE_SCORE
<1> QED
  BY <1>2, <1>3 DEF q

(* A failure moves only the last failure, and two of them fail a route.     *)
LEMMA FailureHistory ==
  ASSUME NEW p \in PolicyHealthEntry, NEW t \in Instant
  PROVE  /\ record_failure(p, t).last_success = p.last_success
         /\ record_failure(p, t).last_failure = t
         /\ record_failure(p, t).suspicion >= 2
         /\ p.suspicion >= 2 => is_failed(record_failure(p, t))
         /\ p.suspicion < 4 => record_failure(p, t).suspicion > p.suspicion
         /\ record_failure(p, t).state \in {"Suspect", "Failed"}
<1> DEFINE score == AtMost(p.suspicion + UNHEALTHY_SCORE_DELTA, POLICY_FAILURE_SCORE)
           q == record_failure(p, t)
<1>1. p.suspicion \in 0..4
  BY EntryFields
<1>2. score = IF p.suspicion + 2 <= 4 THEN p.suspicion + 2 ELSE 4
  BY DEF AtMost, UNHEALTHY_SCORE_DELTA, POLICY_FAILURE_SCORE
<1>3. /\ q.last_success = p.last_success /\ q.last_failure = t
      /\ q.suspicion = score /\ q.state = StateForScore(score)
  BY DEF record_failure, PolicyHealthEntry
<1> HIDE DEF score, q
<1>4. score >= 2 /\ (p.suspicion >= 2 => score >= 4) /\ (p.suspicion < 4 => score > p.suspicion)
  BY <1>1, <1>2
<1>5. q.state \in {"Suspect", "Failed"}
  BY <1>3 DEF StateForScore
<1>6. score >= 4 => is_failed(q)
  BY <1>3 DEF is_failed, POLICY_FAILURE_SCORE
<1> QED
  BY <1>3, <1>4, <1>5, <1>6 DEF q

(* The effect of a failure cannot be mistaken: no other sample leaves the   *)
(* entry it would have left.                                                *)
LEMMA FailureIsUnmistakable ==
  ASSUME NEW p \in PolicyHealthEntry, NEW t \in Instant, LabelFits(p), p.last_failure < t,
         NEW sample \in {"Healthy", "Unhealthy", "Idle"}
  PROVE  /\ p # record_failure(decay(p, t), t)
         /\ Folded(decay(p, t), sample, t) = record_failure(decay(p, t), t)
              <=> sample = "Unhealthy"
<1> DEFINE d == decay(p, t)
<1>1. /\ d \in PolicyHealthEntry /\ d.suspicion \in 0..4
      /\ p.last_failure \in Nat /\ t \in Nat
  BY DecayFits, EntryFields DEF Instant
<1>2. is_failed(d) => d.last_failure = p.last_failure
  BY <1>1, DecayHistory
<1> HIDE DEF d
<1>3. p # record_failure(d, t)
  BY <1>1, FailureHistory
<1>4. d # record_failure(d, t)
  <2> SUFFICES ASSUME d = record_failure(d, t) PROVE FALSE
    OBVIOUS
  <2>1. d.last_failure = t /\ ~(d.suspicion < 4)
    BY <1>1, FailureHistory
  <2>2. is_failed(d)
    BY <1>1, <2>1 DEF is_failed, POLICY_FAILURE_SCORE
  <2> QED
    BY <1>1, <1>2, <2>1, <2>2
<1>5. record_success(d, t) # record_failure(d, t)
  BY <1>1, FailureHistory, SuccessHistory
<1> QED
  BY <1>3, <1>4, <1>5 DEF Folded, d
-----------------------------------------------------------------------------
(* The cooldown after at least one switch is no shorter than the base       *)
(* interval, whatever the exponent.                                         *)
LEMMA CooldownIsLong ==
  ASSUME NEW h \in Health, h.switch_count >= 1
  PROVE  /\ current_switch_cooldown(h) \in Nat
         /\ current_switch_cooldown(h) >= MIN_POLICY_SWITCH_INTERVAL
<1> DEFINE k == AtMost(h.switch_count - 1, MAX_SWITCH_BACKOFF_SHIFT)
           M == MIN_POLICY_SWITCH_INTERVAL
           j == h.jitter
<1>1. k \in 0..3 /\ M \in Nat /\ j \in Nat
  BY HealthFields, IntervalAssumption DEF AtMost
<1>2. 2^k \in {1, 2, 4, 8}
  <2> HIDE DEF k
  <2>1. k = 0 \/ k = 1 \/ k = 2 \/ k = 3
    BY <1>1
  <2>2. 2^0 = 1 /\ 2^1 = 2 /\ 2^2 = 4 /\ 2^3 = 8
    OBVIOUS
  <2> QED
    BY <2>1, <2>2
<1>3. current_switch_cooldown(h) = M * 2^k + j
  BY HealthFields DEF current_switch_cooldown
<1> DEFINE factor == 2^k
<1> HIDE DEF k, M, j, factor
<1>4. factor = 1 \/ factor = 2 \/ factor = 4 \/ factor = 8
  BY <1>2 DEF factor
<1>5. M * factor \in Nat /\ M * factor >= M
  BY <1>1, <1>4
<1> QED
  BY <1>1, <1>3, <1>5 DEF factor, M
-----------------------------------------------------------------------------
(* The passes. *)

ClocksOrdered ==
  /\ health.last_switch <= now
  /\ health.last_inbound_at # None => health.last_inbound_at >= health.last_switch
  /\ health.last_inbound_at <= now
  /\ hist.heardAt <= now
  /\ ~received => hist.heardAt <= Anchor(health)
  /\ hist.failoverAt <= health.last_switch
  /\ hist.failoverAt # None => health.switch_count >= 1

MonitorInv ==
  /\ TypeOK
  /\ FitsRoutes(health, routes)
  /\ ClocksOrdered
-----------------------------------------------------------------------------
(* Every route list a map can bring is good: non-empty, with distinct       *)
(* routes.                                                                  *)
LEMMA ListsAreGood ==
  ASSUME NEW l \in RouteLists
  PROVE  GoodList(l)
BY MonitorAssumption DEF GoodList

(* The active route is a route of the list.                                 *)
LEMMA ActiveRouteIsKey ==
  ASSUME NEW l \in RouteLists, NEW h, FitsRoutes(h, l)
  PROVE  active_route(h) \in RouteKey
<1>1. h \in Health /\ h.active_policy \in 1..Len(h.policy_health)
  BY HealthFields DEF FitsRoutes
<1>2. h.policy_health[h.active_policy] \in PolicyHealthEntry
  BY <1>1, HealthFields
<1> QED
  BY <1>2, EntryFields DEF active_route

(* The history of two records agrees except for what the caller names. *)
SamePlace(H, K) == K.activeSince = H.activeSince /\ K.byMap = H.byMap

(* The history stays a history, and traffic moves only the two instants     *)
(* that record it.                                                          *)
LEMMA HistoryMoves ==
  ASSUME NEW H \in History, now \in Instant, now' \in Instant,
         NEW s \in BOOLEAN, NEW r \in BOOLEAN
  PROVE  /\ HistTraffic(H, s, r) \in History
         /\ HistTraffic(H, s, r).heardAt = IF r THEN now' ELSE H.heardAt
         /\ HistTraffic(H, s, r).failoverAt = H.failoverAt
         /\ HistTraffic(H, s, r).deadSince
              = IF s /\ ~r THEN FirstOf(H.deadSince, now) ELSE None
         /\ HistTraffic(H, s, r).probeFrom = H.probeFrom
         /\ HistTraffic(H, s, r).blamedAt = H.blamedAt
         /\ SamePlace(H, HistTraffic(H, s, r))
<1> DEFINE ha == IF r THEN now' ELSE H.heardAt
           ds == IF s /\ ~r THEN FirstOf(H.deadSince, now) ELSE None
<1>1. ha \in MaybeInstant /\ ds \in MaybeInstant
  BY DEF History, MaybeInstant, Instant, FirstOf, None
<1>2. HistTraffic(H, s, r)
        = [H EXCEPT !.heardAt = ha, !.deadSince = ds]
  BY DEF HistTraffic
<1> HIDE DEF ha, ds
<1>3. /\ HistTraffic(H, s, r) \in History
      /\ HistTraffic(H, s, r).heardAt = ha
      /\ HistTraffic(H, s, r).failoverAt = H.failoverAt
      /\ HistTraffic(H, s, r).deadSince = ds
      /\ HistTraffic(H, s, r).probeFrom = H.probeFrom
      /\ HistTraffic(H, s, r).blamedAt = H.blamedAt
      /\ SamePlace(H, HistTraffic(H, s, r))
  BY <1>1, <1>2 DEF History, SamePlace
<1> QED
  BY <1>3 DEF ha, ds

(* A change of route restarts the stay on the active route, whoever made    *)
(* it, and moves nothing else.                                              *)
LEMMA HistoryMoved ==
  ASSUME NEW H \in History, now' \in Instant, NEW old, NEW new, NEW map \in BOOLEAN
  PROVE  /\ HistMoved(H, old, new, map) \in History
         /\ HistMoved(H, old, new, map).heardAt = H.heardAt
         /\ HistMoved(H, old, new, map).failoverAt = H.failoverAt
         /\ HistMoved(H, old, new, map).probeFrom = H.probeFrom
         /\ HistMoved(H, old, new, map).blamedAt = H.blamedAt
         /\ old = new => HistMoved(H, old, new, map) = H
         /\ old # new => /\ HistMoved(H, old, new, map).activeSince = now'
                         /\ HistMoved(H, old, new, map).byMap = map
                         /\ HistMoved(H, old, new, map).deadSince = None
<1>1. None \in MaybeInstant
  BY DEF None, MaybeInstant
<1>2. CASE old = new
  BY <1>2 DEF HistMoved
<1>3. CASE old # new
  <2>1. HistMoved(H, old, new, map)
          = [H EXCEPT !.activeSince = now', !.byMap = map, !.deadSince = None]
    BY <1>3 DEF HistMoved
  <2> QED
    BY <1>1, <1>3, <2>1 DEF History
<1> QED
  BY <1>2, <1>3

(* Recording a decision moves only the time of the last failover, when it   *)
(* is one, and the probe's origin.                                          *)
LEMMA HistoryDecides ==
  ASSUME NEW H \in History, now' \in Instant, NEW d \in Decision, NEW from \in RouteKey
  PROVE  /\ HistDecision(H, d, from) \in History
         /\ HistDecision(H, d, from).heardAt = H.heardAt
         /\ HistDecision(H, d, from).failoverAt
              = IF d.kind = "Failover" THEN now' ELSE H.failoverAt
         /\ HistDecision(H, d, from).probeFrom
              = IF d.kind = "RecoveryProbe" THEN from
                ELSE IF d.kind = "RecoveryFailed" THEN NoRoute ELSE H.probeFrom
         /\ HistDecision(H, d, from).deadSince = H.deadSince
         /\ HistDecision(H, d, from).blamedAt = H.blamedAt
         /\ SamePlace(H, HistDecision(H, d, from))
<1> DEFINE fa == IF d.kind = "Failover" THEN now' ELSE H.failoverAt
           pf == IF d.kind = "RecoveryProbe" THEN from
                 ELSE IF d.kind = "RecoveryFailed" THEN NoRoute ELSE H.probeFrom
<1>1. fa \in MaybeInstant
  BY DEF History, MaybeInstant, Instant
<1>2. pf \in RouteKey \cup {NoRoute}
  BY DEF History
<1>3. HistDecision(H, d, from) = [H EXCEPT !.failoverAt = fa, !.probeFrom = pf]
  BY DEF HistDecision
<1> HIDE DEF fa, pf
<1>4. /\ HistDecision(H, d, from) \in History
      /\ HistDecision(H, d, from).heardAt = H.heardAt
      /\ HistDecision(H, d, from).failoverAt = fa
      /\ HistDecision(H, d, from).probeFrom = pf
      /\ HistDecision(H, d, from).deadSince = H.deadSince
      /\ HistDecision(H, d, from).blamedAt = H.blamedAt
      /\ SamePlace(H, HistDecision(H, d, from))
  BY <1>1, <1>2, <1>3 DEF History, SamePlace
<1> QED
  BY <1>4 DEF fa, pf

(* Recording which routes were blamed moves neither time.                   *)
LEMMA HistoryBlames ==
  ASSUME NEW H \in History, now' \in Instant, NEW old, NEW new
  PROVE  /\ HistBlame(H, old, new) \in History
         /\ HistBlame(H, old, new).heardAt = H.heardAt
         /\ HistBlame(H, old, new).failoverAt = H.failoverAt
         /\ HistBlame(H, old, new).probeFrom = H.probeFrom
         /\ HistBlame(H, old, new).deadSince = H.deadSince
         /\ SamePlace(H, HistBlame(H, old, new))
         /\ \A x \in RouteKey : HistBlame(H, old, new).blamedAt[x]
              = IF Blamed(old, new, x) THEN now' ELSE H.blamedAt[x]
<1> DEFINE b == [x \in RouteKey |-> IF Blamed(old, new, x) THEN now' ELSE H.blamedAt[x]]
<1>1. b \in [RouteKey -> MaybeInstant]
  BY DEF History, MaybeInstant, Instant
<1>2. HistBlame(H, old, new) = [H EXCEPT !.blamedAt = b]
  BY DEF HistBlame
<1> HIDE DEF b
<1>3. /\ HistBlame(H, old, new) \in History
      /\ HistBlame(H, old, new).heardAt = H.heardAt
      /\ HistBlame(H, old, new).failoverAt = H.failoverAt
      /\ HistBlame(H, old, new).probeFrom = H.probeFrom
      /\ HistBlame(H, old, new).deadSince = H.deadSince
      /\ SamePlace(H, HistBlame(H, old, new))
      /\ HistBlame(H, old, new).blamedAt = b
  BY <1>1, <1>2 DEF History, SamePlace
<1> QED
  BY <1>3 DEF b
-----------------------------------------------------------------------------
(* The inductive invariant holds initially.                                 *)
LEMMA InitInv == Init => MonitorInv
<1> SUFFICES ASSUME Init PROVE MonitorInv
  OBVIOUS
<1>1. PICK active \in 1..Len(routes), jitter \in 0..MAX_HEALTH_JITTER :
        health = sync_policies(new_with_jitter(active, now, jitter), active, routes)
  BY DEF Init
<1> DEFINE h == new_with_jitter(active, now, jitter)
<1>2. routes \in RouteLists /\ now = 1 /\ GoodList(routes) /\ Len(routes) \in Nat
  BY ListsAreGood DEF Init, GoodList
<1>3. active \in Nat \ {0} /\ now \in Instant
  BY <1>2 DEF Instant
<1>4. now + RECOVERY_PROBE_INTERVAL + jitter \in Instant
  BY <1>2, IntervalAssumption DEF Instant
<1>5. /\ h \in Health /\ h.policy_health = <<>> /\ h.last_switch = now
      /\ h.last_inbound_at = None
  <2>1. "Unknown" \in Liveness /\ 0 \in 0..U8_MAX /\ None \in MaybeInstant /\ None \in Nat
        /\ FALSE \in BOOLEAN /\ 0 \in Nat
    BY DEF Liveness, U8_MAX, None, MaybeInstant
  <2>2. <<>> \in Seq(PolicyHealthEntry)
    BY EmptySeq
  <2> QED
    BY <1>3, <1>4, <2>1, <2>2 DEF new_with_jitter, Health
<1> HIDE DEF h
<1>6. Len(h.policy_health) = 0
  BY <1>5, EmptySeq
<1>7. Sound(h)
  BY <1>5, <1>6 DEF Sound
<1>8. FitsRoutes(health, routes) /\ SameClock(h, health)
  BY <1>1, <1>2, <1>3, <1>7, SyncFits DEF h
<1>9. /\ hist \in History /\ hist.heardAt = None /\ hist.failoverAt = None
  <2>1. None \in MaybeInstant /\ NoRoute \in RouteKey \cup {NoRoute}
    BY DEF None, MaybeInstant
  <2>2. [r \in RouteKey |-> None] \in [RouteKey -> MaybeInstant]
    BY <2>1
  <2> QED
    BY <1>3, <2>1, <2>2 DEF Init, History
<1>10. decision \in [kind : DecisionKind, next_policy : Nat]
  BY DEF Init, DecisionKind, None
<1>11. TypeOK
  <2>1. sent \in BOOLEAN /\ received \in BOOLEAN
    BY DEF Init
  <2>2. maps \in 0..MaxMaps
    BY MonitorAssumption DEF Init
  <2> QED
    BY <1>2, <1>3, <1>8, <1>9, <1>10, <2>1, <2>2 DEF TypeOK, FitsRoutes
<1>12. ClocksOrdered
  BY <1>2, <1>5, <1>8, <1>9 DEF ClocksOrdered, SameClock, Anchor, None
<1> QED
  BY <1>8, <1>11, <1>12 DEF MonitorInv
-----------------------------------------------------------------------------
(* One step lemma per action.                                               *)

(* What Observed returns in a reachable state. *)
LEMMA ObservedObservation ==
  ASSUME MonitorInv, now' \in Instant, Len(routes) > 1,
         NEW s \in BOOLEAN, NEW r \in BOOLEAN
  PROVE  Observation(health, Observed(s, r), r, now', routes)
<1> DEFINE h == sync_policies(health, health.active_policy, routes)
<1>1. /\ FitsRoutes(health, routes) /\ GoodList(routes) /\ health \in Health
      /\ health.active_policy \in Nat \ {0}
  BY ListsAreGood, HealthFields DEF MonitorInv, TypeOK, FitsRoutes
<1>2. /\ FitsRoutes(h, routes) /\ SameClock(health, h)
      /\ h.consecutive_peer_failures = health.consecutive_peer_failures
  BY <1>1, FittingIsSound, SyncFits
<1>3. Observed(s, r) = observe(h, routes, s, r, now')
  BY DEF Observed
<1> HIDE DEF h
<1>4. Observation(h, Observed(s, r), r, now', routes)
  BY <1>1, <1>2, <1>3, ObserveObservation
<1> QED
  BY <1>2, <1>4
     DEF Observation, SameClock, Anchor, cooldown_elapsed, current_switch_cooldown

(* What a sample writes to the history. *)
SampleHistory(s, r) ==
  LET moved == active_route(health) # active_route(health')
  IN  /\ \A x \in RouteKey : hist'.blamedAt[x]
           = IF Blamed(health, health', x) THEN now' ELSE hist.blamedAt[x]
      /\ hist'.probeFrom
           = IF decision'.kind = "RecoveryProbe" THEN active_route(health)
             ELSE IF decision'.kind = "RecoveryFailed" THEN NoRoute ELSE hist.probeFrom
      /\ moved => /\ hist'.activeSince = now'
                  /\ hist'.byMap = FALSE
                  /\ hist'.deadSince = None
      /\ ~moved => /\ SamePlace(hist, hist')
                   /\ hist'.deadSince = IF s /\ ~r THEN FirstOf(hist.deadSince, now) ELSE None

(* A health sample preserves the inductive invariant and is an observation. *)
LEMMA SampleInv ==
  ASSUME MonitorInv, NEW gap \in 1..MaxGap, NEW s \in BOOLEAN, NEW r \in BOOLEAN,
         Sample(gap, s, r)
  PROVE  /\ MonitorInv'
         /\ Observation(health, Observed(sent \/ s, received \/ r), received \/ r, now', routes)
         /\ health' = Observed(sent \/ s, received \/ r).health
         /\ decision' = Observed(sent \/ s, received \/ r).decision
         /\ hist'.heardAt = IF r THEN now' ELSE hist.heardAt
         /\ SampleHistory(s, r)
<1> DEFINE res == Observed(sent \/ s, received \/ r)
           R == received \/ r
           h1 == HistTraffic(hist, s, r)
           h2 == HistBlame(h1, health, health')
           h3 == HistDecision(h2, decision', active_route(health))
<1>1. /\ now \in Instant /\ now' \in Instant /\ now' > now
      /\ now \in Nat /\ now' \in Nat
  BY MonitorAssumption DEF MonitorInv, TypeOK, Sample, Pass, Instant
<1>2. /\ Len(routes) > 1 /\ routes' = routes /\ maps' = maps
      /\ sent' = FALSE /\ received' = FALSE
      /\ health' = res.health /\ decision' = res.decision
  BY Zenon DEF Sample
<1>2a. \E no \in BOOLEAN :
         no = FALSE /\ hist' = HistMoved(h3, active_route(health), active_route(health'), no)
  BY Zenon DEF Sample
<1>2b. PICK no \in BOOLEAN :
         no = FALSE /\ hist' = HistMoved(h3, active_route(health), active_route(health'), no)
  BY <1>2a
<1>3. (sent \/ s) \in BOOLEAN /\ R \in BOOLEAN
  BY DEF MonitorInv, TypeOK
<1>4. Observation(health, res, R, now', routes)
  BY <1>1, <1>2, <1>3, ObservedObservation
<1> HIDE DEF res, R
<1>5. FitsRoutes(health', routes') /\ decision' \in Decision
  BY <1>2, <1>4 DEF Observation
<1>6. hist \in History /\ active_route(health) \in RouteKey
  BY ActiveRouteIsKey DEF MonitorInv, TypeOK
<1>7. /\ h1 \in History /\ h1.failoverAt = hist.failoverAt
      /\ h1.heardAt = IF r THEN now' ELSE hist.heardAt
      /\ h1.deadSince = IF s /\ ~r THEN FirstOf(hist.deadSince, now) ELSE None
      /\ h1.probeFrom = hist.probeFrom /\ h1.blamedAt = hist.blamedAt
      /\ SamePlace(hist, h1)
  BY <1>1, <1>6, HistoryMoves
<1> HIDE DEF h1
<1>8. /\ h2 \in History /\ h2.failoverAt = hist.failoverAt /\ h2.heardAt = h1.heardAt
      /\ h2.deadSince = h1.deadSince /\ h2.probeFrom = h1.probeFrom /\ SamePlace(h1, h2)
      /\ \A x \in RouteKey : h2.blamedAt[x]
           = IF Blamed(health, health', x) THEN now' ELSE h1.blamedAt[x]
  BY <1>1, <1>7, HistoryBlames
<1> HIDE DEF h2
<1>9. /\ h3 \in History /\ h3.heardAt = h1.heardAt
      /\ h3.deadSince = h1.deadSince /\ h3.blamedAt = h2.blamedAt /\ SamePlace(h2, h3)
      /\ h3.probeFrom
           = IF decision'.kind = "RecoveryProbe" THEN active_route(health)
             ELSE IF decision'.kind = "RecoveryFailed" THEN NoRoute ELSE h2.probeFrom
      /\ h3.failoverAt = IF decision'.kind = "Failover" THEN now' ELSE hist.failoverAt
  BY <1>1, <1>5, <1>6, <1>8, HistoryDecides
<1> HIDE DEF h3
<1>10. /\ hist' \in History
       /\ hist'.heardAt = IF r THEN now' ELSE hist.heardAt
       /\ hist'.failoverAt = IF decision'.kind = "Failover" THEN now' ELSE hist.failoverAt
  BY <1>1, <1>2b, <1>7, <1>9, HistoryMoved
<1>10a. SampleHistory(s, r)
  <2> DEFINE A == active_route(health)
             B == active_route(health')
  <2>2. /\ hist'.blamedAt = h3.blamedAt /\ hist'.probeFrom = h3.probeFrom
        /\ A = B => hist' = h3
        /\ A # B => hist'.activeSince = now' /\ hist'.byMap = no /\ hist'.deadSince = None
    BY <1>1, <1>2b, <1>9, HistoryMoved
  <2>3. /\ \A x \in RouteKey : hist'.blamedAt[x]
             = IF Blamed(health, health', x) THEN now' ELSE hist.blamedAt[x]
        /\ hist'.probeFrom
             = IF decision'.kind = "RecoveryProbe" THEN A
               ELSE IF decision'.kind = "RecoveryFailed" THEN NoRoute ELSE hist.probeFrom
    BY <1>7, <1>8, <1>9, <2>2
  <2>4. A = B => /\ SamePlace(hist, hist')
                 /\ hist'.deadSince = IF s /\ ~r THEN FirstOf(hist.deadSince, now) ELSE None
    BY <1>7, <1>8, <1>9, <2>2 DEF SamePlace
  <2> QED
    BY <1>2b, <2>2, <2>3, <2>4 DEF SampleHistory
<1>11. TypeOK'
  <2>1. sent' \in BOOLEAN /\ received' \in BOOLEAN
    BY <1>2
  <2> QED
    BY <1>1, <1>2, <1>5, <1>10, <2>1 DEF MonitorInv, TypeOK, FitsRoutes, Decision
<1>12. ClocksOrdered'
  <2>1. /\ health.last_switch \in Nat /\ health.last_switch > 0
        /\ health.last_inbound_at \in Nat /\ health.switch_count \in Nat
        /\ hist.heardAt \in Nat /\ hist.failoverAt \in Nat
    BY HealthFields DEF MonitorInv, TypeOK, History, MaybeInstant, Instant
  <2>2. ClocksOrdered
    BY DEF MonitorInv
  <2>3. r => R
    BY DEF R
  <2>4. ~R => ~received
    BY DEF R
  <2>5. decision'.kind = "Failover" => Restarted(health', now')
    BY <1>2, <1>4 DEF Observation
  <2>6. CASE SameClock(health, health') /\ ~R
    BY <1>1, <1>2, <1>10, <2>1, <2>2, <2>3, <2>4, <2>5, <2>6
       DEF ClocksOrdered, SameClock, Anchor, Restarted, None
  <2>7. CASE /\ health'.last_switch = health.last_switch
             /\ health'.last_inbound_at = now'
             /\ health'.switch_count = health.switch_count
    BY <1>1, <1>2, <1>10, <2>1, <2>2, <2>5, <2>7
       DEF ClocksOrdered, Anchor, Restarted, None
  <2>8. CASE Restarted(health', now')
    BY <1>1, <1>2, <1>10, <2>1, <2>2, <2>8
       DEF ClocksOrdered, Anchor, Restarted, None
  <2> QED
    BY <1>2, <1>4, <2>6, <2>7, <2>8 DEF Observation
<1> QED
  BY <1>2, <1>4, <1>5, <1>10, <1>10a, <1>11, <1>12 DEF MonitorInv, res, R

(* A pass that leaves the health record alone: a rolled-back switch, or a   *)
(* peer with a single policy.  What was received stays pending.             *)
LEMMA PendingInv ==
  ASSUME MonitorInv, NEW gap \in 1..MaxGap, NEW s \in BOOLEAN, NEW r \in BOOLEAN,
         SampleRolledBack(gap, s, r) \/ Skip(gap, s, r)
  PROVE  /\ MonitorInv' /\ health' = health
         /\ now' > now /\ routes' = routes
         /\ received' = (received \/ r) /\ decision'.kind = "Stay"
         /\ hist'.heardAt = IF r THEN now' ELSE hist.heardAt
         /\ hist'.deadSince = None /\ hist'.probeFrom = hist.probeFrom
         /\ hist'.blamedAt = hist.blamedAt /\ SamePlace(hist, hist')
<1> DEFINE h1 == HistTraffic(hist, s, r)
<1>1. /\ now \in Nat /\ now' \in Nat /\ now' > now /\ now \in Instant /\ now' \in Instant
  BY MonitorAssumption DEF MonitorInv, TypeOK, SampleRolledBack, Skip, Pass, Instant
<1>2. /\ routes' = routes /\ maps' = maps /\ health' = health
      /\ sent' = (sent \/ s) /\ received' = (received \/ r)
      /\ hist' = [h1 EXCEPT !.deadSince = None]
      /\ decision' = [kind |-> "Stay", next_policy |-> None]
  BY DEF SampleRolledBack, Skip
<1>3. decision' \in Decision
  BY <1>2 DEF Decision, DecisionKind, None
<1>4. /\ h1 \in History /\ h1.failoverAt = hist.failoverAt
      /\ h1.heardAt = IF r THEN now' ELSE hist.heardAt
      /\ h1.probeFrom = hist.probeFrom /\ h1.blamedAt = hist.blamedAt
      /\ SamePlace(hist, h1)
  BY <1>1, HistoryMoves DEF MonitorInv, TypeOK
<1> HIDE DEF h1
<1>5. /\ hist' \in History /\ hist'.failoverAt = hist.failoverAt
      /\ hist'.heardAt = IF r THEN now' ELSE hist.heardAt
      /\ hist'.deadSince = None /\ hist'.probeFrom = hist.probeFrom
      /\ hist'.blamedAt = hist.blamedAt /\ SamePlace(hist, hist')
  <2>1. None \in MaybeInstant
    BY DEF None, MaybeInstant
  <2> QED
    BY <1>2, <1>4, <2>1 DEF History, SamePlace
<1>6. sent' \in BOOLEAN /\ received' \in BOOLEAN
  BY <1>2 DEF MonitorInv, TypeOK
<1>7. TypeOK'
  BY <1>1, <1>2, <1>3, <1>5, <1>6 DEF MonitorInv, TypeOK, Decision
<1>8. FitsRoutes(health, routes)'
  BY <1>2 DEF MonitorInv
<1>9. ClocksOrdered'
  <2>1. /\ health.last_switch \in Nat /\ health.last_inbound_at \in Nat
        /\ hist.heardAt \in Nat /\ hist.failoverAt \in Nat
    BY HealthFields DEF MonitorInv, TypeOK, History, MaybeInstant, Instant
  <2>2. ClocksOrdered
    BY DEF MonitorInv
  <2>3. ~received' => ~received /\ ~r
    BY <1>2
  <2> QED
    BY <1>1, <1>2, <1>5, <2>1, <2>2, <2>3 DEF ClocksOrdered, Anchor, None
<1>10. decision'.kind = "Stay"
  BY <1>2
<1> QED
  BY <1>1, <1>2, <1>5, <1>7, <1>8, <1>9, <1>10 DEF MonitorInv

(* What a map update writes to the history, and what it makes of the        *)
(* entries.                                                                 *)
MapHistory(new) ==
  LET moved == active_route(health) # active_route(health')
  IN  /\ hist'.heardAt = hist.heardAt /\ hist'.blamedAt = hist.blamedAt
      /\ hist'.probeFrom = NoRoute
      /\ moved => hist'.byMap = TRUE /\ hist'.deadSince = None
      /\ ~moved => SamePlace(hist, hist') /\ hist'.deadSince = hist.deadSince
      /\ SameClock(health, health')
      /\ health'.has_observed_stats = health.has_observed_stats
      /\ Len(health'.policy_health) = Len(new)
      /\ \A i \in 1..Len(new) : health'.policy_health[i] = EntryFor(health, new[i])

(* A map update preserves the inductive invariant.                          *)
LEMMA MapUpdateInv ==
  ASSUME MonitorInv, NEW new \in RouteLists, MapUpdate(new)
  PROVE  /\ MonitorInv'
         /\ MapHistory(new)
         /\ now' = now /\ received' = received /\ routes' = new
<1> DEFINE same == {i \in 1..Len(new) : new[i] = active_route(health)}
           k == IF same = {} THEN 1 ELSE CHOOSE i \in same : TRUE
           h1 == [hist EXCEPT !.probeFrom = NoRoute]
<1>1. /\ routes' = new /\ now' = now /\ sent' = sent /\ received' = received
      /\ decision' = decision /\ maps' = maps + 1 /\ maps < MaxMaps
      /\ health' = sync_policies(health, k, new)
  BY DEF MapUpdate, CarryForward
<1>1a. \E yes \in BOOLEAN :
         yes = TRUE /\ hist' = HistMoved(h1, active_route(health), active_route(health'), yes)
  BY Zenon DEF MapUpdate
<1>1b. PICK yes \in BOOLEAN :
         yes = TRUE /\ hist' = HistMoved(h1, active_route(health), active_route(health'), yes)
  BY <1>1a
<1>2. GoodList(new) /\ Sound(health) /\ Len(new) \in Nat
  BY ListsAreGood, FittingIsSound DEF MonitorInv, TypeOK, GoodList
<1>3. k \in Nat \ {0}
  <2>1. same # {} => k \in same
    BY Zenon
  <2> QED
    BY <1>2, <2>1
<1> HIDE DEF k
<1>4. /\ FitsRoutes(health', routes') /\ SameClock(health, health')
      /\ health'.has_observed_stats = health.has_observed_stats
  BY <1>1, <1>2, <1>3, SyncFits
<1>4a. \A i \in 1..Len(new) : health'.policy_health[i] = EntryFor(health, new[i])
  <2> DEFINE ph == [i \in 1..Len(new) |-> EntryFor(health, new[i])]
             ap == AtMost(k, Len(new))
             rf == IF health.recovery_fallback > Len(new) THEN None
                   ELSE health.recovery_fallback
  <2>1. health' = [health EXCEPT !.policy_health = ph, !.active_policy = ap,
                                 !.recovery_fallback = rf]
    BY <1>1 DEF sync_policies
  <2> HIDE DEF ph, ap, rf
  <2>2. health'.policy_health = ph
    BY <1>2, <2>1 DEF Sound, Health
  <2> QED
    BY <2>2 DEF ph
<1>5. /\ hist' \in History /\ hist'.heardAt = hist.heardAt
      /\ hist'.failoverAt = hist.failoverAt /\ hist'.blamedAt = hist.blamedAt
      /\ hist'.probeFrom = NoRoute
      /\ active_route(health) # active_route(health') =>
           hist'.byMap = yes /\ hist'.deadSince = None
      /\ active_route(health) = active_route(health') =>
           SamePlace(hist, hist') /\ hist'.deadSince = hist.deadSince
  <2>1. /\ h1 \in History /\ h1.heardAt = hist.heardAt
        /\ h1.failoverAt = hist.failoverAt /\ h1.blamedAt = hist.blamedAt
        /\ h1.probeFrom = NoRoute /\ h1.deadSince = hist.deadSince
        /\ SamePlace(hist, h1)
    BY DEF MonitorInv, TypeOK, History, SamePlace
  <2>2. now' \in Instant
    BY <1>1 DEF MonitorInv, TypeOK
  <2>3. hist' = HistMoved(h1, active_route(health), active_route(health'), yes)
    BY <1>1b
  <2> DEFINE A == active_route(health)
             B == active_route(health')
  <2> HIDE DEF h1, A, B
  <2>4. /\ HistMoved(h1, A, B, yes) \in History
        /\ HistMoved(h1, A, B, yes).heardAt = h1.heardAt
        /\ HistMoved(h1, A, B, yes).failoverAt = h1.failoverAt
        /\ HistMoved(h1, A, B, yes).probeFrom = h1.probeFrom
        /\ HistMoved(h1, A, B, yes).blamedAt = h1.blamedAt
        /\ A = B => HistMoved(h1, A, B, yes) = h1
        /\ A # B => /\ HistMoved(h1, A, B, yes).byMap = yes
                    /\ HistMoved(h1, A, B, yes).deadSince = None
    <3>1. yes \in BOOLEAN /\ h1 \in History /\ now' \in Instant
      BY <1>1b, <2>1, <2>2
    <3> QED
      BY ONLY <3>1, HistoryMoved
  <2>5. hist' = HistMoved(h1, A, B, yes)
    BY <2>3 DEF A, B
  <2>6. A = B => SamePlace(hist, hist') /\ hist'.deadSince = hist.deadSince
    BY <2>1, <2>4, <2>5 DEF SamePlace
  <2> QED
    BY <2>1, <2>4, <2>5, <2>6 DEF A, B
<1>6. maps' \in 0..MaxMaps
  BY <1>1, MonitorAssumption DEF MonitorInv, TypeOK
<1>7. TypeOK'
  BY <1>1, <1>4, <1>5, <1>6 DEF MonitorInv, TypeOK, FitsRoutes
<1>8. ClocksOrdered'
  BY <1>1, <1>4, <1>5 DEF MonitorInv, ClocksOrdered, SameClock, Anchor
<1>9. MapHistory(new)
  BY <1>1, <1>1b, <1>4, <1>4a, <1>5 DEF MapHistory, FitsRoutes
<1> QED
  BY <1>1, <1>4, <1>7, <1>8, <1>9 DEF MonitorInv

(* Every step preserves the inductive invariant.                            *)
LEMMA NextInv == MonitorInv /\ [Next]_vars => MonitorInv'
<1> SUFFICES ASSUME MonitorInv, [Next]_vars PROVE MonitorInv'
  OBVIOUS
<1>1. ASSUME NEW gap \in 1..MaxGap, NEW s \in BOOLEAN, NEW r \in BOOLEAN, Sample(gap, s, r)
      PROVE  MonitorInv'
  BY <1>1, SampleInv
<1>2. ASSUME NEW gap \in 1..MaxGap, NEW s \in BOOLEAN, NEW r \in BOOLEAN,
             SampleRolledBack(gap, s, r) \/ Skip(gap, s, r)
      PROVE  MonitorInv'
  BY <1>2, PendingInv
<1>3. ASSUME NEW new \in RouteLists, MapUpdate(new)
      PROVE  MonitorInv'
  BY <1>3, MapUpdateInv
<1>4. CASE UNCHANGED vars
  BY <1>4 DEF vars, MonitorInv, TypeOK, ClocksOrdered, Anchor
<1> QED
  BY <1>1, <1>2, <1>3, <1>4 DEF Next
-----------------------------------------------------------------------------
(* Types: the health record of a peer always has one entry per policy of    *)
(* the current map, and active_policy and recovery_fallback are in range --  *)
(* the indexing of PeerHealth::observe never goes out of bounds.            *)
THEOREM TypeCorrect == Spec => []TypeOK
<1>1. MonitorInv => TypeOK
  BY DEF MonitorInv
<1> QED
  BY InitInv, NextInv, <1>1, PTL DEF Spec

(* PolicyHealth.state is kept consistent with suspicion (is_failed may read *)
(* either), however successes, failures, decay and map updates alternate.   *)
THEOREM LabelsAgree == Spec => []LabelAgreesWithScore
<1>1. MonitorInv => LabelAgreesWithScore
  BY HealthFields DEF MonitorInv, FitsRoutes, LabelAgreesWithScore
<1> QED
  BY InitInv, NextInv, <1>1, PTL DEF Spec

SpacingStep ==
  decision'.kind = "Failover" /\ now' # now /\ hist.failoverAt # None
    => now' - hist.failoverAt >= MIN_POLICY_SWITCH_INTERVAL
       \/ hist'.failoverAt = hist.failoverAt

(* The step form of FailoversAreSpaced.                                     *)
LEMMA SpacingStepHolds == MonitorInv /\ [Next]_vars => [SpacingStep]_vars
<1> SUFFICES ASSUME MonitorInv, Next, decision'.kind = "Failover", now' # now,
                    hist.failoverAt # None
             PROVE  \/ now' - hist.failoverAt >= MIN_POLICY_SWITCH_INTERVAL
                    \/ hist'.failoverAt = hist.failoverAt
  BY DEF SpacingStep
<1>0. /\ health \in Health /\ health.last_switch \in Nat /\ hist.failoverAt \in Nat
      /\ now \in Nat /\ hist \in History
      /\ hist.failoverAt <= health.last_switch /\ health.switch_count >= 1
      /\ MIN_POLICY_SWITCH_INTERVAL \in Nat
  BY HealthFields, IntervalAssumption
     DEF MonitorInv, TypeOK, ClocksOrdered, History, MaybeInstant, Instant
<1>1. ASSUME NEW gap \in 1..MaxGap, NEW s \in BOOLEAN, NEW r \in BOOLEAN, Sample(gap, s, r)
      PROVE  now' - hist.failoverAt >= MIN_POLICY_SWITCH_INTERVAL
  <2> DEFINE R == received \/ r
             res == Observed(sent \/ s, R)
  <2>1. Observation(health, res, R, now', routes) /\ decision' = res.decision
    BY <1>1, SampleInv
  <2> HIDE DEF res, R
  <2>2. cooldown_elapsed(health, now')
    BY <2>1 DEF Observation
  <2>3. now' - health.last_switch >= current_switch_cooldown(health)
    BY <2>2 DEF cooldown_elapsed
  <2>4. /\ current_switch_cooldown(health) \in Nat
        /\ current_switch_cooldown(health) >= MIN_POLICY_SWITCH_INTERVAL
    BY <1>0, CooldownIsLong
  <2>5. now' \in Nat
    BY <1>0, <1>1 DEF Sample, Pass
  <2> QED
    BY <1>0, <2>3, <2>4, <2>5
<1>2. ASSUME NEW gap \in 1..MaxGap, NEW s \in BOOLEAN, NEW r \in BOOLEAN,
             SampleRolledBack(gap, s, r) \/ Skip(gap, s, r)
      PROVE  hist'.failoverAt = hist.failoverAt
  BY <1>0, <1>2 DEF SampleRolledBack, Skip, HistTraffic, History
<1>3. ASSUME NEW new \in RouteLists, MapUpdate(new)
      PROVE  FALSE
  BY <1>3 DEF MapUpdate
<1> QED
  BY <1>1, <1>2, <1>3 DEF Next

(* Two failovers are at least MIN_POLICY_SWITCH_INTERVAL apart: the         *)
(* exponential backoff of current_switch_cooldown cannot be bypassed by     *)
(* probes, aborted probes, rollbacks or maps.                               *)
THEOREM FailoversSpaced == Spec => FailoversAreSpaced
<1>1. FailoversAreSpaced <=> [][SpacingStep]_vars
  BY DEF FailoversAreSpaced, SpacingStep
<1> QED
  BY InitInv, NextInv, SpacingStepHolds, <1>1, PTL DEF Spec
-----------------------------------------------------------------------------
(* The properties about single routes need more: what each entry of the     *)
(* health record says of the past.                                          *)

(* No entry knows of the future, and a failed one remembers exactly when it *)
(* was last blamed.                                                         *)
EntriesInv ==
  \A i \in 1..Len(health.policy_health) :
    LET p == health.policy_health[i]
    IN  /\ p.last_failure <= now
        /\ p.last_success <= now
        /\ is_failed(p) => /\ health.has_observed_stats
                           /\ p.last_failure = hist.blamedAt[p.route]

(* Unless a map put the active route in place, the stay on it began with    *)
(* the last switch, and a success it can show since then was really heard;  *)
(* the fallback of a probe is the route the probe left.                     *)
ProbeInv ==
  /\ received => hist.heardAt >= health.last_switch
  /\ ~hist.byMap =>
       /\ hist.activeSince = health.last_switch
       /\ health.policy_health[health.active_policy].last_success >= health.last_switch
            => hist.heardAt >= health.last_switch
  /\ hist.probeFrom # NoRoute /\ health.recovery_fallback # None =>
       health.policy_health[health.recovery_fallback].route = hist.probeFrom

(* While every sample finds traffic unanswered the inbound clock stands     *)
(* still, and from the first pass after the silence window on every pass    *)
(* blames the active route.                                                 *)
DeadInv ==
  hist.deadSince # None =>
    /\ health.has_observed_stats
    /\ ~received
    /\ hist.deadSince < now
    /\ Anchor(health) <= hist.deadSince + MaxGap
    /\ now >= Anchor(health) + INBOUND_SILENCE_TIMEOUT /\ now > hist.deadSince + MaxGap =>
         /\ health.policy_health[health.active_policy].suspicion >= 2
         /\ health.policy_health[health.active_policy].last_failure = now

RoutesInv == EntriesInv /\ ProbeInv /\ DeadInv

(* The fields of a fitting record and its entries, in the form the provers  *)
(* use them.                                                                *)
LEMMA FittingFields ==
  ASSUME NEW h, NEW rts, FitsRoutes(h, rts), GoodList(rts)
  PROVE  /\ h \in Health /\ Sound(h)
         /\ Len(rts) \in Nat /\ Len(h.policy_health) = Len(rts)
         /\ DOMAIN h.policy_health = 1..Len(rts)
         /\ h.active_policy \in 1..Len(rts)
         /\ h.recovery_fallback \in Nat /\ h.recovery_fallback <= Len(rts)
         /\ h.last_switch \in Nat /\ h.last_inbound_at \in Nat
         /\ \A i \in 1..Len(rts) :
              /\ h.policy_health[i] \in PolicyHealthEntry
              /\ LabelFits(h.policy_health[i])
              /\ h.policy_health[i].route = rts[i]
              /\ rts[i] \in RouteKey
              /\ h.policy_health[i].last_failure \in Nat
              /\ h.policy_health[i].last_success \in Nat
              /\ h.policy_health[i].suspicion \in 0..4
              /\ EntryFor(h, rts[i]) = h.policy_health[i]
         /\ active_route(h) = rts[h.active_policy]
<1>1. Sound(h) /\ h \in Health
  BY FittingIsSound DEF FitsRoutes
<1>2. /\ Len(rts) \in Nat /\ Len(h.policy_health) = Len(rts)
      /\ DOMAIN h.policy_health = 1..Len(rts)
      /\ h.active_policy \in 1..Len(rts)
      /\ h.recovery_fallback \in Nat /\ h.recovery_fallback <= Len(rts)
      /\ h.last_switch \in Nat /\ h.last_inbound_at \in Nat
  BY <1>1, HealthFields DEF FitsRoutes, GoodList, Instant, MaybeInstant
<1>3. ASSUME NEW i \in 1..Len(rts)
      PROVE  /\ h.policy_health[i] \in PolicyHealthEntry
             /\ LabelFits(h.policy_health[i])
             /\ h.policy_health[i].route = rts[i]
             /\ rts[i] \in RouteKey
             /\ h.policy_health[i].last_failure \in Nat
             /\ h.policy_health[i].last_success \in Nat
             /\ h.policy_health[i].suspicion \in 0..4
             /\ EntryFor(h, rts[i]) = h.policy_health[i]
  <2>1. /\ h.policy_health[i] \in PolicyHealthEntry
        /\ LabelFits(h.policy_health[i])
        /\ h.policy_health[i].route = rts[i]
        /\ rts[i] \in RouteKey
    BY <1>1, <1>2, HealthFields DEF FitsRoutes, GoodList
  <2>2. EntryFor(h, rts[i]) = h.policy_health[i]
    BY <1>1, <1>2, <2>1, EntryForAt
  <2> QED
    BY <2>1, <2>2, EntryFields DEF MaybeInstant
<1>4. active_route(h) = rts[h.active_policy]
  BY <1>2, <1>3 DEF active_route
<1> QED
  BY <1>1, <1>2, <1>3, <1>4

(* The same for the record at hand, with the history.                       *)
LEMMA MonitorFields ==
  ASSUME MonitorInv
  PROVE  /\ health \in Health /\ Sound(health)
         /\ Len(routes) \in Nat /\ Len(health.policy_health) = Len(routes)
         /\ DOMAIN health.policy_health = 1..Len(routes)
         /\ health.active_policy \in 1..Len(routes)
         /\ health.recovery_fallback \in Nat /\ health.recovery_fallback <= Len(routes)
         /\ health.last_switch \in Nat /\ health.last_inbound_at \in Nat
         /\ \A i \in 1..Len(routes) :
              /\ health.policy_health[i] \in PolicyHealthEntry
              /\ LabelFits(health.policy_health[i])
              /\ health.policy_health[i].route = routes[i]
              /\ routes[i] \in RouteKey
              /\ health.policy_health[i].last_failure \in Nat
              /\ health.policy_health[i].last_success \in Nat
              /\ health.policy_health[i].suspicion \in 0..4
              /\ EntryFor(health, routes[i]) = health.policy_health[i]
         /\ active_route(health) = routes[health.active_policy]
         /\ GoodList(routes)
         /\ hist.heardAt \in Nat /\ hist.deadSince \in Nat /\ now \in Nat
         /\ now \in Instant /\ hist \in History
<1>1. FitsRoutes(health, routes) /\ GoodList(routes)
  BY ListsAreGood DEF MonitorInv, TypeOK
<1>2. /\ hist.heardAt \in Nat /\ hist.deadSince \in Nat /\ now \in Nat
      /\ now \in Instant /\ hist \in History
  BY DEF MonitorInv, TypeOK, History, MaybeInstant, Instant
<1> QED
  BY <1>1, <1>2, FittingFields

(* And for the record after a step that keeps the policies.                 *)
LEMMA FieldsAfter ==
  ASSUME MonitorInv, MonitorInv', routes' = routes
  PROVE  /\ health' \in Health /\ Sound(health')
         /\ Len(routes) \in Nat /\ Len(health'.policy_health) = Len(routes)
         /\ DOMAIN health'.policy_health = 1..Len(routes)
         /\ health'.active_policy \in 1..Len(routes)
         /\ health'.recovery_fallback \in Nat /\ health'.recovery_fallback <= Len(routes)
         /\ health'.last_switch \in Nat /\ health'.last_inbound_at \in Nat
         /\ \A i \in 1..Len(routes) :
              /\ health'.policy_health[i] \in PolicyHealthEntry
              /\ LabelFits(health'.policy_health[i])
              /\ health'.policy_health[i].route = routes[i]
              /\ routes[i] \in RouteKey
              /\ health'.policy_health[i].last_failure \in Nat
              /\ health'.policy_health[i].last_success \in Nat
              /\ health'.policy_health[i].suspicion \in 0..4
              /\ EntryFor(health', routes[i]) = health'.policy_health[i]
         /\ active_route(health') = routes[health'.active_policy]
         /\ hist'.heardAt \in Nat /\ hist'.deadSince \in Nat
<1>1. FitsRoutes(health', routes) /\ GoodList(routes)
  BY ListsAreGood DEF MonitorInv, TypeOK
<1>2. hist'.heardAt \in Nat /\ hist'.deadSince \in Nat
  BY DEF MonitorInv, TypeOK, History, MaybeInstant
<1> QED
  BY <1>1, <1>2, FittingFields

(* Initially nothing has happened yet.                                      *)
LEMMA InitRoutes == Init => RoutesInv
<1> SUFFICES ASSUME Init PROVE RoutesInv
  OBVIOUS
<1>1. MonitorInv
  BY InitInv
<1>2. PICK active \in 1..Len(routes), jitter \in 0..MAX_HEALTH_JITTER :
        health = sync_policies(new_with_jitter(active, now, jitter), active, routes)
  BY DEF Init
<1> DEFINE h == new_with_jitter(active, now, jitter)
           ph == [i \in 1..Len(routes) |-> EntryFor(h, routes[i])]
           ap == AtMost(active, Len(routes))
           rf == IF h.recovery_fallback > Len(routes) THEN None ELSE h.recovery_fallback
<1>3. /\ h.policy_health = <<>> /\ h.recovery_fallback = None
      /\ h.last_switch = now
  BY DEF new_with_jitter
<1>4. health = [h EXCEPT !.policy_health = ph, !.active_policy = ap,
                         !.recovery_fallback = rf]
  BY <1>2 DEF sync_policies
<1>5. rf = None
  BY <1>3
<1>6. health.policy_health = ph /\ health.recovery_fallback = None /\ health.last_switch = now
  <2> HIDE DEF ph, ap, rf
  <2> QED
    BY <1>3, <1>4, <1>5 DEF new_with_jitter
<1>7. \A i \in 1..Len(routes) : health.policy_health[i] = NewEntry(routes[i])
  <2>1. \A i \in DOMAIN h.policy_health : FALSE
    BY <1>3
  <2>2. \A r : EntryFor(h, r) = NewEntry(r)
    <3> HIDE DEF h
    <3> QED
      BY <2>1, EntryForNew
  <2> QED
    BY <1>6, <2>2
<1> HIDE DEF h, ph, ap, rf
<1>8. \A r : /\ NewEntry(r).last_failure = 0 /\ NewEntry(r).last_success = 0
             /\ ~is_failed(NewEntry(r))
  BY DEF NewEntry, None, is_failed, POLICY_FAILURE_SCORE
<1>9. /\ now = 1 /\ ~received /\ hist.deadSince = None /\ hist.activeSince = now
      /\ hist.probeFrom = NoRoute
  BY DEF Init
<1>10. EntriesInv
  BY <1>1, <1>7, <1>8, <1>9, MonitorFields DEF EntriesInv
<1>11. ProbeInv
  <2>1. health.policy_health[health.active_policy].last_success = 0
    BY <1>1, <1>7, <1>8, MonitorFields
  <2> QED
    BY <1>6, <1>9, <2>1 DEF ProbeInv
<1>12. DeadInv
  BY <1>9 DEF DeadInv
<1> QED
  BY <1>10, <1>11, <1>12 DEF RoutesInv
-----------------------------------------------------------------------------
(* Samples. *)

(* A sample in full.  S and R are the traffic the health record has not     *)
(* seen yet, what earlier passes left pending included.                     *)
SampleFacts(s, r, S, R) ==
  LET res == [health |-> health', decision |-> decision']
  IN  /\ S <=> sent \/ s
      /\ R <=> received \/ r
      /\ IF health.has_observed_stats THEN Scored(health, res, S, R, now')
         ELSE Seeded(health, res, R, now')
      /\ SampleHistory(s, r)
      /\ hist'.heardAt = IF r THEN now' ELSE hist.heardAt
      /\ now' \in Instant /\ now' \in Nat /\ now < now' /\ now' <= now + MaxGap
      /\ routes' = routes
      /\ received' = FALSE

(* Every sample is one.                                                     *)
LEMMA SampleInFull ==
  ASSUME MonitorInv, NEW gap \in 1..MaxGap, NEW s \in BOOLEAN, NEW r \in BOOLEAN,
         Sample(gap, s, r)
  PROVE  \E S, R \in BOOLEAN : SampleFacts(s, r, S, R)
<1>1. \E S, R \in BOOLEAN : /\ S = (sent \/ s) /\ R = (received \/ r)
                            /\ health' = Observed(S, R).health
                            /\ decision' = Observed(S, R).decision
  BY Zenon DEF Sample, MonitorInv, TypeOK
<1>2. PICK S, R \in BOOLEAN : /\ S = (sent \/ s) /\ R = (received \/ r)
                             /\ health' = Observed(S, R).health
                             /\ decision' = Observed(S, R).decision
  BY <1>1
<1>3. /\ now' \in Instant /\ now' \in Nat /\ now < now' /\ now' <= now + MaxGap
      /\ Len(routes) > 1 /\ routes' = routes /\ received' = FALSE
  BY MonitorAssumption DEF MonitorInv, TypeOK, Sample, Pass, Instant
<1>4. FitsRoutes(health, routes) /\ GoodList(routes)
  BY MonitorFields DEF MonitorInv
<1>5. PICK res : res = observe(health, routes, S, R, now')
  OBVIOUS
<1>6. health' = res.health /\ decision' = res.decision
  BY <1>2, <1>4, <1>5, SyncIsIdle DEF Observed
<1>7. IF health.has_observed_stats THEN Scored(health, res, S, R, now')
      ELSE Seeded(health, res, R, now')
  <2>1. S \in BOOLEAN /\ R \in BOOLEAN
    OBVIOUS
  <2> QED
    BY ONLY <1>3, <1>4, <1>5, <2>1, ObserveInFull
<1>8. PICK res2 : res2 = [health |-> health', decision |-> decision']
  OBVIOUS
<1>9. res2.health = res.health /\ res2.decision = res.decision
  BY <1>6, <1>8
<1>10. IF health.has_observed_stats THEN Scored(health, res2, S, R, now')
       ELSE Seeded(health, res2, R, now')
  BY <1>7, <1>9 DEF Scored, Seeded, GoesBack
<1>11. SampleHistory(s, r) /\ hist'.heardAt = IF r THEN now' ELSE hist.heardAt
  BY SampleInv
<1>12. (S <=> sent \/ s) /\ (R <=> received \/ r)
  BY <1>2
<1>13. SampleFacts(s, r, S, R)
  BY <1>3, <1>8, <1>10, <1>11, <1>12 DEF SampleFacts
<1> QED
  BY <1>13

(* What the sample did to entry i. *)
LEMMA SampleEntry ==
  ASSUME MonitorInv, MonitorInv', EntriesInv,
         NEW s \in BOOLEAN, NEW r \in BOOLEAN, NEW S \in BOOLEAN, NEW R \in BOOLEAN,
         SampleFacts(s, r, S, R), health.has_observed_stats, NEW i \in 1..Len(routes)
  PROVE  LET p == health.policy_health[i]
             q == health'.policy_health[i]
             d == decay(p, now')
             sample == classify(health, S, R, now')
         IN  /\ i # health.active_policy => q = d
             /\ i = health.active_policy => q = Folded(d, sample, now')
             /\ sample \in {"Healthy", "Unhealthy", "Idle"}
             /\ d \in PolicyHealthEntry /\ d.suspicion \in 0..4
             /\ p.last_failure < now' /\ p.last_success < now'
             /\ d.last_success = p.last_success
             /\ d.last_failure <= now'
             /\ is_failed(d) => /\ is_failed(p)
                                /\ d.last_failure = p.last_failure
                                /\ now' - p.last_failure < POLICY_FAILURE_DECAY_INTERVAL
             /\ now' - p.last_failure < POLICY_FAILURE_DECAY_INTERVAL =>
                  d.suspicion = p.suspicion
<1> DEFINE p == health.policy_health[i]
           q == health'.policy_health[i]
           d == decay(p, now')
           sample == classify(health, S, R, now')
<1>1. /\ p \in PolicyHealthEntry /\ LabelFits(p) /\ p.last_failure \in Nat
      /\ p.last_success \in Nat /\ now \in Nat
      /\ Len(health.policy_health) = Len(routes)
  BY MonitorFields
<1>2. now' \in Instant /\ now' \in Nat /\ now < now'
  BY DEF SampleFacts
<1>3. p.last_failure <= now /\ p.last_success <= now
  BY <1>1 DEF EntriesInv
<1>4. q = EntryAfter(health, S, R, now', i)
  BY <1>1 DEF SampleFacts, Scored
<1>5. sample \in {"Healthy", "Unhealthy", "Idle"}
  BY DEF classify
<1>6. /\ i # health.active_policy => q = d
      /\ i = health.active_policy => q = Folded(d, sample, now')
  BY <1>4 DEF EntryAfter
<1> HIDE DEF p, q, sample
<1>7. d \in PolicyHealthEntry
  BY <1>1, <1>2, DecayFits
<1>8. p.last_failure < now' /\ p.last_success < now' /\ p.last_failure <= now'
  BY <1>1, <1>2, <1>3
<1>9. /\ d.last_success = p.last_success
      /\ d.last_failure <= now'
      /\ is_failed(d) => /\ is_failed(p)
                         /\ d.last_failure = p.last_failure
                         /\ now' - p.last_failure < POLICY_FAILURE_DECAY_INTERVAL
      /\ now' - p.last_failure < POLICY_FAILURE_DECAY_INTERVAL =>
           d.suspicion = p.suspicion
  BY <1>1, <1>2, <1>8, DecayHistory
<1>10. d.suspicion \in 0..4
  BY <1>7, EntryFields
<1> QED
  BY <1>5, <1>6, <1>7, <1>8, <1>9, <1>10 DEF p, q, sample

(* A sample blames the active route exactly when it is Unhealthy.           *)
LEMMA SampleBlames ==
  ASSUME MonitorInv, MonitorInv', EntriesInv,
         NEW s \in BOOLEAN, NEW r \in BOOLEAN, NEW S \in BOOLEAN, NEW R \in BOOLEAN,
         SampleFacts(s, r, S, R), NEW x \in RouteKey
  PROVE  Blamed(health, health', x) <=>
           /\ x = active_route(health)
           /\ health.has_observed_stats
           /\ classify(health, S, R, now') = "Unhealthy"
<1> DEFINE a == health.active_policy
           p == health.policy_health[a]
           q == health'.policy_health[a]
           sample == classify(health, S, R, now')
<1>1. /\ a \in 1..Len(routes) /\ routes' = routes /\ now' # now /\ now' \in Instant
      /\ p \in PolicyHealthEntry /\ LabelFits(p) /\ p.last_failure < now'
  <2>1. /\ a \in 1..Len(routes) /\ routes' = routes /\ now' # now /\ now' \in Instant
        /\ p \in PolicyHealthEntry /\ LabelFits(p) /\ now \in Nat /\ now' \in Nat
        /\ now < now' /\ Len(health.policy_health) = Len(routes) /\ p.last_failure \in Nat
    BY MonitorFields DEF SampleFacts
  <2>2. p.last_failure <= now
    BY <2>1 DEF EntriesInv
  <2> QED
    BY <2>1, <2>2
<1>2. EntryFor(health, active_route(health)) = p
  BY MonitorFields
<1>3. EntryFor(health', active_route(health)) = q
  BY <1>1, MonitorFields, FieldsAfter
<1>4. Blamed(health, health', x) <=>
        x = active_route(health) /\ q = record_failure(decay(p, now'), now')
  BY <1>1, <1>2, <1>3 DEF Blamed
<1>5. CASE health.has_observed_stats
  <2>1. sample \in {"Healthy", "Unhealthy", "Idle"} /\ q = Folded(decay(p, now'), sample, now')
    BY <1>1, <1>5, SampleEntry
  <2> HIDE DEF p, q, sample
  <2>2. q = record_failure(decay(p, now'), now') <=> sample = "Unhealthy"
    BY <1>1, <2>1, FailureIsUnmistakable
  <2> QED
    BY <1>4, <1>5, <2>2 DEF sample
<1>6. CASE ~health.has_observed_stats
  <2>1. q = p
    BY <1>6 DEF SampleFacts, Seeded
  <2> HIDE DEF p, q
  <2>2. q # record_failure(decay(p, now'), now')
    BY <1>1, <2>1, FailureIsUnmistakable
  <2> QED
    BY <1>4, <1>6, <2>2
<1> QED
  BY <1>5, <1>6

(* A sample keeps the entries truthful.                                     *)
LEMMA SampleEntries ==
  ASSUME MonitorInv, MonitorInv', EntriesInv,
         NEW s \in BOOLEAN, NEW r \in BOOLEAN, NEW S \in BOOLEAN, NEW R \in BOOLEAN,
         SampleFacts(s, r, S, R)
  PROVE  EntriesInv'
<1>1. /\ routes' = routes /\ now < now' /\ now \in Nat /\ now' \in Nat
      /\ now' \in Instant
      /\ Len(health'.policy_health) = Len(routes)
      /\ Len(health.policy_health) = Len(routes)
  BY MonitorFields, FieldsAfter DEF SampleFacts
<1> SUFFICES ASSUME NEW i \in 1..Len(routes)
             PROVE  LET q == health'.policy_health[i]
                    IN  /\ q.last_failure <= now'
                        /\ q.last_success <= now'
                        /\ is_failed(q) => /\ health'.has_observed_stats
                                           /\ q.last_failure = hist'.blamedAt[q.route]
  BY <1>1 DEF EntriesInv
<1> DEFINE p == health.policy_health[i]
           q == health'.policy_health[i]
           a == health.active_policy
           sample == classify(health, S, R, now')
<1>2. /\ p.route = routes[i] /\ q.route = routes[i] /\ routes[i] \in RouteKey
      /\ p.last_failure \in Nat /\ p.last_success \in Nat
      /\ active_route(health) = routes[a] /\ a \in 1..Len(routes)
      /\ \A j \in 1..Len(routes) : routes[i] = routes[j] => i = j
  BY <1>1, MonitorFields, FieldsAfter DEF GoodList
<1>3. /\ p.last_failure <= now /\ p.last_success <= now
      /\ is_failed(p) => /\ health.has_observed_stats
                         /\ p.last_failure = hist.blamedAt[routes[i]]
  BY <1>1, <1>2 DEF EntriesInv
<1>4. hist'.blamedAt[routes[i]]
        = IF Blamed(health, health', routes[i]) THEN now' ELSE hist.blamedAt[routes[i]]
  BY <1>2 DEF SampleFacts, SampleHistory
<1>5. Blamed(health, health', routes[i]) <=>
        i = a /\ health.has_observed_stats /\ sample = "Unhealthy"
  BY <1>2, SampleBlames
<1>6. CASE ~health.has_observed_stats
  <2>1. q = p
    BY <1>6 DEF SampleFacts, Seeded
  <2> QED
    BY <1>1, <1>2, <1>3, <1>6, <2>1
<1>7. CASE health.has_observed_stats
  <2> DEFINE d == decay(p, now')
  <2>1. health'.has_observed_stats
    BY <1>7 DEF SampleFacts, Scored
  <2>2. /\ i # a => q = d
        /\ i = a => q = Folded(d, sample, now')
        /\ sample \in {"Healthy", "Unhealthy", "Idle"}
        /\ d \in PolicyHealthEntry
        /\ p.last_success < now'
        /\ d.last_success = p.last_success
        /\ d.last_failure <= now'
        /\ is_failed(d) => is_failed(p) /\ d.last_failure = p.last_failure
    BY <1>7, SampleEntry
  <2> HIDE DEF p, q, d, sample
  <2>3. CASE i # a \/ sample = "Idle"
    <3>1. q = d
      BY <2>2, <2>3 DEF Folded
    <3>2. hist'.blamedAt[routes[i]] = hist.blamedAt[routes[i]]
      BY <1>4, <1>5, <2>3
    <3> QED
      BY <1>1, <1>2, <1>3, <2>1, <2>2, <3>1, <3>2 DEF q
  <2>4. CASE i = a /\ sample = "Healthy"
    <3>1. q = record_success(d, now')
      BY <2>2, <2>4 DEF Folded
    <3>2. q.last_success = now' /\ q.last_failure = d.last_failure /\ ~is_failed(q)
      BY <1>1, <2>2, <3>1, SuccessHistory
    <3> QED
      BY <1>1, <2>2, <3>2 DEF q
  <2>5. CASE i = a /\ sample = "Unhealthy"
    <3>1. q = record_failure(d, now')
      BY <2>2, <2>5 DEF Folded
    <3>2. q.last_success = d.last_success /\ q.last_failure = now'
      BY <1>1, <2>2, <3>1, FailureHistory
    <3>3. hist'.blamedAt[routes[i]] = now'
      BY <1>4, <1>5, <1>7, <2>5
    <3> QED
      BY <1>1, <1>2, <2>1, <2>2, <3>2, <3>3 DEF q
  <2> QED
    BY <2>2, <2>3, <2>4, <2>5
<1> QED
  BY <1>6, <1>7

(* Where the peer ends up: a sample that switches moves to another route,   *)
(* and one that does not leaves the last switch and the place alone.        *)
LEMMA SampleMoves ==
  ASSUME MonitorInv, MonitorInv',
         NEW s \in BOOLEAN, NEW r \in BOOLEAN, NEW S \in BOOLEAN, NEW R \in BOOLEAN,
         SampleFacts(s, r, S, R)
  PROVE  \/ /\ decision'.kind \notin SwitchReason
            /\ health'.active_policy = health.active_policy
            /\ active_route(health') = active_route(health)
            /\ health'.last_switch = health.last_switch
            /\ health'.last_inbound_at = IF R THEN now' ELSE health.last_inbound_at
            /\ health'.recovery_fallback \in {None, health.recovery_fallback}
            /\ hist'.probeFrom = hist.probeFrom
         \/ /\ health.has_observed_stats
            /\ decision'.kind \in SwitchReason
            /\ health'.active_policy # health.active_policy
            /\ active_route(health') # active_route(health)
            /\ health'.last_switch = now'
            /\ decision'.kind = "RecoveryProbe" =>
                 health'.recovery_fallback = health.active_policy
            /\ decision'.kind # "RecoveryProbe" => health'.recovery_fallback = None
<1> DEFINE a == health.active_policy
           b == health'.active_policy
           res == [health |-> health', decision |-> decision']
<1>1. /\ a \in 1..Len(routes) /\ b \in 1..Len(routes) /\ routes' = routes
      /\ active_route(health) = routes[a] /\ active_route(health') = routes[b]
      /\ routes[a] = routes[b] => a = b
  BY MonitorFields, FieldsAfter DEF SampleFacts, GoodList
<1>2. /\ health.has_observed_stats => Scored(health, res, S, R, now')
      /\ ~health.has_observed_stats => Seeded(health, res, R, now')
  BY DEF SampleFacts
<1>3. res.health = health' /\ res.decision = decision'
  OBVIOUS
<1>4. decision'.kind \notin SwitchReason => hist'.probeFrom = hist.probeFrom
  BY DEF SampleFacts, SampleHistory, SwitchReason
<1> HIDE DEF res
<1>5. CASE ~health.has_observed_stats
  <2>1. /\ decision'.kind = "Stay" /\ b = a
        /\ health'.last_switch = health.last_switch
        /\ health'.last_inbound_at = IF R THEN now' ELSE health.last_inbound_at
        /\ health'.recovery_fallback = health.recovery_fallback
    BY <1>2, <1>3, <1>5 DEF Seeded
  <2> QED
    BY <1>1, <1>4, <2>1 DEF SwitchReason
<1>6. CASE health.has_observed_stats
  <2>1. \/ /\ decision'.kind \notin SwitchReason /\ b = a
           /\ health'.last_switch = health.last_switch
           /\ health'.last_inbound_at = IF R THEN now' ELSE health.last_inbound_at
           /\ health'.recovery_fallback \in {None, health.recovery_fallback}
        \/ /\ decision'.kind = "RecoveryProbe" /\ b \in 1..(a - 1)
           /\ health'.recovery_fallback = a /\ health'.last_switch = now'
        \/ /\ decision'.kind \in {"RecoveryFailed", "Failover"} /\ b # a
           /\ health'.recovery_fallback = None /\ health'.last_switch = now'
    BY <1>2, <1>3, <1>6 DEF Scored, GoesBack
  <2>2. b \in 1..(a - 1) => b # a
    BY <1>1, MonitorFields
  <2> QED
    BY <1>1, <1>4, <1>6, <2>1, <2>2 DEF SwitchReason
<1> QED
  BY <1>5, <1>6

(* A success the active route can show since the switch that made it active *)
(* was really heard, this sample's own included.                            *)
LEMMA SampleHeard ==
  ASSUME MonitorInv, MonitorInv', EntriesInv, ProbeInv, ~hist.byMap,
         NEW s \in BOOLEAN, NEW r \in BOOLEAN, NEW S \in BOOLEAN, NEW R \in BOOLEAN,
         SampleFacts(s, r, S, R),
         health'.policy_health[health.active_policy].last_success >= health.last_switch
  PROVE  hist'.heardAt >= health.last_switch
<1> DEFINE a == health.active_policy
           p == health.policy_health[a]
           q == health'.policy_health[a]
           sample == classify(health, S, R, now')
<1>1. /\ a \in 1..Len(routes) /\ health.last_switch \in Nat /\ hist.heardAt \in Nat
      /\ now \in Nat /\ health.last_switch <= now
  BY MonitorFields DEF MonitorInv, ClocksOrdered
<1>2. /\ now' \in Nat /\ now < now' /\ now' \in Instant
      /\ hist'.heardAt = IF r THEN now' ELSE hist.heardAt
      /\ R <=> received \/ r
  BY DEF SampleFacts
<1>3. CASE r
  BY <1>1, <1>2, <1>3
<1>4. CASE ~r /\ received
  BY <1>1, <1>2, <1>4 DEF ProbeInv
<1>5. CASE ~r /\ ~received
  <2>1. q.last_success = p.last_success
    <3>1. CASE ~health.has_observed_stats
      BY <3>1 DEF SampleFacts, Seeded
    <3>2. CASE health.has_observed_stats
      <4> DEFINE d == decay(p, now')
      <4>1. /\ q = Folded(d, sample, now') /\ sample \in {"Healthy", "Unhealthy", "Idle"}
            /\ d.last_success = p.last_success /\ d \in PolicyHealthEntry
        BY <1>1, <3>2, SampleEntry
      <4>2. sample # "Healthy"
        BY <1>2, <1>5 DEF classify
      <4> HIDE DEF d, q, sample
      <4>3. q = d \/ q = record_failure(d, now')
        BY <4>1, <4>2 DEF Folded
      <4>4. q.last_success = d.last_success
        BY <1>2, <4>1, <4>3, FailureHistory
      <4> QED
        BY <4>1, <4>4 DEF q
    <3> QED
      BY <3>1, <3>2
  <2> QED
    BY <1>1, <1>2, <1>5, <2>1 DEF ProbeInv
<1> QED
  BY <1>3, <1>4, <1>5

(* A sample keeps what is known of the active route and of the fallback.    *)
LEMMA SampleProbe ==
  ASSUME MonitorInv, MonitorInv', EntriesInv, ProbeInv,
         NEW s \in BOOLEAN, NEW r \in BOOLEAN, NEW S \in BOOLEAN, NEW R \in BOOLEAN,
         SampleFacts(s, r, S, R)
  PROVE  ProbeInv'
<1> DEFINE a == health.active_policy
           b == health'.active_policy
           f == health'.recovery_fallback
<1>1. /\ routes' = routes /\ received' = FALSE /\ now < now' /\ now \in Nat /\ now' \in Nat
      /\ a \in 1..Len(routes) /\ b \in 1..Len(routes)
      /\ f \in Nat /\ f <= Len(routes) /\ health.recovery_fallback \in Nat
      /\ health.last_switch \in Nat
      /\ health.policy_health[a].route = routes[a] /\ active_route(health) = routes[a]
      /\ Len(routes) \in Nat
      /\ \A i \in 1..Len(routes) : /\ health'.policy_health[i].route = routes[i]
                                    /\ health.policy_health[i].route = routes[i]
                                    /\ health'.policy_health[i].last_success \in Nat
                                    /\ health.policy_health[i].last_success \in Nat
  BY MonitorFields, FieldsAfter DEF SampleFacts
<1>2. /\ active_route(health') = active_route(health) => SamePlace(hist, hist')
      /\ active_route(health') # active_route(health) =>
           hist'.activeSince = now' /\ hist'.byMap = FALSE
      /\ hist'.probeFrom
           = IF decision'.kind = "RecoveryProbe" THEN active_route(health)
             ELSE IF decision'.kind = "RecoveryFailed" THEN NoRoute ELSE hist.probeFrom
  BY DEF SampleFacts, SampleHistory
<1>3. CASE /\ b = a /\ active_route(health') = active_route(health)
           /\ health'.last_switch = health.last_switch
           /\ f \in {None, health.recovery_fallback}
           /\ hist'.probeFrom = hist.probeFrom
  <2>1. ~hist'.byMap => ~hist.byMap /\ hist'.activeSince = hist.activeSince
    BY <1>2, <1>3 DEF SamePlace
  <2>2. ~hist.byMap /\ health'.policy_health[b].last_success >= health'.last_switch
          => hist'.heardAt >= health'.last_switch
    BY <1>3, SampleHeard
  <2>3. hist'.probeFrom # NoRoute /\ f # None => health'.policy_health[f].route = hist'.probeFrom
    <3> SUFFICES ASSUME hist'.probeFrom # NoRoute, f # None
                 PROVE  health'.policy_health[f].route = hist'.probeFrom
      OBVIOUS
    <3>1. f = health.recovery_fallback /\ f \in 1..Len(routes)
      BY <1>1, <1>3 DEF None
    <3>2. health.policy_health[f].route = hist.probeFrom
      BY <1>3, <3>1 DEF ProbeInv
    <3> QED
      BY <1>1, <1>3, <3>1, <3>2
  <2> QED
    BY <1>1, <1>3, <2>1, <2>2, <2>3 DEF ProbeInv
<1>4. CASE /\ health.has_observed_stats /\ b # a
           /\ decision'.kind \in SwitchReason
           /\ active_route(health') # active_route(health)
           /\ health'.last_switch = now'
           /\ decision'.kind = "RecoveryProbe" => f = a
           /\ decision'.kind # "RecoveryProbe" => f = None
  <2>1. health'.policy_health[b].last_success < now'
    <3>1. health'.policy_health[b] = decay(health.policy_health[b], now')
      BY <1>1, <1>4, SampleEntry
    <3>2. /\ decay(health.policy_health[b], now').last_success
               = health.policy_health[b].last_success
          /\ health.policy_health[b].last_success < now'
      BY <1>1, <1>4, SampleEntry
    <3> QED
      BY <3>1, <3>2
  <2>2. ~(health'.policy_health[b].last_success >= health'.last_switch)
    BY <1>1, <1>4, <2>1
  <2>3. hist'.activeSince = health'.last_switch
    BY <1>2, <1>4
  <2>4. f # None => health'.policy_health[f].route = hist'.probeFrom
    BY <1>1, <1>2, <1>4
  <2> QED
    BY <1>1, <2>2, <2>3, <2>4 DEF ProbeInv
<1> QED
  BY <1>3, <1>4, SampleMoves

(* While traffic stays unanswered, every sample after the silence window    *)
(* blames the active route.                                                 *)
LEMMA SampleDead ==
  ASSUME MonitorInv, MonitorInv', EntriesInv, DeadInv,
         NEW s \in BOOLEAN, NEW r \in BOOLEAN, NEW S \in BOOLEAN, NEW R \in BOOLEAN,
         SampleFacts(s, r, S, R), hist'.deadSince # None
  PROVE  /\ health'.has_observed_stats
         /\ hist'.deadSince < now'
         /\ health'.active_policy = health.active_policy
         /\ decision'.kind \notin SwitchReason
         /\ Anchor(health') <= hist'.deadSince + MaxGap
         /\ now' >= Anchor(health') + INBOUND_SILENCE_TIMEOUT
              /\ now' > hist'.deadSince + MaxGap =>
              /\ hist.deadSince = hist'.deadSince
              /\ health.has_observed_stats
              /\ classify(health, S, R, now') = "Unhealthy"
              /\ health'.policy_health[health.active_policy]
                   = record_failure(decay(health.policy_health[health.active_policy], now'), now')
              /\ health'.policy_health[health.active_policy].suspicion >= 2
              /\ health'.policy_health[health.active_policy].last_failure = now'
<1> DEFINE a == health.active_policy
           p == health.policy_health[a]
           q == health'.policy_health[a]
           D == hist'.deadSince
<1>1. /\ now < now' /\ now \in Nat /\ now' \in Nat /\ now' \in Instant /\ now' <= now + MaxGap
      /\ a \in 1..Len(routes) /\ health.last_switch \in Nat /\ health.last_inbound_at \in Nat
      /\ hist.deadSince \in Nat /\ MaxGap \in Nat /\ INBOUND_SILENCE_TIMEOUT \in Nat
      /\ Anchor(health) <= now /\ Anchor(health) \in Nat
  <2>1. health.last_switch <= now /\ health.last_inbound_at <= now
    BY DEF MonitorInv, ClocksOrdered
  <2> QED
    BY <2>1, MonitorFields, MonitorAssumption, IntervalAssumption DEF SampleFacts, Anchor
<1>2. /\ active_route(health') = active_route(health)
      /\ s /\ ~r /\ D = FirstOf(hist.deadSince, now)
  BY DEF SampleFacts, SampleHistory
<1>3. /\ decision'.kind \notin SwitchReason
      /\ health'.active_policy = a
      /\ health'.last_switch = health.last_switch
      /\ health'.last_inbound_at = IF R THEN now' ELSE health.last_inbound_at
  BY <1>2, SampleMoves
<1>4. health'.has_observed_stats
  BY DEF SampleFacts, Scored, Seeded
<1>5. Anchor(health') = IF R THEN now' ELSE Anchor(health)
  BY <1>1, <1>3 DEF Anchor, None, Instant
<1>6. S /\ (R <=> received)
  BY <1>2 DEF SampleFacts
<1>7. CASE hist.deadSince = None
  <2>1. D = now
    BY <1>2, <1>7 DEF FirstOf
  <2>2. D < now' /\ Anchor(health') <= D + MaxGap
    BY <1>1, <1>5, <2>1
  <2>3. ~(now' > D + MaxGap)
    BY <1>1, <2>1
  <2> QED
    BY ONLY <1>3, <1>4, <2>2, <2>3, Zenon
<1>8. CASE hist.deadSince # None
  <2>1. D = hist.deadSince
    BY <1>2, <1>8 DEF FirstOf
  <2>2. /\ health.has_observed_stats /\ ~received /\ hist.deadSince < now
        /\ Anchor(health) <= hist.deadSince + MaxGap
    BY <1>8 DEF DeadInv
  <2>3. ~R
    BY <1>6, <2>2
  <2>4. ASSUME now' >= Anchor(health') + INBOUND_SILENCE_TIMEOUT
        PROVE  /\ classify(health, S, R, now') = "Unhealthy"
               /\ q = record_failure(decay(p, now'), now')
               /\ q.suspicion >= 2 /\ q.last_failure = now'
    <3>1. now' - Anchor(health) >= INBOUND_SILENCE_TIMEOUT
      BY <1>1, <1>5, <2>3, <2>4
    <3>2. classify(health, S, R, now') = "Unhealthy"
      BY <1>6, <2>3, <3>1 DEF classify, inbound_silence, Anchor
    <3>3. q = Folded(decay(p, now'), "Unhealthy", now') /\ decay(p, now') \in PolicyHealthEntry
      BY <1>1, <2>2, <3>2, SampleEntry
    <3>4. q = record_failure(decay(p, now'), now')
      BY <3>3 DEF Folded
    <3> HIDE DEF p, q
    <3>5. q.suspicion >= 2 /\ q.last_failure = now'
      BY <1>1, <3>3, <3>4, FailureHistory
    <3> QED
      BY <3>2, <3>4, <3>5
  <2>5. D < now' /\ Anchor(health') <= D + MaxGap
    BY <1>1, <1>5, <2>1, <2>2, <2>3
  <2>6. now' >= Anchor(health') + INBOUND_SILENCE_TIMEOUT =>
          /\ classify(health, S, R, now') = "Unhealthy"
          /\ q = record_failure(decay(p, now'), now')
          /\ q.suspicion >= 2 /\ q.last_failure = now'
    BY <2>4
  <2>7. hist.deadSince = D /\ health.has_observed_stats
    BY <2>1, <2>2
  <2> QED
    BY ONLY <1>3, <1>4, <2>5, <2>6, <2>7, Zenon
<1> QED
  BY <1>7, <1>8

(* A sample preserves the invariant of the routes.                          *)
LEMMA SampleRoutes ==
  ASSUME MonitorInv, MonitorInv', RoutesInv,
         NEW gap \in 1..MaxGap, NEW s \in BOOLEAN, NEW r \in BOOLEAN, Sample(gap, s, r)
  PROVE  RoutesInv'
<1>1. PICK S, R \in BOOLEAN : SampleFacts(s, r, S, R)
  BY SampleInFull
<1>2. EntriesInv /\ ProbeInv /\ DeadInv
  BY DEF RoutesInv
<1>3. EntriesInv'
  BY <1>1, <1>2, SampleEntries
<1>4. ProbeInv'
  BY <1>1, <1>2, SampleProbe
<1>5. DeadInv'
  <2>1. received' = FALSE
    BY <1>1 DEF SampleFacts
  <2> QED
    BY <1>1, <1>2, <2>1, SampleDead DEF DeadInv, Anchor
<1> QED
  BY <1>3, <1>4, <1>5 DEF RoutesInv

(* So does a pass that leaves the health record alone.                      *)
LEMMA PendingRoutes ==
  ASSUME MonitorInv, RoutesInv,
         NEW gap \in 1..MaxGap, NEW s \in BOOLEAN, NEW r \in BOOLEAN,
         SampleRolledBack(gap, s, r) \/ Skip(gap, s, r)
  PROVE  RoutesInv'
<1>1. /\ MonitorInv' /\ health' = health
      /\ now' > now /\ routes' = routes
      /\ hist'.heardAt = IF r THEN now' ELSE hist.heardAt
      /\ hist'.deadSince = None /\ hist'.probeFrom = hist.probeFrom
      /\ hist'.blamedAt = hist.blamedAt /\ SamePlace(hist, hist')
  BY PendingInv
<1>2. received' <=> received \/ r
  BY DEF SampleRolledBack, Skip
<1>3. /\ now \in Nat /\ now' \in Nat /\ hist.heardAt \in Nat /\ health.last_switch \in Nat
      /\ health.last_switch <= now /\ hist.heardAt <= now
      /\ Len(health.policy_health) = Len(routes)
      /\ \A i \in 1..Len(routes) : /\ health.policy_health[i].last_failure \in Nat
                                    /\ health.policy_health[i].last_success \in Nat
  BY <1>1, MonitorFields DEF MonitorInv, ClocksOrdered, TypeOK, Instant
<1>4. EntriesInv'
  BY <1>1, <1>3 DEF RoutesInv, EntriesInv
<1>5. ProbeInv'
  BY <1>1, <1>2, <1>3 DEF RoutesInv, ProbeInv, SamePlace
<1>6. DeadInv'
  BY <1>1 DEF DeadInv
<1> QED
  BY <1>4, <1>5, <1>6 DEF RoutesInv

(* And so does a map: a route keeps its history or starts a new one.        *)
LEMMA MapRoutes ==
  ASSUME MonitorInv, RoutesInv, NEW new \in RouteLists, MapUpdate(new)
  PROVE  RoutesInv'
<1>1. MonitorInv' /\ MapHistory(new) /\ now' = now /\ received' = received /\ routes' = new
  BY MapUpdateInv
<1>2. /\ hist'.heardAt = hist.heardAt /\ hist'.blamedAt = hist.blamedAt
      /\ hist'.probeFrom = NoRoute
      /\ active_route(health) # active_route(health') => hist'.byMap = TRUE
      /\ active_route(health) # active_route(health') => hist'.deadSince = None
      /\ active_route(health) = active_route(health') =>
           SamePlace(hist, hist') /\ hist'.deadSince = hist.deadSince
      /\ SameClock(health, health')
      /\ health'.has_observed_stats = health.has_observed_stats
      /\ Len(health'.policy_health) = Len(new)
      /\ \A i \in 1..Len(new) : health'.policy_health[i] = EntryFor(health, new[i])
  BY <1>1 DEF MapHistory
<1>3. FitsRoutes(health', new) /\ GoodList(new)
  BY <1>1, ListsAreGood DEF MonitorInv
<1>4. /\ health'.active_policy \in 1..Len(new)
      /\ active_route(health') = new[health'.active_policy]
      /\ \A i \in 1..Len(new) : new[i] \in RouteKey
  BY <1>3, FittingFields
<1>5. ASSUME NEW x \in RouteKey
      PROVE  \/ EntryFor(health, x) = NewEntry(x)
             \/ \E j \in 1..Len(routes) : /\ EntryFor(health, x) = health.policy_health[j]
                                          /\ x = routes[j]
  <2>1. CASE \E j \in 1..Len(routes) : routes[j] = x
    BY <2>1, MonitorFields
  <2>2. CASE ~\E j \in 1..Len(routes) : routes[j] = x
    <3>1. \A j \in DOMAIN health.policy_health : health.policy_health[j].route # x
      BY <2>2, MonitorFields
    <3> QED
      BY <3>1, EntryForNew
  <2> QED
    BY <2>1, <2>2
<1>6. EntriesInv'
  <2> SUFFICES ASSUME NEW i \in 1..Len(new)
               PROVE  LET q == health'.policy_health[i]
                      IN  /\ q.last_failure <= now
                          /\ q.last_success <= now
                          /\ is_failed(q) => /\ health.has_observed_stats
                                             /\ q.last_failure = hist.blamedAt[q.route]
    BY <1>1, <1>2 DEF EntriesInv
  <2> DEFINE q == health'.policy_health[i]
  <2>1. q = EntryFor(health, new[i])
    BY <1>2
  <2>2. CASE q = NewEntry(new[i])
    <3>1. q.last_failure = 0 /\ q.last_success = 0 /\ ~is_failed(q)
      BY <2>2 DEF NewEntry, None, is_failed, POLICY_FAILURE_SCORE
    <3> QED
      BY <3>1, MonitorFields
  <2>3. CASE \E j \in 1..Len(routes) : q = health.policy_health[j]
    BY <2>3, MonitorFields DEF RoutesInv, EntriesInv
  <2> QED
    BY <1>4, <1>5, <2>1, <2>2, <2>3
<1>7. active_route(health) = active_route(health') =>
        health'.policy_health[health'.active_policy] = health.policy_health[health.active_policy]
  BY <1>2, <1>4, MonitorFields
<1>8. ProbeInv'
  <2>1. received' => hist'.heardAt >= health'.last_switch
    BY <1>1, <1>2 DEF RoutesInv, ProbeInv, SameClock
  <2>2. ~hist'.byMap =>
          /\ hist'.activeSince = health'.last_switch
          /\ health'.policy_health[health'.active_policy].last_success >= health'.last_switch
               => hist'.heardAt >= health'.last_switch
    <3> SUFFICES ASSUME ~hist'.byMap
                 PROVE  /\ hist'.activeSince = health'.last_switch
                        /\ health'.policy_health[health'.active_policy].last_success
                               >= health'.last_switch
                             => hist'.heardAt >= health'.last_switch
      OBVIOUS
    <3>1. active_route(health) = active_route(health')
      BY <1>2
    <3>2. ~hist.byMap /\ hist'.activeSince = hist.activeSince
      BY <1>2, <3>1 DEF SamePlace
    <3> QED
      BY <1>2, <1>7, <3>1, <3>2 DEF RoutesInv, ProbeInv, SameClock
  <2> QED
    BY <1>2, <2>1, <2>2 DEF ProbeInv
<1>9. DeadInv'
  <2> SUFFICES ASSUME hist'.deadSince # None PROVE DeadInv'
    BY DEF DeadInv
  <2>1. active_route(health) = active_route(health') /\ hist'.deadSince = hist.deadSince
    BY <1>2
  <2> QED
    BY <1>1, <1>2, <1>7, <2>1 DEF RoutesInv, DeadInv, Anchor, SameClock
<1> QED
  BY <1>6, <1>8, <1>9 DEF RoutesInv

(* Every step preserves the invariant of the routes.                        *)
LEMMA NextRoutes == MonitorInv /\ RoutesInv /\ [Next]_vars => RoutesInv'
<1> SUFFICES ASSUME MonitorInv, RoutesInv, [Next]_vars PROVE RoutesInv'
  OBVIOUS
<1>0. MonitorInv'
  BY NextInv
<1>1. ASSUME NEW gap \in 1..MaxGap, NEW s \in BOOLEAN, NEW r \in BOOLEAN, Sample(gap, s, r)
      PROVE  RoutesInv'
  BY <1>0, <1>1, SampleRoutes
<1>2. ASSUME NEW gap \in 1..MaxGap, NEW s \in BOOLEAN, NEW r \in BOOLEAN,
             SampleRolledBack(gap, s, r) \/ Skip(gap, s, r)
      PROVE  RoutesInv'
  BY <1>2, PendingRoutes
<1>3. ASSUME NEW new \in RouteLists, MapUpdate(new)
      PROVE  RoutesInv'
  BY <1>3, MapRoutes
<1>4. CASE UNCHANGED vars
  BY <1>4 DEF vars, RoutesInv, EntriesInv, ProbeInv, DeadInv, Anchor
<1> QED
  BY <1>1, <1>2, <1>3, <1>4 DEF Next
-----------------------------------------------------------------------------
(* Blame. *)

BlameStep ==
  \A route \in RouteKey : Blamed(health, health', route) =>
    /\ now' - hist'.heardAt >= INBOUND_SILENCE_TIMEOUT
    /\ now' - health.last_switch >= INBOUND_SILENCE_TIMEOUT

(* The step form of BlameNeedsSilence: a sample blames only after the       *)
(* silence timeout, counted from the last inbound traffic and from the last *)
(* switch; no other step blames.                                            *)
LEMMA BlameStepHolds == MonitorInv /\ RoutesInv /\ [Next]_vars => [BlameStep]_vars
<1> SUFFICES ASSUME MonitorInv, RoutesInv, Next, NEW x \in RouteKey,
                    Blamed(health, health', x)
             PROVE  /\ now' - hist'.heardAt >= INBOUND_SILENCE_TIMEOUT
                    /\ now' - health.last_switch >= INBOUND_SILENCE_TIMEOUT
  BY DEF BlameStep
<1>0. EntriesInv /\ MonitorInv'
  BY NextInv DEF RoutesInv
<1>1. ASSUME NEW gap \in 1..MaxGap, NEW s \in BOOLEAN, NEW r \in BOOLEAN, Sample(gap, s, r)
      PROVE  /\ now' - hist'.heardAt >= INBOUND_SILENCE_TIMEOUT
             /\ now' - health.last_switch >= INBOUND_SILENCE_TIMEOUT
  <2>1. PICK S, R \in BOOLEAN : SampleFacts(s, r, S, R)
    BY <1>1, SampleInFull
  <2>2. classify(health, S, R, now') = "Unhealthy"
    BY <1>0, <2>1, SampleBlames
  <2>3. ~R /\ now' - Anchor(health) >= INBOUND_SILENCE_TIMEOUT
    BY <2>2 DEF classify, inbound_silence, Anchor
  <2>4. ~received /\ ~r /\ hist'.heardAt = hist.heardAt /\ now' \in Nat
    BY <2>1, <2>3 DEF SampleFacts
  <2>5. /\ hist.heardAt \in Nat /\ health.last_switch \in Nat
        /\ health.last_inbound_at \in Nat /\ INBOUND_SILENCE_TIMEOUT \in Nat
    BY MonitorFields, IntervalAssumption
  <2>6. /\ hist.heardAt <= Anchor(health)
        /\ health.last_switch <= Anchor(health)
    BY <2>4, <2>5 DEF MonitorInv, ClocksOrdered, Anchor
  <2>7. Anchor(health) \in Nat
    BY <2>5 DEF Anchor
  <2> QED
    BY <2>3, <2>4, <2>5, <2>6, <2>7
<1>2. ASSUME NEW gap \in 1..MaxGap, NEW s \in BOOLEAN, NEW r \in BOOLEAN,
             SampleRolledBack(gap, s, r) \/ Skip(gap, s, r)
      PROVE  FALSE
  <2> DEFINE p == health.policy_health[health.active_policy]
  <2>1. /\ health' = health /\ now < now' /\ now' \in Instant
    BY <1>0, <1>2, PendingInv DEF MonitorInv, TypeOK
  <2>2. /\ p \in PolicyHealthEntry /\ LabelFits(p) /\ p.last_failure \in Nat
        /\ EntryFor(health, active_route(health)) = p /\ now \in Nat
        /\ health.active_policy \in 1..Len(health.policy_health)
    BY MonitorFields
  <2>3. p.last_failure <= now
    BY <1>0, <2>2 DEF EntriesInv
  <2>4. p = record_failure(decay(p, now'), now')
    BY <2>1, <2>2 DEF Blamed
  <2>5. p.last_failure < now'
    BY <2>1, <2>2, <2>3 DEF Instant
  <2> HIDE DEF p
  <2> QED
    BY <2>1, <2>2, <2>4, <2>5, FailureIsUnmistakable
<1>3. ASSUME NEW new \in RouteLists, MapUpdate(new)
      PROVE  FALSE
  BY <1>3 DEF MapUpdate, Blamed
<1> QED
  BY <1>1, <1>2, <1>3 DEF Next

(* A route is blamed only after a whole silence window in which nothing was *)
(* received and no switch happened, whatever was rolled back, skipped or    *)
(* re-mapped in between.                                                    *)
THEOREM BlameIsDeserved == Spec => BlameNeedsSilence
<1>1. BlameNeedsSilence <=> [][BlameStep]_vars
  BY DEF BlameNeedsSilence, BlameStep
<1> QED
  BY InitInv, NextInv, InitRoutes, NextRoutes, BlameStepHolds, <1>1, PTL DEF Spec

HistoryStep ==
  \A j \in 1..Len(routes') :
    LET entry == health'.policy_health[j]
        same == {i \in 1..Len(routes) : routes[i] = routes'[j]}
    IN  /\ entry.route = routes'[j]
        /\ same = {} => entry = NewEntry(routes'[j])
        /\ \A i \in same :
             \/ entry = health.policy_health[i]
             \/ now' # now /\ entry = decay(health.policy_health[i], now')
             \/ now' # now /\ i = health.active_policy

(* The step form of HistoryFollowsRoute: a map carries entries over by      *)
(* route, a sample ages all of them and scores the active one, a pass that  *)
(* is rolled back or skipped leaves them alone.                             *)
LEMMA HistoryStepHolds == MonitorInv /\ RoutesInv /\ [Next]_vars => [HistoryStep]_vars
<1> SUFFICES ASSUME MonitorInv, RoutesInv, Next PROVE HistoryStep
  OBVIOUS
<1>0. EntriesInv /\ MonitorInv'
  BY NextInv DEF RoutesInv
<1>1. ASSUME routes' = routes,
             \A j \in 1..Len(routes) :
               \/ health'.policy_health[j] = health.policy_health[j]
               \/ now' # now /\ health'.policy_health[j] = decay(health.policy_health[j], now')
               \/ now' # now /\ j = health.active_policy
      PROVE  HistoryStep
  <2>1. \A j \in 1..Len(routes) : health'.policy_health[j].route = routes[j]
    BY <1>0, <1>1, FieldsAfter
  <2>2. \A i, j \in 1..Len(routes) : routes[i] = routes[j] => i = j
    BY MonitorFields DEF GoodList
  <2> QED
    BY <1>1, <2>1, <2>2 DEF HistoryStep
<1>2. ASSUME NEW gap \in 1..MaxGap, NEW s \in BOOLEAN, NEW r \in BOOLEAN, Sample(gap, s, r)
      PROVE  HistoryStep
  <2>1. PICK S, R \in BOOLEAN : SampleFacts(s, r, S, R)
    BY <1>2, SampleInFull
  <2>2. routes' = routes /\ now' # now
    BY <2>1, MonitorFields DEF SampleFacts
  <2>3. CASE health.has_observed_stats
    <3>1. \A j \in 1..Len(routes) : j # health.active_policy =>
            health'.policy_health[j] = decay(health.policy_health[j], now')
      BY <1>0, <2>1, <2>3, SampleEntry
    <3> QED
      BY <1>1, <2>2, <3>1
  <2>4. CASE ~health.has_observed_stats
    <3>1. health'.policy_health = health.policy_health
      BY <2>1, <2>4 DEF SampleFacts, Seeded
    <3> QED
      BY <1>1, <2>2, <3>1
  <2> QED
    BY <2>3, <2>4
<1>3. ASSUME NEW gap \in 1..MaxGap, NEW s \in BOOLEAN, NEW r \in BOOLEAN,
             SampleRolledBack(gap, s, r) \/ Skip(gap, s, r)
      PROVE  HistoryStep
  <2>1. routes' = routes /\ health' = health
    BY <1>3 DEF SampleRolledBack, Skip
  <2> QED
    BY <1>1, <2>1
<1>4. ASSUME NEW new \in RouteLists, MapUpdate(new)
      PROVE  HistoryStep
  <2>1. /\ routes' = new
        /\ \A j \in 1..Len(new) : health'.policy_health[j] = EntryFor(health, new[j])
    BY <1>4, MapUpdateInv DEF MapHistory
  <2> SUFFICES ASSUME NEW j \in 1..Len(new)
               PROVE  LET entry == EntryFor(health, new[j])
                          same == {i \in 1..Len(routes) : routes[i] = new[j]}
                      IN  /\ entry.route = new[j]
                          /\ same = {} => entry = NewEntry(new[j])
                          /\ \A i \in same : entry = health.policy_health[i]
    BY <2>1 DEF HistoryStep
  <2>2. /\ DOMAIN health.policy_health = 1..Len(routes)
        /\ \A i \in 1..Len(routes) : /\ health.policy_health[i].route = routes[i]
                                     /\ EntryFor(health, routes[i]) = health.policy_health[i]
    BY MonitorFields
  <2>3. ASSUME \A i \in 1..Len(routes) : routes[i] # new[j]
        PROVE  EntryFor(health, new[j]) = NewEntry(new[j])
    BY <2>2, <2>3, EntryForNew
  <2>4. NewEntry(new[j]).route = new[j]
    BY DEF NewEntry
  <2> QED
    BY <2>2, <2>3, <2>4
<1> QED
  BY <1>2, <1>3, <1>4 DEF Next

(* A map never moves, forgets or invents a history, and a pass scores the   *)
(* route it sampled and no other.                                           *)
THEOREM HistoriesFollow == Spec => HistoryFollowsRoute
<1>1. HistoryFollowsRoute <=> [][HistoryStep]_vars
  BY DEF HistoryFollowsRoute, HistoryStep
<1> QED
  BY InitInv, NextInv, InitRoutes, NextRoutes, HistoryStepHolds, <1>1, PTL DEF Spec

TemporaryStep ==
  \A gap \in 1..MaxGap, s, r \in BOOLEAN : Sample(gap, s, r) =>
    \A i \in DOMAIN health'.policy_health :
      is_failed(health'.policy_health[i]) =>
        /\ hist'.blamedAt[routes[i]] # None
        /\ now' - hist'.blamedAt[routes[i]] < POLICY_FAILURE_DECAY_INTERVAL

(* The step form of FailureIsTemporary: what is failed after a sample was   *)
(* blamed by it, or was failed before and is too young to have decayed.     *)
LEMMA TemporaryStepHolds ==
  MonitorInv /\ RoutesInv /\ [Next]_vars => [TemporaryStep]_vars
<1> SUFFICES ASSUME MonitorInv, RoutesInv, Next,
                    NEW gap \in 1..MaxGap, NEW s \in BOOLEAN, NEW r \in BOOLEAN,
                    Sample(gap, s, r), NEW i \in DOMAIN health'.policy_health,
                    is_failed(health'.policy_health[i])
             PROVE  /\ hist'.blamedAt[routes[i]] # None
                    /\ now' - hist'.blamedAt[routes[i]] < POLICY_FAILURE_DECAY_INTERVAL
  BY DEF TemporaryStep
<1> DEFINE p == health.policy_health[i]
           q == health'.policy_health[i]
           B == hist'.blamedAt[routes[i]]
<1>0. MonitorInv' /\ RoutesInv' /\ EntriesInv /\ EntriesInv'
  BY NextInv, NextRoutes DEF RoutesInv
<1>1. PICK S, R \in BOOLEAN : SampleFacts(s, r, S, R)
  BY SampleInFull
<1>2. /\ routes' = routes /\ now' \in Nat /\ now' \in Instant
      /\ POLICY_FAILURE_DECAY_INTERVAL \in Nat \ {0}
  BY <1>1, IntervalAssumption DEF SampleFacts
<1>3. /\ i \in 1..Len(routes) /\ i \in 1..Len(health'.policy_health)
      /\ q \in PolicyHealthEntry /\ LabelFits(q) /\ q.route = routes[i]
      /\ q.last_failure \in Nat /\ q.suspicion \in 0..4
  BY <1>0, <1>2, FieldsAfter
<1>4. q.last_failure = B
  BY <1>0, <1>3 DEF EntriesInv
<1>5. B # None
  <2>1. q.suspicion > 0
    BY <1>3 DEF is_failed, LabelFits, POLICY_FAILURE_SCORE
  <2> QED
    BY <1>3, <1>4, <2>1 DEF LabelFits
<1>6. now' - B < POLICY_FAILURE_DECAY_INTERVAL
  <2>1. CASE ~health.has_observed_stats
    <3>1. q = p /\ i \in 1..Len(health.policy_health)
      BY <1>1, <1>3, <2>1, MonitorFields DEF SampleFacts, Seeded
    <3>2. health.has_observed_stats
      BY <1>0, <3>1 DEF EntriesInv
    <3> QED
      BY <2>1, <3>2
  <2>2. CASE health.has_observed_stats
    <3> DEFINE d == decay(p, now')
               sample == classify(health, S, R, now')
    <3>1. /\ q = d \/ q = Folded(d, sample, now')
          /\ sample \in {"Healthy", "Unhealthy", "Idle"} /\ d \in PolicyHealthEntry
          /\ is_failed(d) => /\ d.last_failure = p.last_failure
                             /\ now' - p.last_failure < POLICY_FAILURE_DECAY_INTERVAL
      BY <1>0, <1>1, <1>3, <2>2, SampleEntry
    <3> HIDE DEF d, q, sample
    <3>2. CASE q = d
      <4>1. is_failed(d)
        BY <3>2 DEF q
      <4>2. B = p.last_failure
        BY <1>4, <3>1, <3>2, <4>1
      <4> QED
        BY <3>1, <4>1, <4>2
    <3>3. CASE q = record_failure(d, now')
      <4>1. q.last_failure = now'
        BY <1>2, <3>1, <3>3, FailureHistory
      <4>2. B = now'
        BY <1>4, <4>1
      <4>3. \A x, y \in Nat : x = y => x - y < POLICY_FAILURE_DECAY_INTERVAL
        BY <1>2
      <4> HIDE DEF B
      <4> QED
        BY ONLY <1>2, <4>2, <4>3
    <3>4. CASE q = record_success(d, now')
      <4>1. ~is_failed(q)
        BY <1>2, <3>1, <3>4, SuccessHistory
      <4> QED
        BY <4>1 DEF q
    <3> QED
      BY <3>1, <3>2, <3>3, <3>4 DEF Folded
  <2> QED
    BY <2>1, <2>2
<1> QED
  BY <1>5, <1>6

(* No route stays failed on old evidence: whatever is failed after a sample *)
(* was blamed less than one decay interval ago, so a route that is not      *)
(* blamed again becomes a candidate again.                                  *)
THEOREM FailuresAreTemporary == Spec => FailureIsTemporary
<1>1. FailureIsTemporary <=> [][TemporaryStep]_vars
  BY DEF FailureIsTemporary, TemporaryStep
<1> QED
  BY InitInv, NextInv, InitRoutes, NextRoutes, TemporaryStepHolds, <1>1, PTL DEF Spec
-----------------------------------------------------------------------------
(* Probes. *)

ProbeStep ==
  now' # now =>
    /\ decision'.kind = "RecoveryProbe" =>
         \/ ~is_failed(EntryFor(health', active_route(health')))
         \/ hist.byMap
         \/ hist'.heardAt >= hist.activeSince
    /\ decision'.kind = "RecoveryFailed" /\ hist.probeFrom # NoRoute =>
         active_route(health') = hist.probeFrom

(* The step form of ProbesAreSafe.                                          *)
LEMMA ProbeStepHolds == MonitorInv /\ RoutesInv /\ [Next]_vars => [ProbeStep]_vars
<1> SUFFICES ASSUME MonitorInv, RoutesInv, Next, now' # now
             PROVE  ProbeStep
  BY DEF ProbeStep
<1>0. EntriesInv /\ ProbeInv /\ MonitorInv'
  BY NextInv DEF RoutesInv
<1>1. ASSUME NEW gap \in 1..MaxGap, NEW s \in BOOLEAN, NEW r \in BOOLEAN, Sample(gap, s, r)
      PROVE  ProbeStep
  <2> DEFINE a == health.active_policy
             b == health'.active_policy
             res == [health |-> health', decision |-> decision']
  <2>1. PICK S, R \in BOOLEAN : SampleFacts(s, r, S, R)
    BY <1>1, SampleInFull
  <2>2. /\ routes' = routes
        /\ health.has_observed_stats => Scored(health, res, S, R, now')
        /\ ~health.has_observed_stats => Seeded(health, res, R, now')
    BY <2>1 DEF SampleFacts
  <2>3. res.health = health' /\ res.decision = decision'
    OBVIOUS
  <2>4. /\ b \in 1..Len(routes) /\ active_route(health') = routes[b]
        /\ EntryFor(health', routes[b]) = health'.policy_health[b]
        /\ \A i \in 1..Len(routes) : health.policy_health[i].route = routes[i]
    BY <1>0, <2>2, FieldsAfter, MonitorFields
  <2> HIDE DEF res
  <2>5. ASSUME decision'.kind = "RecoveryProbe"
        PROVE  \/ ~is_failed(EntryFor(health', active_route(health')))
               \/ hist.byMap
               \/ hist'.heardAt >= hist.activeSince
    <3>1. \/ ~is_failed(health'.policy_health[b])
          \/ health'.policy_health[a].last_success >= health.last_switch
      BY <2>2, <2>3, <2>5 DEF Scored, Seeded, GoesBack, SwitchReason
    <3>2. CASE ~is_failed(health'.policy_health[b])
      BY <2>4, <3>2
    <3>3. CASE ~hist.byMap /\ health'.policy_health[a].last_success >= health.last_switch
      <4>1. hist'.heardAt >= health.last_switch
        BY <1>0, <2>1, <3>3, SampleHeard
      <4>2. hist.activeSince = health.last_switch
        BY <1>0, <3>3 DEF ProbeInv
      <4> QED
        BY <4>1, <4>2
    <3> QED
      BY <3>1, <3>2, <3>3
  <2>6. ASSUME decision'.kind = "RecoveryFailed", hist.probeFrom # NoRoute
        PROVE  active_route(health') = hist.probeFrom
    <3>1. health.recovery_fallback # None /\ b = health.recovery_fallback
      BY <2>2, <2>3, <2>6 DEF Scored, Seeded, GoesBack, SwitchReason
    <3>2. health.policy_health[b].route = hist.probeFrom
      BY <1>0, <2>6, <3>1 DEF ProbeInv
    <3> QED
      BY <2>4, <3>2
  <2> QED
    BY <2>5, <2>6 DEF ProbeStep
<1>2. ASSUME NEW gap \in 1..MaxGap, NEW s \in BOOLEAN, NEW r \in BOOLEAN,
             SampleRolledBack(gap, s, r) \/ Skip(gap, s, r)
      PROVE  ProbeStep
  <2>1. decision'.kind = "Stay"
    BY <1>2 DEF SampleRolledBack, Skip
  <2> QED
    BY <2>1 DEF ProbeStep
<1>3. ASSUME NEW new \in RouteLists, MapUpdate(new)
      PROVE  ProbeStep
  BY <1>3 DEF MapUpdate
<1> QED
  BY <1>1, <1>2, <1>3 DEF Next

(* A probe never trades a working route for a failed one: the fallback of a *)
(* probe of a failed route was heard since the switch that made it active,  *)
(* and an aborted probe goes back to the very route it left.                *)
THEOREM ProbesSafe == Spec => ProbesAreSafe
<1>1. ProbesAreSafe <=> [][ProbeStep]_vars
  BY DEF ProbesAreSafe, ProbeStep
<1> QED
  BY InitInv, NextInv, InitRoutes, NextRoutes, ProbeStepHolds, <1>1, PTL DEF Spec
-----------------------------------------------------------------------------
(* Dead routes. *)

DeadStep ==
  /\ now' # now
  /\ hist'.deadSince # None
  /\ now' >= hist'.deadSince + INBOUND_SILENCE_TIMEOUT + 2 * MaxGap
  /\ cooldown_elapsed(health', now')
  => FailoverCandidates(health', health'.active_policy) = {}

(* Every step is within MaxGap of the one before, so that two samples in a  *)
(* row both blame a dead route, and no decay comes in between as long as    *)
(* passes are closer than the decay interval.                               *)
LEMMA DeadStepHolds ==
  ASSUME MaxGap < POLICY_FAILURE_DECAY_INTERVAL
  PROVE  MonitorInv /\ RoutesInv /\ [Next]_vars => [DeadStep]_vars
<1> SUFFICES ASSUME MonitorInv, RoutesInv, Next, now' # now,
                    hist'.deadSince # None,
                    now' >= hist'.deadSince + INBOUND_SILENCE_TIMEOUT + 2 * MaxGap,
                    cooldown_elapsed(health', now')
             PROVE  FailoverCandidates(health', health'.active_policy) = {}
  BY DEF DeadStep
<1>0. EntriesInv /\ DeadInv /\ MonitorInv'
  BY NextInv DEF RoutesInv
<1>1. ASSUME NEW gap \in 1..MaxGap, NEW s \in BOOLEAN, NEW r \in BOOLEAN, Sample(gap, s, r)
      PROVE  FailoverCandidates(health', health'.active_policy) = {}
  <2> DEFINE a == health.active_policy
             p == health.policy_health[a]
             q == health'.policy_health[a]
             d == decay(p, now')
             D == hist'.deadSince
             res == [health |-> health', decision |-> decision']
  <2>1. PICK S, R \in BOOLEAN : SampleFacts(s, r, S, R)
    BY <1>1, SampleInFull
  <2>2. /\ health'.active_policy = a
        /\ decision'.kind \notin SwitchReason
        /\ Anchor(health') <= D + MaxGap
        /\ (now' >= Anchor(health') + INBOUND_SILENCE_TIMEOUT /\ now' > D + MaxGap) =>
             /\ hist.deadSince = D
             /\ health.has_observed_stats
             /\ classify(health, S, R, now') = "Unhealthy"
             /\ q = record_failure(d, now')
    BY <1>0, <2>1, SampleDead
  <2>3. /\ routes' = routes /\ now \in Nat /\ now' \in Nat /\ now' \in Instant
        /\ now < now' /\ now' <= now + MaxGap
        /\ MaxGap \in Nat \ {0} /\ INBOUND_SILENCE_TIMEOUT \in Nat \ {0}
        /\ POLICY_FAILURE_DECAY_INTERVAL \in Nat \ {0}
    BY <2>1, MonitorFields, MonitorAssumption, IntervalAssumption DEF SampleFacts
  <2>4. /\ a \in 1..Len(routes) /\ D \in Nat /\ Anchor(health') \in Nat
        /\ health.last_switch \in Nat /\ health.last_inbound_at \in Nat
        /\ p.last_failure \in Nat /\ p.suspicion \in 0..4
    BY <1>0, <2>3, MonitorFields, FieldsAfter DEF Anchor
  <2>5. now' >= Anchor(health') + INBOUND_SILENCE_TIMEOUT /\ now' > D + MaxGap
    <3>1. now' >= D + INBOUND_SILENCE_TIMEOUT + 2 * MaxGap
      OBVIOUS
    <3> HIDE DEF D
    <3> QED
      BY ONLY <2>2, <2>3, <2>4, <3>1
  <2>6. /\ hist.deadSince = D /\ health.has_observed_stats
        /\ classify(health, S, R, now') = "Unhealthy"
        /\ q = record_failure(d, now')
    BY <2>2, <2>5
  <2>7. p.suspicion >= 2 /\ p.last_failure = now
    <3>1. Anchor(health) <= D + MaxGap
      BY <1>0, <2>6 DEF DeadInv
    <3>2. Anchor(health) \in Nat
      BY <2>4 DEF Anchor
    <3>3. now >= Anchor(health) + INBOUND_SILENCE_TIMEOUT /\ now > D + MaxGap
      BY <2>3, <2>4, <3>1, <3>2
    <3> QED
      BY <1>0, <2>6, <3>3 DEF DeadInv
  <2>8. d.suspicion = p.suspicion /\ d \in PolicyHealthEntry
    <3>1. now' - p.last_failure < POLICY_FAILURE_DECAY_INTERVAL
      BY <2>3, <2>7
    <3> QED
      BY <1>0, <2>1, <2>4, <2>6, <3>1, SampleEntry
  <2>9. is_failed(q)
    <3> HIDE DEF d, p, q
    <3> QED
      BY <2>3, <2>6, <2>7, <2>8, FailureHistory
  <2>10. Scored(health, res, S, R, now') /\ res.health = health' /\ res.decision = decision'
    BY <2>1, <2>6 DEF SampleFacts
  <2> HIDE DEF res
  <2> QED
    BY <2>2, <2>6, <2>9, <2>10 DEF Scored, GoesBack, SwitchReason
<1>2. ASSUME NEW gap \in 1..MaxGap, NEW s \in BOOLEAN, NEW r \in BOOLEAN,
             SampleRolledBack(gap, s, r) \/ Skip(gap, s, r)
      PROVE  FALSE
  BY <1>2, PendingInv
<1>3. ASSUME NEW new \in RouteLists, MapUpdate(new)
      PROVE  FALSE
  BY <1>3 DEF MapUpdate
<1> QED
  BY <1>1, <1>2, <1>3 DEF Next

(* Detection is bounded whenever passes come closer together than the decay *)
(* interval: a route that never answers is left, once the silence window,   *)
(* two scoring samples and the cooldown are over, unless every other route  *)
(* is failed too.                                                           *)
THEOREM DeadRoutesLeft ==
  MaxGap < POLICY_FAILURE_DECAY_INTERVAL => (Spec => DeadRouteIsLeft)
<1> SUFFICES ASSUME MaxGap < POLICY_FAILURE_DECAY_INTERVAL
             PROVE  Spec => DeadRouteIsLeft
  OBVIOUS
<1>1. DeadRouteIsLeft <=> [][DeadStep]_vars
  BY DEF DeadRouteIsLeft, DeadStep
<1>2. MonitorInv /\ RoutesInv /\ [Next]_vars => [DeadStep]_vars
  BY DeadStepHolds
<1> QED
  BY InitInv, NextInv, InitRoutes, NextRoutes, <1>1, <1>2, PTL DEF Spec
=============================================================================
