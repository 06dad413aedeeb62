----------------------------- MODULE PeerHealth -----------------------------
(***************************************************************************)
(* The per-peer route-health state machine of control/peer_health.rs, as   *)
(* operators on a health record.  The code mutates a PeerHealth in place   *)
(* and returns a HealthDecision; here every method maps the old record to  *)
(* the new one, and a method that also decides returns both in a record    *)
(* [health, decision].                                                     *)
(*                                                                         *)
(* Instants are positive naturals and policy indices start at 1, so that   *)
(* None == 0 stands for an absent instant and for an absent index.  A      *)
(* statistics sample is abstracted to what the code asks of it: whether    *)
(* the transmit and the receive counters exceed the recorded ones (they    *)
(* are recorded as 0 before the first sample, so the question "any traffic *)
(* at all?" of the first sample is the same comparison).                   *)
(***************************************************************************)
EXTENDS Integers, Sequences

CONSTANTS
  RouteKey,                       \* the identities a route policy can have
  MIN_POLICY_SWITCH_INTERVAL,     \* 120 s in the code
  INITIAL_FAILOVER_GRACE,         \*  15 s
  MAX_SWITCH_BACKOFF_SHIFT,       \*   3
  SWITCH_BACKOFF_RESET_INTERVAL,  \* 600 s
  RECOVERY_PROBE_INTERVAL,        \* 120 s
  POLICY_FAILURE_DECAY_INTERVAL,  \* 600 s
  MAX_HEALTH_JITTER,              \*  15 s
  INBOUND_SILENCE_TIMEOUT         \*  25 s

ASSUME IntervalAssumption ==
  /\ MIN_POLICY_SWITCH_INTERVAL \in Nat \ {0}
  /\ INITIAL_FAILOVER_GRACE \in Nat \ {0}
  /\ MAX_SWITCH_BACKOFF_SHIFT \in 0..3
  /\ SWITCH_BACKOFF_RESET_INTERVAL \in Nat \ {0}
  /\ RECOVERY_PROBE_INTERVAL \in Nat \ {0}
  /\ POLICY_FAILURE_DECAY_INTERVAL \in Nat \ {0}
  /\ MAX_HEALTH_JITTER \in Nat
  /\ INBOUND_SILENCE_TIMEOUT \in Nat \ {0}

POLICY_FAILURE_SCORE == 4
UNHEALTHY_SCORE_DELTA == 2
HEALTHY_SCORE_DELTA == 1
U8_MAX == 255

None == 0
Instant == Nat \ {0}
MaybeInstant == Nat

AtMost(x, cap) == IF x <= cap THEN x ELSE cap
AtLeast(x, floor) == IF x >= floor THEN x ELSE floor
-----------------------------------------------------------------------------
(* PolicyHealth: the history of one route.  consecutive_failures, which no *)
(* decision reads, is left out.                                            *)

PolicyState == {"Unknown", "Healthy", "Suspect", "Failed"}

PolicyHealthEntry ==
  [route : RouteKey, suspicion : 0..POLICY_FAILURE_SCORE,
   last_success : MaybeInstant, last_failure : MaybeInstant,
   state : PolicyState]

NewEntry(route) ==
  [route |-> route, suspicion |-> 0, last_success |-> None,
   last_failure |-> None, state |-> "Unknown"]

StateForScore(score) ==
  IF score >= POLICY_FAILURE_SCORE THEN "Failed" ELSE "Suspect"

RecordSuccessKeepingState(p, now) ==   \* mutant: the label is forgotten
  [p EXCEPT !.suspicion = AtLeast(@ - HEALTHY_SCORE_DELTA, 0), !.last_success = now]

record_success(p, now) ==
  [p EXCEPT !.suspicion = AtLeast(@ - HEALTHY_SCORE_DELTA, 0),
            !.last_success = now,
            !.state = "Healthy"]

RecordFailureHalf(p, now) ==   \* mutant: failures weigh no more than successes
  LET score == AtMost(p.suspicion + HEALTHY_SCORE_DELTA, POLICY_FAILURE_SCORE)
  IN  [p EXCEPT !.suspicion = score, !.last_failure = now,
                !.state = StateForScore(score)]

record_failure(p, now) ==
  LET score == AtMost(p.suspicion + UNHEALTHY_SCORE_DELTA, POLICY_FAILURE_SCORE)
  IN  [p EXCEPT !.suspicion = score,
                !.last_failure = now,
                !.state = StateForScore(score)]

(* What the label of an entry says of its score: Failed exactly when the    *)
(* suspicion is at the threshold, Suspect only above zero, Unknown only at  *)
(* zero; and suspicion carries the instant its decay is counted from.       *)
LabelFits(p) ==
  /\ p.state = "Failed" <=> p.suspicion = POLICY_FAILURE_SCORE
  /\ p.state = "Suspect" => p.suspicion > 0
  /\ p.state = "Unknown" => p.suspicion = 0
  /\ p.suspicion > 0 => p.last_failure # None

is_failed(p) == p.suspicion >= POLICY_FAILURE_SCORE \/ p.state = "Failed"

(* The number of iterations of the loop in PolicyHealth::decay: one per    *)
(* whole decay interval since the anchor, until the suspicion is gone.     *)
DecaySteps(p, now) ==
  CHOOSE k \in 0..p.suspicion :
    /\ k > 0 => now - p.last_failure >= k * POLICY_FAILURE_DECAY_INTERVAL
    /\ \/ k = p.suspicion
       \/ now - p.last_failure < (k + 1) * POLICY_FAILURE_DECAY_INTERVAL

NoDecay(p, now) == p   \* mutant: idle routes are never aged

decay(p, now) ==
  IF p.last_failure = None \/ p.suspicion = 0
  THEN p
  ELSE LET steps == DecaySteps(p, now)
           score == p.suspicion - steps
       IN IF score = 0
          THEN [p EXCEPT !.suspicion = 0, !.last_failure = None,
                         !.state = "Unknown"]
          ELSE [p EXCEPT !.suspicion = score,
                         !.last_failure = @ + steps * POLICY_FAILURE_DECAY_INTERVAL,
                         !.state = StateForScore(score)]
-----------------------------------------------------------------------------
(* PeerHealth. *)

Liveness == {"Unknown", "Reachable", "LikelyInactive"}

Health ==
  [active_policy : Nat \ {0}, liveness : Liveness,
   consecutive_peer_failures : 0..U8_MAX,
   last_switch : Instant, switch_count : Nat,
   next_recovery_attempt_at : Instant, last_inbound_at : MaybeInstant,
   has_observed_stats : BOOLEAN, policy_health : Seq(PolicyHealthEntry),
   recovery_fallback : Nat, jitter : 0..MAX_HEALTH_JITTER]

new_with_jitter(active, now, jitter) ==
  [active_policy |-> active, liveness |-> "Unknown",
   consecutive_peer_failures |-> 0,
   last_switch |-> now, switch_count |-> 0,
   next_recovery_attempt_at |-> now + RECOVERY_PROBE_INTERVAL + jitter,
   last_inbound_at |-> None, has_observed_stats |-> FALSE,
   policy_health |-> <<>>, recovery_fallback |-> None, jitter |-> jitter]

active_route(h) == h.policy_health[h.active_policy].route

(* Health moves with the identity of a route, not with its index. *)
EntryFor(h, route) ==
  LET at == {i \in DOMAIN h.policy_health : h.policy_health[i].route = route}
  IN  IF at = {} THEN NewEntry(route)
      ELSE h.policy_health[CHOOSE i \in at : \A j \in at : i <= j]

SyncByIndex(h, active, routes) ==   \* mutant: history stays with the index
  [h EXCEPT !.policy_health =
              [i \in 1..Len(routes) |-> IF i <= Len(@) THEN @[i]
                                         ELSE NewEntry(routes[i])],
            !.active_policy = AtMost(active, Len(routes)),
            !.recovery_fallback = IF @ > Len(routes) THEN None ELSE @]

SyncKeepingFallback(h, active, routes) ==   \* mutant: fallback out of range
  [h EXCEPT !.policy_health = [i \in 1..Len(routes) |-> EntryFor(h, routes[i])],
            !.active_policy = AtMost(active, Len(routes))]

sync_policies(h, active, routes) ==
  [h EXCEPT !.policy_health = [i \in 1..Len(routes) |-> EntryFor(h, routes[i])],
            !.active_policy = AtMost(active, Len(routes)),
            !.recovery_fallback = IF @ > Len(routes) THEN None ELSE @]

schedule_next_recovery_attempt(h, now) ==
  [h EXCEPT !.next_recovery_attempt_at = now + RECOVERY_PROBE_INTERVAL + h.jitter]

Decide(h, kind) == [health |-> h, decision |-> [kind |-> kind, next_policy |-> None]]
DecideSwitch(h, policy, reason) ==
  [health |-> h, decision |-> [kind |-> reason, next_policy |-> policy]]

SwitchReason == {"Failover", "RecoveryProbe", "RecoveryFailed"}
DecisionKind == SwitchReason \cup {"Stay", "PeerInactive", "NoViablePolicy"}
-----------------------------------------------------------------------------
(* Switching. *)

SwitchFallbackNext(h, policy, now, recovery_probe) ==   \* mutant: fallback off by one
  schedule_next_recovery_attempt(
    [h EXCEPT !.switch_count = @ + 1, !.active_policy = policy,
              !.last_switch = now, !.last_inbound_at = None,
              !.recovery_fallback = IF recovery_probe THEN policy + 1 ELSE None], now)

switch_to(h, policy, now, recovery_probe) ==
  LET run == IF now - h.last_switch >= SWITCH_BACKOFF_RESET_INTERVAL
             THEN 0 ELSE h.switch_count
      moved == [h EXCEPT !.switch_count = run + 1,
                         !.active_policy = policy,
                         !.last_switch = now,
                         !.last_inbound_at = None,
                         !.recovery_fallback = IF recovery_probe
                                               THEN h.active_policy ELSE None]
  IN  schedule_next_recovery_attempt(moved, now)

CooldownWithoutBackoff(h) == INITIAL_FAILOVER_GRACE + h.jitter   \* mutant

current_switch_cooldown(h) ==
  IF h.switch_count = 0
  THEN INITIAL_FAILOVER_GRACE + h.jitter
  ELSE MIN_POLICY_SWITCH_INTERVAL
         * 2^AtMost(h.switch_count - 1, MAX_SWITCH_BACKOFF_SHIFT) + h.jitter

cooldown_elapsed(h, now) == now - h.last_switch >= current_switch_cooldown(h)

(* Lowest suspicion first, ties broken by index. *)
Preferred(h, candidates) ==
  CHOOSE i \in candidates : \A j \in candidates :
    LET si == h.policy_health[i].suspicion
        sj == h.policy_health[j].suspicion
    IN  si < sj \/ (si = sj /\ i <= j)

FallbackValidated(h, active) ==
  LET last_success == h.policy_health[active].last_success
  IN  last_success # None /\ last_success >= h.last_switch

RecoveryCandidates(h, active) ==
  {i \in 1..(active - 1) :
     ~is_failed(h.policy_health[i]) \/ FallbackValidated(h, active)}

FailoverCandidates(h, active) ==
  {i \in DOMAIN h.policy_health : i # active /\ ~is_failed(h.policy_health[i])}

has_any_route_success(h) ==
  \E i \in DOMAIN h.policy_health : h.policy_health[i].last_success # None

recovery_attempt_due(h, now) == now >= h.next_recovery_attempt_at

decide_recovery_probe(h, active, sent_more, recovery_due, now) ==
  LET candidates == RecoveryCandidates(h, active)
  IN  IF sent_more /\ recovery_due /\ candidates # {}
      THEN LET next == Preferred(h, candidates)
           IN  DecideSwitch(switch_to(h, next, now, TRUE), next, "RecoveryProbe")
      ELSE Decide(h, "Stay")

(* What happens once the active route has failed and no probe was due. *)
decide_failover(h, active, now) ==
  LET candidates == FailoverCandidates(h, active)
  IN  IF candidates # {}
      THEN LET next == Preferred(h, candidates)
           IN  DecideSwitch(switch_to(h, next, now, FALSE), next, "Failover")
      ELSE IF ~has_any_route_success(h) /\ h.consecutive_peer_failures > 2
           THEN Decide([h EXCEPT !.liveness = "LikelyInactive"], "PeerInactive")
           ELSE Decide(h, "NoViablePolicy")

(* A probe in flight is aborted back to its fallback, whatever the         *)
(* cooldown; the fallback is forgotten either way.                         *)
decide_after_unhealthy(h, active, sent_more, recovery_due, now) ==
  LET fallback == h.recovery_fallback
      taken == [h EXCEPT !.recovery_fallback = None]
      probe == decide_recovery_probe(taken, active, sent_more, recovery_due, now)
  IN  IF fallback # None /\ fallback <= Len(h.policy_health) /\ fallback # active
      THEN DecideSwitch(switch_to(taken, fallback, now, FALSE), fallback,
                        "RecoveryFailed")
      ELSE IF ~cooldown_elapsed(taken, now)
      THEN Decide(taken, "Stay")
      ELSE IF probe.decision.kind # "Stay"
      THEN probe
      ELSE IF is_failed(taken.policy_health[active])
      THEN decide_failover(taken, active, now)
      ELSE Decide(taken, "Stay")
-----------------------------------------------------------------------------
(* Folding in one sample. *)

inbound_silence(h, now) ==
  now - (IF h.last_inbound_at # None THEN h.last_inbound_at ELSE h.last_switch)

ClassifyEmptySample(h, sent_more, received_more, now) ==   \* mutant: no silence window
  IF received_more THEN "Healthy"
  ELSE IF sent_more THEN "Unhealthy" ELSE "Idle"

classify(h, sent_more, received_more, now) ==
  IF received_more
  THEN "Healthy"
  ELSE IF sent_more /\ inbound_silence(h, now) >= INBOUND_SILENCE_TIMEOUT
       THEN "Unhealthy"
       ELSE "Idle"

record_sample(h, policy, sample, now) ==
  CASE sample = "Healthy" ->
         schedule_next_recovery_attempt(
           [h EXCEPT !.policy_health[policy] = record_success(@, now),
                     !.liveness = "Reachable",
                     !.consecutive_peer_failures = 0], now)
    [] sample = "Unhealthy" ->
         [h EXCEPT !.policy_health[policy] = record_failure(@, now),
                   !.consecutive_peer_failures = AtMost(@ + 1, U8_MAX)]
    [] sample = "Idle" -> h

(* The first sample only seeds the counters and the recovery schedule. *)
SeedFirstSample(h, sent_more, received_more, now) ==
  LET seeded == [h EXCEPT !.has_observed_stats = TRUE,
                          !.last_inbound_at = IF received_more THEN now ELSE @]
  IN  IF sent_more \/ received_more
      THEN schedule_next_recovery_attempt(seeded, now)
      ELSE seeded

DecayAll(h, now) ==
  [h EXCEPT !.policy_health =
     [i \in DOMAIN h.policy_health |-> decay(h.policy_health[i], now)]]

FoldSample(h, sent_more, received_more, now) ==
  LET active == h.active_policy
      recovery_was_due == recovery_attempt_due(h, now)
      sample == classify(h, sent_more, received_more, now)
      heard == IF received_more THEN [h EXCEPT !.last_inbound_at = now] ELSE h
      recorded == record_sample(DecayAll(heard, now), active, sample, now)
  IN  CASE sample = "Healthy" ->
             decide_recovery_probe([recorded EXCEPT !.recovery_fallback = None],
                                   active, sent_more, recovery_was_due, now)
        [] sample = "Idle" -> Decide(recorded, "Stay")
        [] sample = "Unhealthy" ->
             decide_after_unhealthy(recorded, active, sent_more,
                                    recovery_was_due, now)

observe(h, routes, sent_more, received_more, now) ==
  LET synced == sync_policies(h, h.active_policy, routes)
  IN  IF Len(routes) <= 1
      THEN Decide(synced, "Stay")
      ELSE IF ~synced.has_observed_stats
      THEN Decide(SeedFirstSample(synced, sent_more, received_more, now), "Stay")
      ELSE FoldSample(synced, sent_more, received_more, now)
=============================================================================
