--------------------------- MODULE HealthMonitor ---------------------------
(***************************************************************************)
(* One peer watched by the health pass of control/reconciler.rs: samples   *)
(* arrive at irregular intervals, the decision of PeerHealth::observe is   *)
(* written to the device or rolled back, and network maps replace the      *)
(* peer's route policies while all this goes on.                           *)
(*                                                                         *)
(* `sent' and `received' say whether the device's packet counters exceed   *)
(* the ones the health record holds: traffic seen by a sample that was     *)
(* rolled back is seen again by the next one.  The variable hist records   *)
(* what really happened, for the properties only; no action reads it.      *)
(***************************************************************************)
EXTENDS PeerHealth

CONSTANTS
  RouteLists,   \* the policy lists a map may give the peer
  MaxGap,       \* largest time between two passes (a slow map fetch delays one)
  MaxTime,      \* bound on the clock
  MaxMaps       \* bound on the number of map updates

ASSUME MonitorAssumption ==
  /\ RouteLists # {}
  /\ \A l \in RouteLists :
       /\ l \in Seq(RouteKey)
       /\ Len(l) >= 1
       /\ \A i, j \in 1..Len(l) : l[i] = l[j] => i = j
  /\ MaxGap \in Nat \ {0}
  /\ MaxTime \in Nat
  /\ MaxMaps \in Nat

VARIABLES now, routes, health, sent, received, decision, maps, hist

vars == <<now, routes, health, sent, received, decision, maps, hist>>

NoRoute == <<>>

(* activeSince  when the active route was last changed, by anybody          *)
(* byMap        whether a map made the change, and not the health machine   *)
(* heardAt      the last pass that followed inbound traffic                 *)
(* deadSince    start of the run of samples that all saw traffic sent on    *)
(*              the active route and none received                          *)
(* probeFrom    the route the probe in flight came from                     *)
(* blamedAt     the last sample that added suspicion to the route           *)
(* failoverAt   the last Failover written to the device                     *)
History ==
  [activeSince : Instant, byMap : BOOLEAN,
   heardAt : MaybeInstant, deadSince : MaybeInstant,
   probeFrom : RouteKey \cup {NoRoute},
   blamedAt : [RouteKey -> MaybeInstant], failoverAt : MaybeInstant]

Init ==
  /\ now = 1
  /\ routes \in RouteLists
  /\ \E active \in 1..Len(routes), jitter \in 0..MAX_HEALTH_JITTER :
       health = sync_policies(new_with_jitter(active, now, jitter), active, routes)
  /\ sent = FALSE
  /\ received = FALSE
  /\ decision = [kind |-> "Stay", next_policy |-> None]
  /\ maps = 0
  /\ hist = [activeSince |-> now, byMap |-> FALSE,
             heardAt |-> None, deadSince |-> None,
             probeFrom |-> NoRoute,
             blamedAt |-> [r \in RouteKey |-> None], failoverAt |-> None]
-----------------------------------------------------------------------------
(* Bookkeeping of hist. *)

FirstOf(known, t) == IF known # None THEN known ELSE t

HistTraffic(h, s, r) ==
  [h EXCEPT !.heardAt = IF r THEN now' ELSE @,
            !.deadSince = IF s /\ ~r THEN FirstOf(@, now) ELSE None]

HistMoved(h, old, new, map) ==
  IF old = new THEN h
  ELSE [h EXCEPT !.activeSince = now', !.byMap = map, !.deadSince = None]

HistDecision(h, d, from) ==
  [h EXCEPT !.failoverAt = IF d.kind = "Failover" THEN now' ELSE @,
            !.probeFrom = IF d.kind = "RecoveryProbe" THEN from
                          ELSE IF d.kind = "RecoveryFailed" THEN NoRoute ELSE @]

(* The pass counted a failure against the route that was active.  (The     *)
(* peer's failure streak would not tell: it saturates at U8_MAX.)          *)
Blamed(old, new, route) ==
  /\ now' # now
  /\ route = active_route(old)
  /\ EntryFor(new, route) = record_failure(decay(EntryFor(old, route), now'), now')

HistBlame(h, old, new) ==
  [h EXCEPT !.blamedAt = [r \in RouteKey |->
      IF Blamed(old, new, r) THEN now' ELSE h.blamedAt[r]]]
-----------------------------------------------------------------------------
(* reconcile_peer_health_at, for this peer. *)

Pass(gap) == now + gap <= MaxTime /\ now' = now + gap

(* track_active_policy with the desired policy, which is the health        *)
(* record's own, then observe.                                             *)
Observed(s, r) ==
  observe(sync_policies(health, health.active_policy, routes), routes, s, r, now')

(* The decision is applied: a switch reaches the device. *)
Sample(gap, s, r) ==
  /\ Len(routes) > 1
  /\ Pass(gap)
  /\ LET result == Observed(sent \/ s, received \/ r)
     IN  /\ health' = result.health
         /\ decision' = result.decision
         /\ hist' = HistMoved(
                      HistDecision(
                        HistBlame(HistTraffic(hist, s, r), health, health'),
                        decision', active_route(health)),
                      active_route(health), active_route(health'), FALSE)
  /\ sent' = FALSE
  /\ received' = FALSE
  /\ UNCHANGED <<routes, maps>>

(* update_peer fails: the health snapshot is put back. *)
SampleRolledBack(gap, s, r) ==
  /\ Len(routes) > 1
  /\ Pass(gap)
  /\ Observed(sent \/ s, received \/ r).decision.kind \in SwitchReason
  /\ sent' = (sent \/ s)
  /\ received' = (received \/ r)
  /\ decision' = [kind |-> "Stay", next_policy |-> None]
  /\ hist' = [HistTraffic(hist, s, r) EXCEPT !.deadSince = None]
  /\ UNCHANGED <<routes, health, maps>>

(* A peer with a single policy is skipped. *)
Skip(gap, s, r) ==
  /\ Len(routes) <= 1
  /\ Pass(gap)
  /\ sent' = (sent \/ s)
  /\ received' = (received \/ r)
  /\ decision' = [kind |-> "Stay", next_policy |-> None]
  /\ hist' = [HistTraffic(hist, s, r) EXCEPT !.deadSince = None]
  /\ UNCHANGED <<routes, health, maps>>

(* carry_forward_active_policies and the rest of reconcile_network_map for *)
(* this peer: the route in use is found again by identity, or the first    *)
(* policy is taken.                                                        *)
CarryForward(new) ==
  LET same == {i \in 1..Len(new) : new[i] = active_route(health)}
  IN  sync_policies(health, IF same = {} THEN 1 ELSE CHOOSE i \in same : TRUE, new)

MapUpdate(new) ==
  /\ maps < MaxMaps
  /\ new # routes
  /\ maps' = maps + 1
  /\ UNCHANGED <<now, sent, received, decision>>
  /\ routes' = new
  /\ health' = CarryForward(new)
  /\ hist' = HistMoved([hist EXCEPT !.probeFrom = NoRoute],
                       active_route(health), active_route(health'), TRUE)

Next ==
  \/ \E gap \in 1..MaxGap, s, r \in BOOLEAN :
       Sample(gap, s, r) \/ SampleRolledBack(gap, s, r) \/ Skip(gap, s, r)
  \/ \E new \in RouteLists : MapUpdate(new)

Spec == Init /\ [][Next]_vars
-----------------------------------------------------------------------------
TypeOK ==
  /\ now \in Instant
  /\ routes \in RouteLists
  /\ health \in Health
  /\ Len(health.policy_health) = Len(routes)
  /\ health.active_policy <= Len(routes)
  /\ health.recovery_fallback <= Len(routes)
  /\ sent \in BOOLEAN /\ received \in BOOLEAN
  /\ decision \in [kind : DecisionKind, next_policy : Nat]
  /\ maps \in 0..MaxMaps
  /\ hist \in History

(* The two readings of "failed" that PolicyHealth::is_failed accepts never  *)
(* disagree, whatever order successes, failures, decay and map updates come *)
(* in (the "kept consistent with suspicion" of PolicyHealth.state).         *)
LabelAgreesWithScore ==
  \A i \in DOMAIN health.policy_health : LabelFits(health.policy_health[i])

(* Histories belong to routes, not to places in a list: through any map     *)
(* that reorders, shortens or lengthens the list a route keeps its entry,   *)
(* a route the last map did not have starts afresh, and all a pass changes  *)
(* is the entry of the route it sampled -- the others only age, also when   *)
(* the pass switches (sync_policies, PolicyHealth::decay, record_sample).   *)
HistoryFollowsRoute ==
  [][\A j \in 1..Len(routes') :
       LET entry == health'.policy_health[j]
           same == {i \in 1..Len(routes) : routes[i] = routes'[j]}
       IN  /\ entry.route = routes'[j]
           /\ same = {} => entry = NewEntry(routes'[j])
           /\ \A i \in same :
                \/ entry = health.policy_health[i]
                \/ now' # now /\ entry = decay(health.policy_health[i], now')
                \/ now' # now /\ i = health.active_policy]_vars

(* A route is blamed by classify and record_sample only if nothing at all   *)
(* was received during a whole silence window, and never within a window    *)
(* of a switch -- even though rolled-back samples, skipped passes and map   *)
(* updates all happen in between.                                           *)
BlameNeedsSilence ==
  [][\A route \in RouteKey : Blamed(health, health', route) =>
       /\ now' - hist'.heardAt >= INBOUND_SILENCE_TIMEOUT
       /\ now' - health.last_switch >= INBOUND_SILENCE_TIMEOUT]_vars

(* Two failovers of one peer are never closer than the base interval, no    *)
(* matter what probes, aborted probes, rollbacks or maps come between.      *)
FailoversAreSpaced ==
  [][decision'.kind = "Failover" /\ now' # now /\ hist.failoverAt # None
       => now' - hist.failoverAt >= MIN_POLICY_SWITCH_INTERVAL
          \/ hist'.failoverAt = hist.failoverAt]_vars

(* A failed route that is not blamed again becomes a candidate again: after *)
(* every sample, whatever is still failed was blamed less than one decay    *)
(* interval ago (PolicyHealth::decay).                                      *)
FailureIsTemporary ==
  [][\A gap \in 1..MaxGap, s, r \in BOOLEAN : Sample(gap, s, r) =>
       \A i \in DOMAIN health'.policy_health :
         is_failed(health'.policy_health[i]) =>
           /\ hist'.blamedAt[routes[i]] # None
           /\ now' - hist'.blamedAt[routes[i]] < POLICY_FAILURE_DECAY_INTERVAL]_vars

(* Probing costs no working route.  A failed route is probed only when the  *)
(* fallback has really been heard since a switch made it active -- a route  *)
(* that a map put back may still live on the proof of an earlier stay --    *)
(* and as long as the map stands still an aborted probe goes back to the    *)
(* very route it left (best_recovery_policy, PeerHealth.recovery_fallback). *)
ProbesAreSafe ==
  [][now' # now =>
       /\ decision'.kind = "RecoveryProbe" =>
            \/ ~is_failed(EntryFor(health', active_route(health')))
            \/ hist.byMap
            \/ hist'.heardAt >= hist.activeSince
       /\ decision'.kind = "RecoveryFailed" /\ hist.probeFrom # NoRoute =>
            active_route(health') = hist.probeFrom]_vars

(* Detection is bounded: a pass leaves a route on which every sample saw    *)
(* unanswered traffic once the silence window and two scoring samples have  *)
(* passed and the cooldown is over, unless every other route is failed too  *)
(* (decide_after_unhealthy).                                                *)
DeadRouteIsLeft ==
  [][/\ now' # now
     /\ hist'.deadSince # None
     /\ now' >= hist'.deadSince + INBOUND_SILENCE_TIMEOUT + 2 * MaxGap
     /\ cooldown_elapsed(health', now')
     => FailoverCandidates(health', health'.active_policy) = {}]_vars
=============================================================================
