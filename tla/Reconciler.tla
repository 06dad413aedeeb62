----------------------------- MODULE Reconciler -----------------------------
(***************************************************************************)
(* control/reconciler.rs over the peer table of device.rs.  The reconciler *)
(* runs one handler at a time (a map pass or a health pass); a handler     *)
(* gives way to the device at every command it awaits, so each action here *)
(* is the stretch of a handler from one device command to the next, and    *)
(* authenticated traffic (Roam) moves endpoints in between.  The maps are  *)
(* iterated in hash order: the next key is any key left in `todo'.         *)
(*                                                                         *)
(* A peer's health is reduced to what this module tells apart, its policy  *)
(* list and the active index; PeerHealth::observe may return any decision  *)
(* (HealthMonitor has the real one).                                       *)
(***************************************************************************)
EXTENDS Integers, Sequences, FiniteSets, Functions

CONSTANTS
  Peer,         \* public keys
  Address,      \* tunnel addresses
  Endpoint,     \* socket addresses
  None,         \* an absent value
  Maps,         \* network maps a directory may serve
  Preinstalled, \* device configuration before the reconciler starts
  MaxFailures,  \* bound on device commands that fail for no reason of their own
  MaxSwitches,  \* bound on route switches
  MaxRoams      \* bound on endpoint changes by authenticated traffic

(* A map gives each of its peers an address, a directory flag and a set of  *)
(* routes [kind, to, priority]; updated_at orders the maps.                 *)
RouteOf == [kind : {"Direct"}, to : Endpoint \cup {None}]
             \cup [kind : {"Relay"}, to : Peer]

Policy == [route : RouteOf, priority : Nat]

PeerConfig ==
  [endpoint : Endpoint \cup {None}, relay : Peer \cup {None},
   ip : Address \cup {None}, keepalive : BOOLEAN]

ASSUME ReconcilerAssumption ==
  /\ None \notin Peer \cup Address \cup Endpoint
  /\ MaxFailures \in Nat /\ MaxSwitches \in Nat /\ MaxRoams \in Nat
  /\ \A m \in Maps :
       /\ m.updated_at \in Nat \ {0}
       /\ DOMAIN m.peers \subseteq Peer
       /\ \A k \in DOMAIN m.peers :
            /\ m.peers[k].ip \in Address \cup {None}
            /\ m.peers[k].is_directory \in BOOLEAN
            /\ IsFiniteSet(m.peers[k].routes)
            /\ \A r \in m.peers[k].routes :
                 \/ r \in [kind : {"Direct"}, to : Endpoint \cup {None}, priority : Nat]
                 \/ r \in [kind : {"Relay"}, to : Peer, priority : Nat]
  /\ DOMAIN Preinstalled \subseteq Peer /\ IsFiniteSet(DOMAIN Preinstalled)
  /\ \A k \in DOMAIN Preinstalled : Preinstalled[k] \in PeerConfig
-----------------------------------------------------------------------------
(* From a map to the peers wanted on the device. *)

UsableUnresolved(map, k) ==   \* mutant: relays are not looked up in the map
  LET routes == map.peers[k].routes
  IN  IF routes = {} THEN {[kind |-> "Direct", to |-> None, priority |-> 0]} ELSE routes

(* Routes that name a relay outside the map, or the destination itself, are *)
(* dropped; with nothing left the peer gets the endpoint-less direct route. *)
UsableRoutes(map, k) ==
  LET usable == {r \in map.peers[k].routes :
                   r.kind = "Relay" => r.to \in DOMAIN map.peers /\ r.to # k}
  IN  IF usable = {} THEN {[kind |-> "Direct", to |-> None, priority |-> 0]}
      ELSE usable

(* Duplicates collapse to their best priority. *)
DedupedPolicies(routes) ==
  {[route |-> [kind |-> r.kind, to |-> r.to], priority |-> r.priority] :
     r \in {r \in routes : \A q \in routes :
              q.kind = r.kind /\ q.to = r.to => r.priority <= q.priority}}

(* sort_unstable_by_key: any order that is sorted by priority. *)
SortedLists(policies) ==
  {l \in [1..Cardinality(policies) -> policies] :
     /\ \A p \in policies : \E i \in DOMAIN l : l[i] = p
     /\ \A i, j \in DOMAIN l : i < j => l[i].priority <= l[j].priority}

route_policies_for_peer(map, k) == SortedLists(DedupedPolicies(UsableRoutes(map, k)))

(* The random choice of initial_policy_index. *)
InitialPolicies(policies) ==
  {i \in DOMAIN policies : \A j \in DOMAIN policies :
     policies[i].priority <= policies[j].priority}

DesiredPeer(map, k) ==
  UNION {{[ip |-> map.peers[k].ip, keepalive |-> map.peers[k].is_directory,
           policies |-> l, active |-> i] : i \in InitialPolicies(l)} :
         l \in route_policies_for_peer(map, k)}

desired_peers_from_map(map) ==
  {d \in [DOMAIN map.peers -> UNION {DesiredPeer(map, k) : k \in DOMAIN map.peers}] :
     \A k \in DOMAIN map.peers : d[k] \in DesiredPeer(map, k)}

preferred_direct_endpoint(policies) ==
  LET direct == {i \in DOMAIN policies :
                   policies[i].route.kind = "Direct" /\ policies[i].route.to # None}
  IN  IF direct = {} THEN None
      ELSE policies[CHOOSE i \in direct : \A j \in direct : i <= j].route.to

(* DesiredPeer::config. *)
config(d) ==
  LET route == d.policies[d.active].route
  IN  [endpoint |-> IF route.kind = "Direct" THEN route.to
                    ELSE preferred_direct_endpoint(d.policies),
       relay |-> IF route.kind = "Relay" THEN route.to ELSE None,
       ip |-> d.ip, keepalive |-> d.keepalive]

route_keys(d) == [i \in DOMAIN d.policies |-> d.policies[i].route]
-----------------------------------------------------------------------------
VARIABLES
  device,     \* the device's peer table: key -> PeerConfig
  desired, health, prints, lastApplied, directories,   \* PeerReconciler
  pc,         \* the handler that is running, "idle" between handlers
  pending,    \* the map pass's locals: the map and the peers wanted from it
  todo,       \* keys the running pass has not reached yet
  failures, switches, roams,   \* bounds
  aborted     \* history: a map pass has failed since the last one that succeeded

vars == <<device, desired, health, prints, lastApplied, directories, pc,
          pending, todo, failures, switches, roams, aborted>>
bounds == <<failures, switches, roams>>

NoMap == [map |-> None, desired |-> <<>>]

Without(f, k) == Restrict(f, DOMAIN f \ {k})
With(f, k, v) == [x \in DOMAIN f \cup {k} |-> IF x = k THEN v ELSE f[x]]

Init ==
  /\ device = Preinstalled
  /\ desired = <<>> /\ health = <<>> /\ prints = <<>>
  /\ lastApplied = 0
  /\ directories = DOMAIN Preinstalled
  /\ pc = "idle" /\ pending = NoMap /\ todo = {}
  /\ failures = 0 /\ switches = 0 /\ roams = 0
  /\ aborted = FALSE
-----------------------------------------------------------------------------
(* Device commands (device.rs).  A peer table is rejected when the new      *)
(* address belongs to another peer as the table stands.                     *)
Overlaps(k, ip) == ip # None /\ \E j \in DOMAIN device \ {k} : device[j].ip = ip

Track(d) == [routes |-> route_keys(d), active |-> d.active]

Idle == pc' = "idle" /\ todo' = {}
Spend(counter, limit) == counter < limit /\ counter' = counter + 1

CarryForwardByIndex(d, h) ==   \* mutant: the index survives instead
  [d EXCEPT !.active = IF h.active <= Len(d.policies) THEN h.active ELSE 1]

CarryForwardUnclamped(d, h) == [d EXCEPT !.active = h.active + 1]   \* mutant

(* The selection survives by route identity; a route that is gone falls     *)
(* back to the first policy.                                                *)
CarryForward(d, h) ==
  LET same == {i \in DOMAIN d.policies : d.policies[i].route = h.routes[h.active]}
  IN  [d EXCEPT !.active = IF same = {} THEN 1 ELSE CHOOSE i \in same : TRUE]

-----------------------------------------------------------------------------
(* reconcile_network_map *)

MapStartMarksApplied(map) ==   \* mutant: the timestamp is recorded too early
  /\ pc = "idle"
  /\ directories # {}
  /\ map.updated_at > lastApplied
  /\ \E nd \in desired_peers_from_map(map) : pending' = [map |-> map, desired |-> nd]
  /\ lastApplied' = map.updated_at
  /\ pc' = "listing"
  /\ UNCHANGED <<device, desired, health, prints, directories, todo, bounds, aborted>>

(* Up to list_peers.  The fetcher gives up without a directory              *)
(* (desktop-client/src/directory.rs), and a map no newer than the last      *)
(* applied one is ignored.                                                  *)
MapStart(map) ==
  /\ pc = "idle"
  /\ directories # {}
  /\ map.updated_at > lastApplied
  /\ \E d \in desired_peers_from_map(map) :
       LET nd == [k \in DOMAIN d |-> IF k \in DOMAIN health
                                      THEN CarryForward(d[k], health[k]) ELSE d[k]]
       IN  /\ pending' = [map |-> map, desired |-> nd]
           /\ health' = [k \in DOMAIN health |->
                           IF k \in DOMAIN nd THEN Track(nd[k]) ELSE health[k]]
  /\ pc' = "listing"
  /\ UNCHANGED <<device, desired, prints, lastApplied, directories, todo, bounds, aborted>>

MapList ==
  /\ pc = "listing"
  /\ pc' = "removing"
  /\ todo' = DOMAIN device \ DOMAIN pending.desired
  /\ UNCHANGED <<device, desired, health, prints, lastApplied, directories,
                 pending, bounds, aborted>>

MapRemoveKeepingPrints(k) ==   \* mutant: the fingerprint survives its peer
  /\ pc = "removing" /\ k \in todo
  /\ todo' = todo \ {k}
  /\ device' = Without(device, k)
  /\ health' = Without(health, k)
  /\ UNCHANGED <<desired, prints, lastApplied, directories, pc, pending, bounds, aborted>>

MapRemove(k) ==
  /\ pc = "removing" /\ k \in todo
  /\ todo' = todo \ {k}
  /\ device' = Without(device, k)
  /\ health' = Without(health, k)
  /\ prints' = Without(prints, k)
  /\ UNCHANGED <<desired, lastApplied, directories, pc, pending, bounds, aborted>>

MapRemoved ==
  /\ pc = "removing" /\ todo = {}
  /\ pc' = "applying"
  /\ todo' = DOMAIN pending.desired
  /\ UNCHANGED <<device, desired, health, prints, lastApplied, directories,
                 pending, bounds, aborted>>

AlreadyApplied(k, c) ==
  k \in DOMAIN device /\ k \in DOMAIN prints /\ prints[k] = c

MapApply(k) ==
  /\ pc = "applying" /\ k \in todo
  /\ todo' = todo \ {k}
  /\ LET c == config(pending.desired[k])
     IN  \/ /\ ~AlreadyApplied(k, c)
            /\ ~Overlaps(k, c.ip)
            /\ device' = With(device, k, c)
            /\ prints' = With(prints, k, c)
         \/ /\ AlreadyApplied(k, c)
            /\ UNCHANGED <<device, prints>>
  /\ health' = With(health, k, Track(pending.desired[k]))
  /\ UNCHANGED <<desired, lastApplied, directories, pc, pending, bounds, aborted>>

(* Any `?' of the pass: what was written stays written, the desired set and *)
(* last_applied_map_updated_at stay those of the previous map.              *)
MapAbort ==
  /\ Idle
  /\ pending' = NoMap
  /\ aborted' = TRUE
  /\ UNCHANGED <<device, desired, health, prints, lastApplied, directories,
                 switches, roams>>

MapRejected(k) ==
  /\ pc = "applying" /\ k \in todo
  /\ ~AlreadyApplied(k, config(pending.desired[k]))
  /\ Overlaps(k, config(pending.desired[k]).ip)
  /\ MapAbort
  /\ UNCHANGED failures

MapListFails ==
  /\ pc = "listing"
  /\ Spend(failures, MaxFailures)
  /\ MapAbort

MapCommandFails(k) ==
  /\ k \in todo
  /\ \/ pc = "removing"
     \/ pc = "applying" /\ ~AlreadyApplied(k, config(pending.desired[k]))
  /\ Spend(failures, MaxFailures)
  /\ MapAbort

MapCommit ==
  /\ pc = "applying" /\ todo = {}
  /\ Idle
  /\ directories' = {k \in DOMAIN pending.map.peers : pending.map.peers[k].is_directory}
  /\ desired' = pending.desired
  /\ lastApplied' = pending.map.updated_at
  /\ pending' = NoMap
  /\ aborted' = FALSE
  /\ UNCHANGED <<device, health, prints, bounds>>
-----------------------------------------------------------------------------
(* reconcile_peer_health_at *)

HealthStart ==
  /\ pc = "idle"
  /\ pc' = "sampling"
  /\ todo' = {k \in DOMAIN desired : Len(desired[k].policies) > 1}
  /\ todo' # {}
  /\ UNCHANGED <<device, desired, health, prints, lastApplied, directories,
                 pending, bounds, aborted>>

HealthStay(k) ==
  /\ pc = "sampling" /\ k \in todo /\ k \in DOMAIN device
  /\ todo' = todo \ {k}
  /\ health' = With(health, k, Track(desired[k]))
  /\ UNCHANGED <<device, desired, prints, lastApplied, directories, pc, pending,
                 bounds, aborted>>

HealthSwitch(k, next) ==
  /\ pc = "sampling" /\ k \in todo /\ k \in DOMAIN device
  /\ next # desired[k].active
  /\ Spend(switches, MaxSwitches)
  /\ LET d == [desired[k] EXCEPT !.active = next]
     IN  /\ ~Overlaps(k, d.ip)
         /\ desired' = [desired EXCEPT ![k] = d]
         /\ health' = With(health, k, Track(d))
         /\ device' = [device EXCEPT ![k] = config(d)]
         /\ prints' = With(prints, k, config(d))
  /\ todo' = todo \ {k}
  /\ UNCHANGED <<lastApplied, directories, pc, pending, failures, roams, aborted>>

NoRollBack(k) ==   \* mutant: the switch proposed by observe is kept
  \E next \in DOMAIN desired[k].policies \ {desired[k].active} :
    health' = With(health, k, Track([desired[k] EXCEPT !.active = next]))

(* The snapshot taken after track_active_policy is put back, and so is the  *)
(* desired policy.                                                          *)
RollBack(k) == health' = With(health, k, Track(desired[k]))

HealthSwitchFails(k) ==
  /\ pc = "sampling" /\ k \in todo /\ k \in DOMAIN device
  /\ switches < MaxSwitches
  /\ \/ Overlaps(k, desired[k].ip) /\ UNCHANGED failures
     \/ Spend(failures, MaxFailures)
  /\ RollBack(k)
  /\ Idle
  /\ UNCHANGED <<device, desired, prints, lastApplied, directories, pending,
                 switches, roams, aborted>>

(* get_peer fails: the pass ends there, for the peers after k too.          *)
HealthGetFails(k) ==
  /\ pc = "sampling" /\ k \in todo
  /\ \/ k \notin DOMAIN device /\ UNCHANGED failures
     \/ k \in DOMAIN device /\ Spend(failures, MaxFailures)
  /\ Idle
  /\ UNCHANGED <<device, desired, health, prints, lastApplied, directories,
                 pending, switches, roams, aborted>>

HealthEnd ==
  /\ pc = "sampling" /\ todo = {}
  /\ Idle
  /\ UNCHANGED <<device, desired, health, prints, lastApplied, directories,
                 pending, bounds, aborted>>
-----------------------------------------------------------------------------
(* An authenticated packet from a new address (device.rs, set_endpoint). *)
Roam(k, endpoint) ==
  /\ k \in DOMAIN device
  /\ device[k].endpoint # endpoint
  /\ Spend(roams, MaxRoams)
  /\ device' = [device EXCEPT ![k].endpoint = endpoint]
  /\ UNCHANGED <<desired, health, prints, lastApplied, directories, pc, pending,
                 todo, failures, switches, aborted>>

MapPass ==
  \/ \E k \in Peer : MapRemove(k) \/ MapApply(k) \/ MapRejected(k) \/ MapCommandFails(k)
  \/ MapList \/ MapListFails
  \/ MapRemoved
  \/ MapCommit

HealthPass ==
  \/ HealthStart
  \/ \E k \in Peer : HealthStay(k) \/ HealthSwitchFails(k) \/ HealthGetFails(k)
  \/ \E k \in DOMAIN desired : \E next \in DOMAIN desired[k].policies : HealthSwitch(k, next)
  \/ HealthEnd

Next ==
  \/ \E map \in Maps : MapStart(map)
  \/ MapPass
  \/ HealthPass
  \/ \E k \in Peer, endpoint \in Endpoint : Roam(k, endpoint)

Newest == CHOOSE m \in Maps : \A n \in Maps : n.updated_at <= m.updated_at

Spec == Init /\ [][Next]_vars

(* The select! loop always runs the handler it has started to its end, and  *)
(* the map timer comes round for ever: with a directory that serves the     *)
(* newest map, fetching it is attempted again and again.                    *)
FairSpec ==
  /\ Spec
  /\ WF_vars(MapPass)
  /\ WF_vars(HealthPass)
  /\ SF_vars(MapStart(Newest))
-----------------------------------------------------------------------------
Tracked == [routes : Seq(RouteOf), active : Nat \ {0}]
Desired == [ip : Address \cup {None}, keepalive : BOOLEAN,
            policies : Seq(Policy), active : Nat \ {0}]

WellFormed(d) == d \in Desired /\ d.active \in DOMAIN d.policies

TypeOK ==
  /\ IsFiniteSet(DOMAIN device) /\ DOMAIN device \subseteq Peer
  /\ \A k \in DOMAIN device : device[k] \in PeerConfig
  /\ DOMAIN desired \subseteq Peer /\ \A k \in DOMAIN desired : WellFormed(desired[k])
  /\ DOMAIN health \subseteq Peer
  /\ \A k \in DOMAIN health :
       health[k] \in Tracked /\ health[k].active \in DOMAIN health[k].routes
  /\ DOMAIN prints \subseteq Peer /\ \A k \in DOMAIN prints : prints[k] \in PeerConfig
  /\ lastApplied \in Nat /\ directories \subseteq Peer
  /\ pc \in {"idle", "listing", "removing", "applying", "sampling"}
  /\ todo \subseteq Peer /\ aborted \in BOOLEAN
  /\ \A k \in DOMAIN pending.desired : WellFormed(pending.desired[k])

SameConfig(c, d) ==   \* up to the endpoint, which traffic may have moved
  c.relay = d.relay /\ c.ip = d.ip /\ c.keepalive = d.keepalive

(* What the reconciler keeps of a peer never lies, in the middle of a pass  *)
(* and after any number of passes that failed half way: a fingerprint is    *)
(* the configuration the device runs, or apply_desired_peers would skip a   *)
(* write that is needed, and health is that of a peer the device has, so    *)
(* that one that comes back starts anew (remove_vanished_peers).            *)
FingerprintsAreTrue ==
  /\ \A k \in DOMAIN prints : k \in DOMAIN device /\ SameConfig(prints[k], device[k])
  /\ DOMAIN health \subseteq DOMAIN device

(* Device, desired set and health agree on every peer between two handlers, *)
(* rolled-back switches included, as long as the last map pass succeeded.   *)
ViewsAgree ==
  pc = "idle" /\ ~aborted =>
    \A k \in DOMAIN desired :
      /\ k \in DOMAIN device /\ SameConfig(device[k], config(desired[k]))
      /\ k \in DOMAIN prints /\ prints[k] = config(desired[k])
      /\ k \in DOMAIN health /\ health[k] = Track(desired[k])

(* A peer reached through a relay has its relay on the device.              *)
RelayIsInstalled ==
  pc = "idle" /\ ~aborted =>
    \A k \in DOMAIN desired : device[k].relay # None => device[k].relay \in DOMAIN device

(* A map update keeps a peer on its route if the map still has it, wherever *)
(* it is now in the list, and otherwise moves it to a route of the best     *)
(* priority (carry_forward_active_policies).                                *)
MapKeepsSelection ==
  [][\A map \in Maps : MapStart(map) =>
       \A k \in DOMAIN health \cap DOMAIN pending'.desired :
         LET old == health[k].routes[health[k].active]
             new == pending'.desired[k]
         IN  IF \E i \in DOMAIN new.policies : new.policies[i].route = old
             THEN new.policies[new.active].route = old
             ELSE new.active \in InitialPolicies(new.policies)]_vars

MapInForce ==
  /\ lastApplied = Newest.updated_at
  /\ DOMAIN desired = DOMAIN Newest.peers
  /\ DOMAIN device = DOMAIN Newest.peers
  /\ \A k \in DOMAIN Newest.peers : device[k].ip = Newest.peers[k].ip

(* The newest map gives k an address that another of its peers still holds. *)
AddressTaken ==
  \E k, j \in DOMAIN Newest.peers :
    /\ k # j /\ j \in DOMAIN device
    /\ Newest.peers[k].ip # None /\ device[j].ip = Newest.peers[k].ip

(* A pass that failed half way is made good: however the passes interleave  *)
(* and whatever transient failures hit them, the newest map ends up in      *)
(* force, on the device as well as in the reconciler                        *)
(* (reconcile_network_map, apply_desired_peers), unless some address it     *)
(* gives out stays with another peer that survives.  Addresses that a       *)
(* vanished peer held, and those the pass itself frees in time, are no      *)
(* excuse.                                                                  *)
NewestMapIsApplied == <>[]AddressTaken \/ <>[]MapInForce

(* A missed update is only late, whatever the map (MAP_RECONCILE_INTERVAL,  *)
(* "the cost of a missed update is only that a config change lands up to    *)
(* one interval late").                                                     *)
EveryMapIsApplied == <>[]MapInForce
=============================================================================
