-------------------------- MODULE ReconcilerProofs --------------------------
(***************************************************************************)
(* The invariants of Reconciler for every set of peers, every history of   *)
(* maps and any number of failures, switches and roaming peers.            *)
(***************************************************************************)
EXTENDS Reconciler, FiniteSetTheorems, WellFoundedInduction, TLAPS

(* Every relay the peers of ds may be reached through is one of them. *)
RelaysKnown(ds) ==
  \A k \in DOMAIN ds : \A i \in DOMAIN ds[k].policies :
    ds[k].policies[i].route.kind = "Relay" => ds[k].policies[i].route.to \in DOMAIN ds

(* The peers of S are written, fingerprinted and tracked as ds wants them.  *)
Installed(S, ds) ==
  \A k \in S : /\ k \in DOMAIN prints /\ prints[k] = config(ds[k])
               /\ k \in DOMAIN health /\ health[k] = Track(ds[k])

(* What holds in the middle of a pass: the map pass has done its work for   *)
(* the peers it has reached, and the health pass undoes none of it.         *)
PassInv ==
  /\ RelaysKnown(desired) /\ RelaysKnown(pending.desired)
  /\ DOMAIN pending.desired \subseteq Peer
  /\ pc \in {"listing", "removing", "applying"} => pending.map \in Maps
  /\ pc = "applying" => Installed(DOMAIN pending.desired \ todo, pending.desired)
  /\ pc = "applying" => todo \subseteq DOMAIN pending.desired
  /\ pc = "sampling" => todo \subseteq DOMAIN desired
  /\ pc \in {"idle", "sampling"} /\ ~aborted => Installed(DOMAIN desired, desired)

ReconcilerInv == TypeOK /\ FingerprintsAreTrue /\ PassInv
-----------------------------------------------------------------------------
(* A table without a key, and the least of a set of indices. *)

LEMMA WithoutIs ==
  ASSUME NEW f, NEW k
  PROVE  /\ DOMAIN Without(f, k) = DOMAIN f \ {k}
         /\ \A x \in DOMAIN f \ {k} : Without(f, k)[x] = f[x]
  BY DEF Without, Restrict

LEMMA HasMinimum ==
  ASSUME NEW S \in SUBSET Nat, S # {}
  PROVE  \E x \in S : \A y \in S : x <= y
<1> DEFINE R == OpToRel(<, Nat)
<1>1. IsWellFoundedOn(R, Nat)
  BY NatLessThanWellFounded
<1> HIDE DEF R
<1>2. PICK t \in S : \A u \in S : ~(<<u, t>> \in R)
  BY <1>1, WFMin
<1>3. ASSUME NEW u \in Nat, NEW v \in Nat, u < v PROVE <<u, v>> \in R
  <2>1. <<u, v>> \in Nat \X Nat /\ <<u, v>>[1] < <<u, v>>[2]
    BY <1>3
  <2> QED  BY <2>1 DEF R, OpToRel
<1>4. ASSUME NEW u \in S, u < t PROVE FALSE
  BY <1>2, <1>3, <1>4
<1> QED  BY <1>2, <1>4
-----------------------------------------------------------------------------
(* From a map to the peers wanted on the device. *)

LEMMA ConfigType ==
  ASSUME NEW d, WellFormed(d)
  PROVE  config(d) \in PeerConfig
<1> DEFINE ps == d.policies
           route == ps[d.active].route
           direct == {i \in DOMAIN ps : ps[i].route.kind = "Direct" /\ ps[i].route.to # None}
           pick == CHOOSE i \in direct : \A j \in direct : i <= j
<1>1. ps \in Seq(Policy) /\ d.active \in DOMAIN ps /\ d.ip \in Address \cup {None}
      /\ d.keepalive \in BOOLEAN
  BY DEF WellFormed, Desired
<1>2. \A i \in DOMAIN ps : i \in Nat /\ ps[i].route \in RouteOf
  <2>1. DOMAIN ps = 1..Len(ps) /\ Len(ps) \in Nat /\ \A i \in DOMAIN ps : ps[i] \in Policy
    BY <1>1
  <2> QED  BY <2>1 DEF Policy
<1>3. route \in RouteOf
  BY <1>1, <1>2
<1>4. preferred_direct_endpoint(ps) \in Endpoint \cup {None}
  <2>1. CASE direct = {}
    BY <2>1 DEF preferred_direct_endpoint
  <2>2. CASE direct # {}
    <3>1. \E i \in direct : \A j \in direct : i <= j
      BY <1>2, <2>2, HasMinimum
    <3>2. pick \in direct
      BY <3>1
    <3>3. preferred_direct_endpoint(ps) = ps[pick].route.to
      BY <2>2 DEF preferred_direct_endpoint
    <3> HIDE DEF pick
    <3>4. ps[pick].route \in RouteOf /\ ps[pick].route.kind = "Direct"
      BY <1>2, <3>2
    <3> QED  BY <3>3, <3>4 DEF RouteOf
  <2> QED  BY <2>1, <2>2
<1>5. (IF route.kind = "Direct" THEN route.to ELSE preferred_direct_endpoint(ps)) \in Endpoint \cup {None}
  BY <1>3, <1>4 DEF RouteOf
<1>6. (IF route.kind = "Relay" THEN route.to ELSE None) \in Peer \cup {None}
  BY <1>3 DEF RouteOf
<1> QED  BY <1>1, <1>5, <1>6 DEF config, PeerConfig

LEMMA TrackType ==
  ASSUME NEW d, WellFormed(d)
  PROVE  Track(d) \in Tracked /\ Track(d).active \in DOMAIN Track(d).routes
<1>1. d.policies \in Seq(Policy) /\ d.active \in DOMAIN d.policies
  BY DEF WellFormed, Desired
<1>2. route_keys(d) \in Seq(RouteOf) /\ DOMAIN route_keys(d) = DOMAIN d.policies
  <2> DEFINE ps == d.policies
  <2>1. DOMAIN ps = 1..Len(ps) /\ Len(ps) \in Nat /\ \A i \in DOMAIN ps : ps[i] \in Policy
    BY <1>1
  <2>2. \A i \in DOMAIN ps : ps[i].route \in RouteOf
    BY <2>1 DEF Policy
  <2>3. route_keys(d) = [i \in 1..Len(ps) |-> ps[i].route]
    BY <2>1 DEF route_keys
  <2> QED  BY <2>1, <2>2, <2>3
<1>3. d.active \in Nat \ {0}
  BY DEF WellFormed, Desired
<1> QED  BY <1>1, <1>2, <1>3 DEF Track, Tracked

(* What a map wants of a peer: a list of usable routes, sorted, and one of  *)
(* the best of them.                                                        *)
LEMMA DesiredPeerIs ==
  ASSUME NEW map \in Maps, NEW k \in DOMAIN map.peers, NEW d \in DesiredPeer(map, k)
  PROVE  /\ WellFormed(d)
         /\ \A i \in DOMAIN d.policies :
              d.policies[i].route.kind = "Relay" => d.policies[i].route.to \in DOMAIN map.peers
         /\ \A i, j \in DOMAIN d.policies : i < j => d.policies[i].priority <= d.policies[j].priority
<1> DEFINE U == UsableRoutes(map, k)
           Best == {r \in U : \A q \in U : q.kind = r.kind /\ q.to = r.to => r.priority <= q.priority}
           P == DedupedPolicies(U)
<1>1. /\ k \in Peer /\ map.peers[k].ip \in Address \cup {None}
      /\ map.peers[k].is_directory \in BOOLEAN
      /\ IsFiniteSet(map.peers[k].routes)
      /\ \A r \in map.peers[k].routes :
           \/ r \in [kind : {"Direct"}, to : Endpoint \cup {None}, priority : Nat]
           \/ r \in [kind : {"Relay"}, to : Peer, priority : Nat]
  BY ReconcilerAssumption
<1>2. \A r \in U : /\ \/ r \in [kind : {"Direct"}, to : Endpoint \cup {None}, priority : Nat]
                      \/ r \in [kind : {"Relay"}, to : Peer, priority : Nat]
                   /\ r.kind = "Relay" => r.to \in DOMAIN map.peers
  BY <1>1 DEF UsableRoutes
<1>3. IsFiniteSet(U)
  <2> DEFINE usable == {r \in map.peers[k].routes :
                          r.kind = "Relay" => r.to \in DOMAIN map.peers /\ r.to # k}
  <2>1. IsFiniteSet(usable)
    <3>1. usable \subseteq map.peers[k].routes
      OBVIOUS
    <3> QED  BY <1>1, <3>1, FS_Subset
  <2>2. IsFiniteSet({[kind |-> "Direct", to |-> None, priority |-> 0]})
    BY FS_Singleton
  <2> QED  BY <2>1, <2>2 DEF UsableRoutes
<1>4. IsFiniteSet(P)
  <2>1. IsFiniteSet(Best)
    <3>1. Best \subseteq U
      OBVIOUS
    <3> QED  BY <1>3, <3>1, FS_Subset
  <2> DEFINE f == [r \in Best |-> [route |-> [kind |-> r.kind, to |-> r.to], priority |-> r.priority]]
  <2>2. P = {f[r] : r \in Best}
    BY DEF DedupedPolicies
  <2>3. f \in [Best -> P] /\ \A x \in P : \E r \in Best : f[r] = x
    BY <2>2
  <2> HIDE DEF f, Best, P
  <2>4. f \in Surjection(Best, P)
    BY <2>3 DEF Surjection
  <2> QED  BY <2>1, <2>4, FS_Surjection
<1>5. Cardinality(P) \in Nat
  BY <1>4, FS_CardinalityType
<1>6. \A x \in P : x \in Policy /\ (x.route.kind = "Relay" => x.route.to \in DOMAIN map.peers)
  <2> SUFFICES ASSUME NEW x \in P
               PROVE  x \in Policy /\ (x.route.kind = "Relay" => x.route.to \in DOMAIN map.peers)
    OBVIOUS
  <2>1. PICK r \in U : x = [route |-> [kind |-> r.kind, to |-> r.to], priority |-> r.priority]
    BY DEF DedupedPolicies
  <2>2. [kind |-> r.kind, to |-> r.to] \in RouteOf /\ r.priority \in Nat
    BY <1>2, <2>1 DEF RouteOf
  <2> QED  BY <1>2, <2>1, <2>2 DEF Policy
<1>7. PICK l \in SortedLists(P) : \E a \in InitialPolicies(l) :
        d = [ip |-> map.peers[k].ip, keepalive |-> map.peers[k].is_directory,
             policies |-> l, active |-> a]
  BY DEF DesiredPeer, route_policies_for_peer
<1>8. PICK a \in InitialPolicies(l) :
        d = [ip |-> map.peers[k].ip, keepalive |-> map.peers[k].is_directory,
             policies |-> l, active |-> a]
  BY <1>7
<1>9. l \in [1..Cardinality(P) -> P] /\ \A i, j \in DOMAIN l : i < j => l[i].priority <= l[j].priority
  BY <1>7 DEF SortedLists
<1>10. l \in Seq(Policy)
  BY <1>5, <1>6, <1>9
<1>11. a \in DOMAIN l /\ a \in Nat \ {0}
  BY <1>5, <1>8, <1>9 DEF InitialPolicies
<1>12. WellFormed(d)
  BY <1>1, <1>8, <1>10, <1>11 DEF WellFormed, Desired
<1> QED  BY <1>6, <1>8, <1>9, <1>12

(* A selection carried forward is still on its route, or on a best one. *)
LEMMA CarryForwardIs ==
  ASSUME NEW d, WellFormed(d), NEW h,
         \A i, j \in DOMAIN d.policies : i < j => d.policies[i].priority <= d.policies[j].priority
  PROVE  LET c == CarryForward(d, h)
             old == h.routes[h.active]
         IN  /\ WellFormed(c) /\ c.policies = d.policies
             /\ IF \E i \in DOMAIN c.policies : c.policies[i].route = old
                THEN c.policies[c.active].route = old
                ELSE c.active \in InitialPolicies(c.policies)
<1> DEFINE ps == d.policies
           old == h.routes[h.active]
           same == {i \in DOMAIN ps : ps[i].route = old}
           a == IF same = {} THEN 1 ELSE CHOOSE i \in same : TRUE
<1>1. d \in Desired /\ ps \in Seq(Policy) /\ d.active \in DOMAIN ps
  BY DEF WellFormed, Desired
<1>2. DOMAIN ps = 1..Len(ps) /\ Len(ps) \in Nat /\ \A i \in DOMAIN ps : ps[i].priority \in Nat
  <2>1. DOMAIN ps = 1..Len(ps) /\ Len(ps) \in Nat /\ \A i \in DOMAIN ps : ps[i] \in Policy
    BY <1>1
  <2> QED  BY <2>1 DEF Policy
<1>3. 1 \in DOMAIN ps
  BY <1>1, <1>2
<1>4. same # {} => a \in same
  OBVIOUS
<1>5. a \in DOMAIN ps /\ a \in Nat \ {0}
  BY <1>2, <1>3, <1>4
<1>6. CarryForward(d, h) = [d EXCEPT !.active = a]
  BY DEF CarryForward
<1> HIDE DEF a
<1>7. CarryForward(d, h) \in Desired /\ CarryForward(d, h).policies = ps /\ CarryForward(d, h).active = a
  BY <1>1, <1>5, <1>6 DEF Desired
<1>8. WellFormed(CarryForward(d, h))
  BY <1>5, <1>7 DEF WellFormed
<1>9. CASE same = {}
  <2>1. a = 1
    BY <1>9 DEF a
  <2>2. \A j \in DOMAIN ps : ps[1].priority <= ps[j].priority
    BY <1>2, <1>3
  <2>3. a \in InitialPolicies(ps)
    BY <1>3, <2>1, <2>2 DEF InitialPolicies
  <2> QED  BY <1>7, <1>8, <1>9, <2>3
<1>10. CASE same # {}
  BY <1>4, <1>7, <1>8, <1>10
<1> QED  BY <1>9, <1>10

(* What reconcile_network_map has computed when it lists the peers. *)
LEMMA MapStartIs ==
  ASSUME ReconcilerInv, NEW map \in Maps, MapStart(map)
  PROVE  /\ pending'.map = map /\ DOMAIN pending'.desired = DOMAIN map.peers
         /\ \A k \in DOMAIN map.peers : WellFormed(pending'.desired[k])
         /\ RelaysKnown(pending'.desired)
         /\ DOMAIN health' = DOMAIN health
         /\ \A k \in DOMAIN health :
              IF k \in DOMAIN map.peers THEN health'[k] = Track(pending'.desired[k])
              ELSE health'[k] = health[k]
         /\ \A k \in DOMAIN health \cap DOMAIN map.peers :
              LET old == health[k].routes[health[k].active]
                  new == pending'.desired[k]
              IN  IF \E i \in DOMAIN new.policies : new.policies[i].route = old
                  THEN new.policies[new.active].route = old
                  ELSE new.active \in InitialPolicies(new.policies)
<1>1. PICK d \in desired_peers_from_map(map) :
        LET nd == [k \in DOMAIN d |-> IF k \in DOMAIN health
                                       THEN CarryForward(d[k], health[k]) ELSE d[k]]
        IN  /\ pending' = [map |-> map, desired |-> nd]
            /\ health' = [k \in DOMAIN health |->
                            IF k \in DOMAIN nd THEN Track(nd[k]) ELSE health[k]]
  BY DEF MapStart
<1> DEFINE nd == [k \in DOMAIN d |-> IF k \in DOMAIN health
                                      THEN CarryForward(d[k], health[k]) ELSE d[k]]
<1>2. DOMAIN d = DOMAIN map.peers /\ \A k \in DOMAIN map.peers : d[k] \in DesiredPeer(map, k)
  BY <1>1 DEF desired_peers_from_map
<1>3. /\ pending'.map = map /\ pending'.desired = nd /\ DOMAIN nd = DOMAIN map.peers
      /\ DOMAIN health' = DOMAIN health
      /\ \A k \in DOMAIN health :
           IF k \in DOMAIN map.peers THEN health'[k] = Track(nd[k]) ELSE health'[k] = health[k]
  BY <1>1, <1>2
<1>4. ASSUME NEW k \in DOMAIN map.peers
      PROVE  /\ WellFormed(nd[k])
             /\ nd[k].policies = d[k].policies
             /\ k \in DOMAIN health =>
                  LET old == health[k].routes[health[k].active]
                  IN  IF \E i \in DOMAIN nd[k].policies : nd[k].policies[i].route = old
                      THEN nd[k].policies[nd[k].active].route = old
                      ELSE nd[k].active \in InitialPolicies(nd[k].policies)
  <2>1. /\ WellFormed(d[k])
        /\ \A i, j \in DOMAIN d[k].policies : i < j => d[k].policies[i].priority <= d[k].policies[j].priority
    BY <1>2, DesiredPeerIs
  <2>2. CASE k \in DOMAIN health
    <3>1. nd[k] = CarryForward(d[k], health[k])
      BY <1>2, <2>2
    <3> HIDE DEF nd
    <3>2. LET e == CarryForward(d[k], health[k])
              old == health[k].routes[health[k].active]
          IN  /\ WellFormed(e) /\ e.policies = d[k].policies
              /\ IF \E i \in DOMAIN e.policies : e.policies[i].route = old
                 THEN e.policies[e.active].route = old
                 ELSE e.active \in InitialPolicies(e.policies)
      BY <2>1, CarryForwardIs
    <3> QED  BY ONLY <3>1, <3>2
  <2>3. CASE k \notin DOMAIN health
    <3>1. nd[k] = d[k]
      BY <1>2, <2>3
    <3> QED  BY <2>1, <2>3, <3>1
  <2> QED  BY <2>2, <2>3
<1> HIDE DEF nd
<1>5. \A k \in DOMAIN map.peers : \A i \in DOMAIN nd[k].policies :
        nd[k].policies[i].route.kind = "Relay" => nd[k].policies[i].route.to \in DOMAIN map.peers
  BY <1>2, <1>4, DesiredPeerIs
<1>6. RelaysKnown(nd)
  BY <1>3, <1>5 DEF RelaysKnown
<1> QED  BY <1>3, <1>4, <1>6
-----------------------------------------------------------------------------
LEMMA InitInv == Init => ReconcilerInv
<1> SUFFICES ASSUME Init PROVE ReconcilerInv
  OBVIOUS
<1>1. DOMAIN <<>> = {}
  OBVIOUS
<1>2. TypeOK
  BY <1>1, ReconcilerAssumption DEF Init, TypeOK, NoMap
<1>3. FingerprintsAreTrue
  BY <1>1 DEF Init, FingerprintsAreTrue
<1>4. PassInv
  BY <1>1 DEF Init, PassInv, RelaysKnown, Installed, NoMap
<1> QED  BY <1>2, <1>3, <1>4 DEF ReconcilerInv

LEMMA MapStartInv ==
  ASSUME ReconcilerInv, NEW map \in Maps, MapStart(map)
  PROVE  ReconcilerInv'
<1>1. /\ pending'.map = map /\ DOMAIN pending'.desired = DOMAIN map.peers
      /\ \A k \in DOMAIN map.peers : WellFormed(pending'.desired[k])
      /\ RelaysKnown(pending'.desired)
      /\ DOMAIN health' = DOMAIN health
      /\ \A k \in DOMAIN health :
           IF k \in DOMAIN map.peers THEN health'[k] = Track(pending'.desired[k])
           ELSE health'[k] = health[k]
  BY MapStartIs
<1>2. pc' = "listing" /\ UNCHANGED <<device, desired, prints, lastApplied, directories, todo, aborted>>
  BY DEF MapStart
<1>3. DOMAIN map.peers \subseteq Peer
  BY ReconcilerAssumption
<1>4. \A k \in DOMAIN health' : health'[k] \in Tracked /\ health'[k].active \in DOMAIN health'[k].routes
  BY <1>1, TrackType DEF ReconcilerInv, TypeOK
<1>5. TypeOK'
  BY <1>1, <1>2, <1>3, <1>4 DEF ReconcilerInv, TypeOK
<1>6. FingerprintsAreTrue'
  BY <1>1, <1>2 DEF ReconcilerInv, FingerprintsAreTrue, SameConfig
<1>7. PassInv'
  BY <1>1, <1>2, <1>3 DEF ReconcilerInv, PassInv, RelaysKnown
<1> QED  BY <1>5, <1>6, <1>7 DEF ReconcilerInv

LEMMA MapRemoveInv ==
  ASSUME ReconcilerInv, NEW k \in Peer, MapRemove(k)
  PROVE  ReconcilerInv'
<1>1. /\ pc = "removing" /\ pc' = "removing" /\ todo' \subseteq todo
      /\ UNCHANGED <<desired, lastApplied, directories, pending, aborted>>
  BY DEF MapRemove
<1>2. /\ DOMAIN device' = DOMAIN device \ {k} /\ \A x \in DOMAIN device' : device'[x] = device[x]
      /\ DOMAIN health' = DOMAIN health \ {k} /\ \A x \in DOMAIN health' : health'[x] = health[x]
      /\ DOMAIN prints' = DOMAIN prints \ {k} /\ \A x \in DOMAIN prints' : prints'[x] = prints[x]
  BY WithoutIs DEF MapRemove
<1>3. IsFiniteSet(DOMAIN device')
  BY <1>2, FS_Subset DEF ReconcilerInv, TypeOK
<1>4. TypeOK'
  BY <1>1, <1>2, <1>3 DEF ReconcilerInv, TypeOK
<1>5. FingerprintsAreTrue'
  BY <1>2 DEF ReconcilerInv, FingerprintsAreTrue, SameConfig
<1>6. PassInv'
  BY <1>1 DEF ReconcilerInv, PassInv, RelaysKnown
<1> QED  BY <1>4, <1>5, <1>6 DEF ReconcilerInv

LEMMA MapApplyInv ==
  ASSUME ReconcilerInv, NEW k \in Peer, MapApply(k)
  PROVE  ReconcilerInv'
<1> DEFINE d == pending.desired[k]
           c == config(d)
<1>1. /\ pc = "applying" /\ pc' = "applying" /\ k \in todo /\ todo' = todo \ {k}
      /\ UNCHANGED <<desired, lastApplied, directories, pending, aborted>>
      /\ health' = With(health, k, Track(d))
      /\ \/ device' = With(device, k, c) /\ prints' = With(prints, k, c)
         \/ AlreadyApplied(k, c) /\ UNCHANGED <<device, prints>>
  BY DEF MapApply
<1>2. k \in DOMAIN pending.desired /\ WellFormed(d)
  BY <1>1 DEF ReconcilerInv, PassInv, TypeOK
<1>3. c \in PeerConfig /\ Track(d) \in Tracked /\ Track(d).active \in DOMAIN Track(d).routes
  BY <1>2, ConfigType, TrackType
<1>4. DOMAIN health' = DOMAIN health \cup {k} /\ health'[k] = Track(d)
      /\ \A x \in DOMAIN health : x # k => health'[x] = health[x]
  BY <1>1 DEF With
<1>5. /\ DOMAIN device' = DOMAIN device \cup {k} /\ DOMAIN prints' = DOMAIN prints \cup {k}
      /\ prints'[k] = c
      /\ \/ device'[k] = c
         \/ device'[k] = device[k] /\ prints'[k] = prints[k] /\ k \in DOMAIN prints /\ k \in DOMAIN device
      /\ \A x \in DOMAIN device : x # k => device'[x] = device[x]
      /\ \A x \in DOMAIN prints : x # k => prints'[x] = prints[x]
  <2>1. CASE device' = With(device, k, c) /\ prints' = With(prints, k, c)
    BY <2>1 DEF With
  <2>2. CASE AlreadyApplied(k, c) /\ UNCHANGED <<device, prints>>
    BY <2>2 DEF AlreadyApplied
  <2> QED  BY <1>1, <2>1, <2>2
<1> HIDE DEF c
<1>6. TypeOK'
  <2>1. IsFiniteSet(DOMAIN device')
    BY <1>5, FS_AddElement DEF ReconcilerInv, TypeOK
  <2>2. \A x \in DOMAIN device' : device'[x] \in PeerConfig
    BY <1>3, <1>5 DEF ReconcilerInv, TypeOK
  <2>3. \A x \in DOMAIN prints' : prints'[x] \in PeerConfig
    BY <1>3, <1>5 DEF ReconcilerInv, TypeOK
  <2>4. \A x \in DOMAIN health' : health'[x] \in Tracked /\ health'[x].active \in DOMAIN health'[x].routes
    BY <1>3, <1>4 DEF ReconcilerInv, TypeOK
  <2> QED  BY <1>1, <1>4, <1>5, <2>1, <2>2, <2>3, <2>4 DEF ReconcilerInv, TypeOK
<1>7. FingerprintsAreTrue'
  <2>1. SameConfig(prints'[k], device'[k])
    BY <1>5 DEF ReconcilerInv, FingerprintsAreTrue, SameConfig
  <2> QED  BY <1>4, <1>5, <2>1 DEF ReconcilerInv, FingerprintsAreTrue, SameConfig
<1>8. PassInv'
  <2>1. Installed(DOMAIN pending.desired \ todo, pending.desired)
    BY <1>1 DEF ReconcilerInv, PassInv
  <2>2. Installed(DOMAIN pending.desired \ todo, pending.desired)'
    BY <1>1, <1>4, <1>5, <2>1 DEF Installed, c
  <2> QED  BY <1>1, <2>2 DEF ReconcilerInv, PassInv, RelaysKnown
<1> QED  BY <1>6, <1>7, <1>8 DEF ReconcilerInv

LEMMA MapAbortInv ==
  ASSUME ReconcilerInv, MapAbort
  PROVE  ReconcilerInv'
<1>1. /\ pc' = "idle" /\ todo' = {} /\ pending' = NoMap /\ aborted' = TRUE
      /\ UNCHANGED <<device, desired, health, prints, lastApplied, directories>>
  BY DEF MapAbort, Idle
<1>2. DOMAIN pending'.desired = {}
  BY <1>1 DEF NoMap
<1>3. TypeOK'
  BY <1>1, <1>2 DEF ReconcilerInv, TypeOK
<1>4. FingerprintsAreTrue'
  BY <1>1 DEF ReconcilerInv, FingerprintsAreTrue, SameConfig
<1>5. PassInv'
  BY <1>1, <1>2 DEF ReconcilerInv, PassInv, RelaysKnown
<1> QED  BY <1>3, <1>4, <1>5 DEF ReconcilerInv

LEMMA MapCommitInv ==
  ASSUME ReconcilerInv, MapCommit
  PROVE  ReconcilerInv'
<1>1. /\ pc = "applying" /\ todo = {} /\ pc' = "idle" /\ todo' = {} /\ pending' = NoMap
      /\ aborted' = FALSE /\ desired' = pending.desired
      /\ directories' = {k \in DOMAIN pending.map.peers : pending.map.peers[k].is_directory}
      /\ lastApplied' = pending.map.updated_at
      /\ UNCHANGED <<device, health, prints>>
  BY DEF MapCommit, Idle
<1>2. DOMAIN pending'.desired = {}
  BY <1>1 DEF NoMap
<1>3. pending.map.updated_at \in Nat /\ DOMAIN pending.map.peers \subseteq Peer
  BY <1>1, ReconcilerAssumption DEF ReconcilerInv, PassInv
<1>4. DOMAIN desired' \subseteq Peer /\ \A k \in DOMAIN desired' : WellFormed(desired'[k])
  BY <1>1 DEF ReconcilerInv, PassInv, TypeOK
<1>5. TypeOK'
  BY <1>1, <1>2, <1>3, <1>4 DEF ReconcilerInv, TypeOK
<1>6. FingerprintsAreTrue'
  BY <1>1 DEF ReconcilerInv, FingerprintsAreTrue, SameConfig
<1>7. Installed(DOMAIN desired, desired)' /\ RelaysKnown(desired)'
  BY <1>1 DEF ReconcilerInv, PassInv, Installed, RelaysKnown
<1>8. PassInv'
  BY <1>1, <1>2, <1>7 DEF PassInv, RelaysKnown
<1> QED  BY <1>5, <1>6, <1>8 DEF ReconcilerInv

(* The health pass between two device commands, when it only keeps books. *)
LEMMA TrackInv ==
  ASSUME ReconcilerInv, pc = "sampling", NEW k \in todo, k \in DOMAIN device,
         health' = With(health, k, Track(desired[k])),
         pc' \in {"idle", "sampling"}, todo' \subseteq todo,
         UNCHANGED <<device, desired, prints, lastApplied, directories, pending, aborted>>
  PROVE  ReconcilerInv'
<1>1. k \in DOMAIN desired /\ WellFormed(desired[k])
  BY DEF ReconcilerInv, PassInv, TypeOK
<1>2. Track(desired[k]) \in Tracked /\ Track(desired[k]).active \in DOMAIN Track(desired[k]).routes
  BY <1>1, TrackType
<1>3. DOMAIN health' = DOMAIN health \cup {k} /\ health'[k] = Track(desired[k])
      /\ \A x \in DOMAIN health : x # k => health'[x] = health[x]
  BY DEF With
<1>4. \A x \in DOMAIN health' : health'[x] \in Tracked /\ health'[x].active \in DOMAIN health'[x].routes
  BY <1>2, <1>3 DEF ReconcilerInv, TypeOK
<1>5. TypeOK'
  BY <1>3, <1>4 DEF ReconcilerInv, TypeOK
<1>6. FingerprintsAreTrue'
  BY <1>3 DEF ReconcilerInv, FingerprintsAreTrue, SameConfig
<1>7. ~aborted => Installed(DOMAIN desired, desired)'
  BY <1>3 DEF ReconcilerInv, PassInv, Installed
<1>8. PassInv'
  BY <1>1, <1>7 DEF ReconcilerInv, PassInv, RelaysKnown
<1> QED  BY <1>5, <1>6, <1>8 DEF ReconcilerInv

LEMMA HealthSwitchInv ==
  ASSUME ReconcilerInv, NEW k \in DOMAIN desired, NEW next \in DOMAIN desired[k].policies,
         HealthSwitch(k, next)
  PROVE  ReconcilerInv'
<1> DEFINE d == [desired[k] EXCEPT !.active = next]
           c == config(d)
<1>1. /\ pc = "sampling" /\ pc' = "sampling" /\ k \in todo /\ todo' = todo \ {k} /\ k \in DOMAIN device
      /\ UNCHANGED <<lastApplied, directories, pending, aborted>>
      /\ desired' = [desired EXCEPT ![k] = d] /\ health' = With(health, k, Track(d))
      /\ device' = [device EXCEPT ![k] = c] /\ prints' = With(prints, k, c)
  BY DEF HealthSwitch
<1>2. WellFormed(d) /\ d.policies = desired[k].policies
  <2>1. desired[k] \in Desired
    BY DEF ReconcilerInv, TypeOK, WellFormed
  <2>2. desired[k].policies \in Seq(Policy)
    BY <2>1 DEF Desired
  <2>3. next \in Nat \ {0}
    BY <2>2
  <2> QED  BY <2>1, <2>3 DEF WellFormed, Desired
<1> HIDE DEF d
<1>3. c \in PeerConfig /\ Track(d) \in Tracked /\ Track(d).active \in DOMAIN Track(d).routes
  BY <1>2, ConfigType, TrackType
<1> HIDE DEF c
<1>4. /\ DOMAIN health' = DOMAIN health \cup {k} /\ health'[k] = Track(d)
      /\ \A x \in DOMAIN health : x # k => health'[x] = health[x]
      /\ DOMAIN prints' = DOMAIN prints \cup {k} /\ prints'[k] = c
      /\ \A x \in DOMAIN prints : x # k => prints'[x] = prints[x]
  BY <1>1 DEF With
<1>5. /\ DOMAIN device' = DOMAIN device /\ device'[k] = c
      /\ \A x \in DOMAIN device : x # k => device'[x] = device[x]
      /\ DOMAIN desired' = DOMAIN desired /\ desired'[k] = d
      /\ \A x \in DOMAIN desired : x # k => desired'[x] = desired[x]
  BY <1>1
<1>6. TypeOK'
  <2>1. \A x \in DOMAIN device' : device'[x] \in PeerConfig
    BY <1>3, <1>5 DEF ReconcilerInv, TypeOK
  <2>2. \A x \in DOMAIN prints' : prints'[x] \in PeerConfig
    BY <1>3, <1>4 DEF ReconcilerInv, TypeOK
  <2>3. \A x \in DOMAIN health' : health'[x] \in Tracked /\ health'[x].active \in DOMAIN health'[x].routes
    BY <1>3, <1>4 DEF ReconcilerInv, TypeOK
  <2>4. \A x \in DOMAIN desired' : WellFormed(desired'[x])
    BY <1>2, <1>5 DEF ReconcilerInv, TypeOK
  <2> QED  BY <1>1, <1>4, <1>5, <2>1, <2>2, <2>3, <2>4 DEF ReconcilerInv, TypeOK
<1>7. FingerprintsAreTrue'
  BY <1>1, <1>4, <1>5 DEF ReconcilerInv, FingerprintsAreTrue, SameConfig
<1>8. RelaysKnown(desired)'
  BY <1>2, <1>5 DEF ReconcilerInv, PassInv, RelaysKnown
<1>9. ~aborted => Installed(DOMAIN desired, desired)'
  <2> SUFFICES ASSUME ~aborted, NEW x \in DOMAIN desired
               PROVE  /\ x \in DOMAIN prints' /\ prints'[x] = config(desired'[x])
                      /\ x \in DOMAIN health' /\ health'[x] = Track(desired'[x])
    BY <1>5 DEF Installed
  <2>1. CASE x = k
    BY <1>4, <1>5, <2>1 DEF c
  <2>2. CASE x # k
    BY <1>1, <1>4, <1>5, <2>2 DEF ReconcilerInv, PassInv, Installed
  <2> QED  BY <2>1, <2>2
<1>10. PassInv'
  BY <1>1, <1>5, <1>8, <1>9 DEF ReconcilerInv, PassInv, RelaysKnown
<1> QED  BY <1>6, <1>7, <1>10 DEF ReconcilerInv

LEMMA RoamInv ==
  ASSUME ReconcilerInv, NEW k \in Peer, NEW endpoint \in Endpoint, Roam(k, endpoint)
  PROVE  ReconcilerInv'
<1>1. /\ k \in DOMAIN device /\ device' = [device EXCEPT ![k].endpoint = endpoint]
      /\ UNCHANGED <<desired, health, prints, lastApplied, directories, pc, pending, todo, aborted>>
  BY DEF Roam
<1>2. device[k] \in PeerConfig
  BY <1>1 DEF ReconcilerInv, TypeOK
<1>3. DOMAIN device' = DOMAIN device /\ \A x \in DOMAIN device : x # k => device'[x] = device[x]
  BY <1>1
<1>4. device'[k] = [device[k] EXCEPT !.endpoint = endpoint]
  BY <1>1
<1>5. device'[k] \in PeerConfig /\ SameConfig(device[k], device'[k])
  BY <1>2, <1>4 DEF PeerConfig, SameConfig
<1>6. TypeOK'
  <2>1. \A x \in DOMAIN device' : device'[x] \in PeerConfig
    BY <1>3, <1>5 DEF ReconcilerInv, TypeOK
  <2> QED  BY <1>1, <1>3, <2>1 DEF ReconcilerInv, TypeOK
<1>7. FingerprintsAreTrue'
  BY <1>1, <1>3, <1>5 DEF ReconcilerInv, FingerprintsAreTrue, SameConfig
<1>8. PassInv'
  BY <1>1 DEF ReconcilerInv, PassInv, RelaysKnown, Installed
<1> QED  BY <1>6, <1>7, <1>8 DEF ReconcilerInv

LEMMA NextInv == ReconcilerInv /\ [Next]_vars => ReconcilerInv'
<1> SUFFICES ASSUME ReconcilerInv, [Next]_vars PROVE ReconcilerInv'
  OBVIOUS
<1>1. ASSUME NEW map \in Maps, MapStart(map) PROVE ReconcilerInv'
  BY <1>1, MapStartInv
<1>2. ASSUME NEW k \in Peer, MapRemove(k) PROVE ReconcilerInv'
  BY <1>2, MapRemoveInv
<1>3. ASSUME NEW k \in Peer, MapApply(k) PROVE ReconcilerInv'
  BY <1>3, MapApplyInv
<1>4. ASSUME NEW k \in Peer, MapRejected(k) \/ MapCommandFails(k) PROVE ReconcilerInv'
  BY <1>4, MapAbortInv DEF MapRejected, MapCommandFails
<1>5. CASE MapListFails
  BY <1>5, MapAbortInv DEF MapListFails
<1>6. CASE MapRemoved
  <2>1. /\ pc' = "applying" /\ todo' = DOMAIN pending.desired /\ pc = "removing"
        /\ UNCHANGED <<device, desired, health, prints, lastApplied, directories, pending, aborted>>
    BY <1>6 DEF MapRemoved
  <2>2. TypeOK'
    BY <2>1 DEF ReconcilerInv, PassInv, TypeOK
  <2>3. FingerprintsAreTrue'
    BY <2>1 DEF ReconcilerInv, FingerprintsAreTrue, SameConfig
  <2>4. PassInv'
    BY <2>1 DEF ReconcilerInv, PassInv, RelaysKnown, Installed
  <2> QED  BY <2>2, <2>3, <2>4 DEF ReconcilerInv
<1>7. CASE MapList
  <2>1. /\ pc' = "removing" /\ todo' = DOMAIN device \ DOMAIN pending.desired /\ pc = "listing"
        /\ UNCHANGED <<device, desired, health, prints, lastApplied, directories, pending, aborted>>
    BY <1>7 DEF MapList
  <2>2. TypeOK'
    BY <2>1 DEF ReconcilerInv, PassInv, TypeOK
  <2>3. FingerprintsAreTrue'
    BY <2>1 DEF ReconcilerInv, FingerprintsAreTrue, SameConfig
  <2>4. PassInv'
    BY <2>1 DEF ReconcilerInv, PassInv, RelaysKnown
  <2> QED  BY <2>2, <2>3, <2>4 DEF ReconcilerInv
<1>8. CASE MapCommit
  BY <1>8, MapCommitInv
<1>9. ASSUME pc \in {"idle", "sampling"}, pc' \in {"idle", "sampling"},
             todo' \subseteq DOMAIN desired,
             UNCHANGED <<device, desired, health, prints, lastApplied, directories, pending, aborted>>
      PROVE  ReconcilerInv'
  <2>1. TypeOK'
    BY <1>9 DEF ReconcilerInv, TypeOK
  <2>2. FingerprintsAreTrue'
    BY <1>9 DEF ReconcilerInv, FingerprintsAreTrue, SameConfig
  <2>3. PassInv'
    BY <1>9 DEF ReconcilerInv, PassInv, RelaysKnown, Installed
  <2> QED  BY <2>1, <2>2, <2>3 DEF ReconcilerInv
<1>10. CASE HealthStart
  BY <1>9, <1>10 DEF HealthStart
<1>11. ASSUME NEW k \in Peer, HealthStay(k) PROVE ReconcilerInv'
  BY <1>11, TrackInv DEF HealthStay
<1>12. ASSUME NEW k \in Peer, HealthSwitchFails(k) PROVE ReconcilerInv'
  BY <1>12, TrackInv DEF HealthSwitchFails, RollBack, Idle
<1>13. ASSUME NEW k \in Peer, HealthGetFails(k) PROVE ReconcilerInv'
  BY <1>9, <1>13 DEF HealthGetFails, Idle
<1>14. ASSUME NEW k \in DOMAIN desired, NEW next \in DOMAIN desired[k].policies, HealthSwitch(k, next)
       PROVE  ReconcilerInv'
  BY <1>14, HealthSwitchInv
<1>15. CASE HealthEnd
  BY <1>9, <1>15 DEF HealthEnd, Idle
<1>16. ASSUME NEW k \in Peer, NEW endpoint \in Endpoint, Roam(k, endpoint) PROVE ReconcilerInv'
  BY <1>16, RoamInv
<1>17. CASE UNCHANGED vars
  <2>1. TypeOK'
    BY <1>17 DEF vars, ReconcilerInv, TypeOK
  <2>2. FingerprintsAreTrue'
    BY <1>17 DEF vars, ReconcilerInv, FingerprintsAreTrue, SameConfig
  <2>3. PassInv'
    BY <1>17 DEF vars, ReconcilerInv, PassInv, RelaysKnown, Installed
  <2> QED  BY <2>1, <2>2, <2>3 DEF ReconcilerInv
<1> QED
  BY <1>1, <1>2, <1>3, <1>4, <1>5, <1>6, <1>7, <1>8, <1>10, <1>11, <1>12, <1>13, <1>14, <1>15,
     <1>16, <1>17 DEF Next, MapPass, HealthPass

LEMMA ReconcilerInvariant == Spec => []ReconcilerInv
  BY InitInv, NextInv, PTL DEF Spec
-----------------------------------------------------------------------------
(* The reconciler's tables and the device's hold what they are declared to  *)
(* hold, and a selection always points into its list.                       *)
THEOREM TypeCorrect == Spec => []TypeOK
<1>1. ReconcilerInv => TypeOK
  BY DEF ReconcilerInv
<1> QED  BY <1>1, ReconcilerInvariant, PTL

(* A fingerprint is the configuration the device runs, up to a roamed       *)
(* endpoint, after any number of passes that failed half way                *)
(* (apply_desired_peers, remove_vanished_peers, reconcile_peer_health_at).  *)
THEOREM FingerprintsTrue == Spec => []FingerprintsAreTrue
<1>1. ReconcilerInv => FingerprintsAreTrue
  BY DEF ReconcilerInv
<1> QED  BY <1>1, ReconcilerInvariant, PTL

(* Between two handlers the device, the desired set and the health of every *)
(* peer agree, unless the last map pass failed.                             *)
THEOREM ViewsAlwaysAgree == Spec => []ViewsAgree
<1>1. ReconcilerInv => ViewsAgree
  <2> SUFFICES ASSUME ReconcilerInv, pc = "idle", ~aborted, NEW k \in DOMAIN desired
               PROVE  /\ k \in DOMAIN device /\ SameConfig(device[k], config(desired[k]))
                      /\ k \in DOMAIN prints /\ prints[k] = config(desired[k])
                      /\ k \in DOMAIN health /\ health[k] = Track(desired[k])
    BY DEF ViewsAgree
  <2>1. /\ k \in DOMAIN prints /\ prints[k] = config(desired[k])
        /\ k \in DOMAIN health /\ health[k] = Track(desired[k])
    BY DEF ReconcilerInv, PassInv, Installed
  <2>2. k \in DOMAIN device /\ SameConfig(prints[k], device[k])
    BY <2>1 DEF ReconcilerInv, FingerprintsAreTrue
  <2> QED  BY <2>1, <2>2 DEF SameConfig
<1> QED  BY <1>1, ReconcilerInvariant, PTL

(* A peer reached through a relay has its relay on the device, whichever    *)
(* routes the maps name (route_policies_for_peer drops the unknown ones).   *)
THEOREM RelaysInstalled == Spec => []RelayIsInstalled
<1>1. ReconcilerInv => RelayIsInstalled
  <2> SUFFICES ASSUME ReconcilerInv, pc = "idle", ~aborted, NEW k \in DOMAIN desired,
                      device[k].relay # None
               PROVE  device[k].relay \in DOMAIN device
    BY DEF RelayIsInstalled
  <2>1. \A j \in DOMAIN desired : j \in DOMAIN device /\ SameConfig(prints[j], device[j])
                                  /\ prints[j] = config(desired[j])
    BY DEF ReconcilerInv, PassInv, Installed, FingerprintsAreTrue
  <2> DEFINE route == desired[k].policies[desired[k].active].route
  <2>2. device[k].relay = IF route.kind = "Relay" THEN route.to ELSE None
    <3>1. config(desired[k]).relay = IF route.kind = "Relay" THEN route.to ELSE None
      BY DEF config
    <3> HIDE DEF route
    <3> QED  BY <2>1, <3>1 DEF SameConfig
  <2>3. desired[k].active \in DOMAIN desired[k].policies
    BY DEF ReconcilerInv, TypeOK, WellFormed
  <2>4. route.kind = "Relay" => route.to \in DOMAIN desired
    BY <2>3 DEF ReconcilerInv, PassInv, RelaysKnown
  <2> QED  BY <2>1, <2>2, <2>4
<1> QED  BY <1>1, ReconcilerInvariant, PTL

(* A map update keeps every peer on its route while the map has it, and     *)
(* moves it to a best one otherwise (carry_forward_active_policies).        *)
THEOREM SelectionsKept == Spec => MapKeepsSelection
<1> DEFINE Keeps ==
      \A map \in Maps : MapStart(map) =>
        \A k \in DOMAIN health \cap DOMAIN pending'.desired :
          LET old == health[k].routes[health[k].active]
              new == pending'.desired[k]
          IN  IF \E i \in DOMAIN new.policies : new.policies[i].route = old
              THEN new.policies[new.active].route = old
              ELSE new.active \in InitialPolicies(new.policies)
<1>1. ReconcilerInv => [Keeps]_vars
  BY MapStartIs
<1> QED  BY <1>1, ReconcilerInvariant, PTL DEF MapKeepsSelection
=============================================================================
