---------------------------- MODULE MCReconciler ----------------------------
(* Network maps for Reconciler: dir is the directory and relay, installed   *)
(* before the reconciler starts; p and q come, change and go.               *)
EXTENDS Reconciler

CONSTANTS dir, p, q, ad, a1, a2, a3, a4, e1, e2

MCPeer == {dir, p, q}
MCAddress == {ad, a1, a2, a3, a4}
MCEndpoint == {e1, e2}

Direct(to, priority) == [kind |-> "Direct", to |-> to, priority |-> priority]
Relay(to, priority) == [kind |-> "Relay", to |-> to, priority |-> priority]
Host(ip, routes) == [ip |-> ip, is_directory |-> FALSE, routes |-> routes]
Directory(ip) == [ip |-> ip, is_directory |-> TRUE, routes |-> {Direct(e2, 1)}]

MapPQ(at, ip, fp, fq) ==
  [updated_at |-> at,
   peers |-> [k \in MCPeer |-> CASE k = dir -> Directory(ip) [] k = p -> fp [] k = q -> fq]]
MapQ(at, ip, fq) ==
  [updated_at |-> at, peers |-> [k \in {dir, q} |-> IF k = dir THEN Directory(ip) ELSE fq]]

MCPreinstalled ==
  [k \in {dir} |-> [endpoint |-> e2, relay |-> None, ip |-> ad, keepalive |-> TRUE]]

(* Routes are reordered, duplicated, dropped; the address of p moves to q;  *)
(* then p vanishes and leaves its address to dir, whose own goes to q: the   *)
(* last map is refused as long as q is visited before dir.                   *)
EvolvingMaps ==
  { MapPQ(1, ad, Host(a1, {Direct(e1, 1), Relay(dir, 2), Relay(dir, 3)}),
                 Host(a2, {Relay(p, 1), Direct(e1, 1)})),
    MapPQ(2, a4, Host(a3, {Relay(dir, 1), Direct(e1, 2), Relay(p, 1)}),
                 Host(a1, {Relay(dir, 1), Direct(e2, 2)})),
    MapQ(3, a3, Host(a4, {Relay(p, 1), Direct(e2, 1), Relay(dir, 2)})) }

(* p and q exchange their tunnel addresses. *)
SwappingMaps ==
  { MapPQ(1, ad, Host(a1, {Direct(e1, 1)}), Host(a2, {Direct(e2, 1)})),
    MapPQ(2, ad, Host(a2, {Direct(e1, 1)}), Host(a1, {Direct(e2, 1)})) }
=============================================================================
