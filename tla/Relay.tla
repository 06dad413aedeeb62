------------------------------- MODULE Relay -------------------------------
(***************************************************************************)
(* Relayed delivery between devices (device.rs, noise/relay.rs, authz.rs): *)
(* a packet for a peer with a relay is wrapped in an envelope and sealed   *)
(* for the relay, which unwraps it, asks its authorizer and forwards it:   *)
(* to the next relay of its own entry for the destination, or to the       *)
(* destination itself.  A device learns the endpoint of a peer from the    *)
(* source address of what the peer seals.                                  *)
(*                                                                         *)
(* The address of a device is its name, and every pair of devices has a    *)
(* session (module Tunnel), so sealing is naming who can open.  What an    *)
(* envelope carries is opaque; its length and padding are left out.        *)
(***************************************************************************)
EXTENDS Integers, FiniteSets

CONSTANTS
  Node,
  Absent,              \* no relay, no endpoint
  Talkers,             \* the devices that have traffic for each other
  DEFAULT_HOP_LIMIT,   \* 8 in the code
  Routings,            \* the tables of relays that occur: node -> peer -> relay
  Authorizers,         \* the sets of devices whose authorizer allows forwarding
  MaxSend, MaxUpdate   \* bounds of the model

ASSUME RelayAssumption ==
  /\ Absent \notin Node /\ Talkers \subseteq Node
  /\ DEFAULT_HOP_LIMIT \in 1..255
  /\ Routings \subseteq [Node -> [Node -> Node \cup {Absent}]]
  /\ Authorizers \subseteq SUBSET Node
  /\ MaxSend \in Nat /\ MaxUpdate \in Nat

VARIABLES
  relay,       \* Peer.relay: node -> peer -> its relay
  endpoint,    \* Peer.endpoint: node -> peer -> address
  authorized,  \* the devices that forward for others
  net,         \* UDP datagrams in flight
  sent, updates,
  delivered    \* the packets opened by their destination

relayVars == <<relay, endpoint, authorized, net, sent, updates, delivered>>

RelayInit ==
  /\ relay \in Routings
  /\ endpoint = [n \in Node |-> [d \in Node |-> d]]
  /\ authorized \in Authorizers
  /\ net = {} /\ sent = 0 /\ updates = 0 /\ delivered = {}
-----------------------------------------------------------------------------
(* A datagram is [src, dst, packet, path]: path, a history, is the devices   *)
(* that forwarded what it carries.                                          *)
Datagram(n, address, packet, path) ==
  IF address = Absent THEN {}
  ELSE {[src |-> n, dst |-> address, packet |-> packet, path |-> path]}

(* encapsulate_relay for the relay r and the datagram to its endpoint. *)
Encapsulated(n, r, envelope, path) ==
  Datagram(n, endpoint[n][r],
           [type |-> "relay", from |-> n, to |-> r, envelope |-> envelope], path)

build_envelope(d, inner) ==
  [hop_limit |-> DEFAULT_HOP_LIMIT, destination |-> d, inner |-> inner]

prepare_packet_to_peer_via_relay(n, d, r, packet) ==
  Encapsulated(n, r, build_envelope(d, packet), {})

prepare_packet_to_peer(n, d, packet) ==
  IF relay[n][d] # Absent
  THEN prepare_packet_to_peer_via_relay(n, d, relay[n][d], packet)
  ELSE Datagram(n, endpoint[n][d], packet, {})

(* handle_tun_packet with a session for d. *)
Send(n, d) ==
  /\ n # d /\ sent < MaxSend
  /\ sent' = sent + 1
  /\ net' = net \cup prepare_packet_to_peer(n, d, [type |-> "data", from |-> n, to |-> d, id |-> sent])
  /\ UNCHANGED <<relay, endpoint, authorized, updates, delivered>>

(* The session of the datagram's receiver index opens it. *)
Opens(m) == m.packet.to = m.dst

HandleData(m) ==
  /\ m.packet.type = "data" /\ Opens(m)
  /\ endpoint' = [endpoint EXCEPT ![m.dst][m.packet.from] = m.src]
  /\ delivered' = delivered \cup {m.packet.id}
  /\ net' = net \ {m}
  /\ UNCHANGED <<relay, authorized, sent, updates>>

AuthorizeAny(n, from, d) == TRUE   \* mutant: the authorizer is not asked

authorize(n, from, d) == n \in authorized

DecrementAtTwo(envelope) ==   \* mutant: one hop is lost
  IF envelope.hop_limit <= 2 THEN {} ELSE {[envelope EXCEPT !.hop_limit = @ - 1]}

KeepHopLimit(envelope) == {envelope}   \* mutant: the envelope is forwarded as it came

(* The envelope to pass on, or none. *)
decrement_hop_limit(envelope) ==
  IF envelope.hop_limit <= 1 THEN {} ELSE {[envelope EXCEPT !.hop_limit = @ - 1]}

(* What a relay that opened m and may forward it sends: the envelope to the *)
(* next relay, or the inner packet to the destination.                      *)
Forwarded(m) ==
  LET n == m.dst
      envelope == m.packet.envelope
      d == envelope.destination
      path == m.path \cup {n}
  IN  IF relay[n][d] # Absent
      THEN UNION {Encapsulated(n, relay[n][d], e, path) : e \in decrement_hop_limit(envelope)}
      ELSE Datagram(n, endpoint[n][d], envelope.inner, path)

(* A device has no entry for itself: an envelope for it is dropped. *)
HandleRelayData(m) ==
  /\ m.packet.type = "relay" /\ Opens(m)
  /\ LET e == m.packet.envelope
         forwards == /\ e.hop_limit > 0 /\ e.destination # m.dst
                     /\ authorize(m.dst, m.packet.from, e.destination)
     IN  net' = (net \ {m}) \cup IF forwards THEN Forwarded(m) ELSE {}
  /\ UNCHANGED <<relay, endpoint, authorized, sent, updates, delivered>>

(* No peer has the receiver index, or the session cannot open it. *)
DropUnopened(m) ==
  /\ ~Opens(m)
  /\ net' = net \ {m}
  /\ UNCHANGED <<relay, endpoint, authorized, sent, updates, delivered>>

(* update_peer_in_state: the relay and the endpoint of the new configuration. *)
UpdatePeer(n, d) ==
  /\ updates < MaxUpdate /\ n # d
  /\ updates' = updates + 1
  /\ \E r \in Node \cup {Absent} :
       /\ r \notin {n, d, relay[n][d]}
       /\ relay' = [relay EXCEPT ![n][d] = r]
  /\ endpoint' = [endpoint EXCEPT ![n][d] = d]
  /\ UNCHANGED <<authorized, net, sent, delivered>>

HandleUdpPacket == \E m \in net : HandleData(m) \/ HandleRelayData(m) \/ DropUnopened(m)

RelayNext ==
  \/ \E n, d \in Talkers : Send(n, d)
  \/ HandleUdpPacket
  \/ \E n \in Node, d \in Talkers : UpdatePeer(n, d)

(* Datagrams arrive, and a device keeps reading its socket. *)
RelaySpec == RelayInit /\ [][RelayNext]_relayVars /\ WF_relayVars(HandleUdpPacket)
-----------------------------------------------------------------------------
(* Nothing travels through a device whose authorizer refuses, whichever way *)
(* the entries of the devices on the path send it and are changed meanwhile,*)
(* and what travels has a hop to spend and fewer with every forwarder       *)
(* (handle_udp_packet, ForwardingAuthorizer, decrement_hop_limit).          *)
ForwardersAgreed ==
  \A m \in net :
    /\ m.path \subseteq authorized
    /\ m.packet.type = "relay" =>
         m.packet.envelope.hop_limit \in 1..(DEFAULT_HOP_LIMIT - Cardinality(m.path))

(* Relays that point at each other do not keep an envelope alive: what is   *)
(* in flight is gone in the end (hop_limit).                                *)
LoopsDie == <>[](net = {})

(* Whether the entries lead from n to d within the hop limit: the first     *)
(* relay is reached with the whole limit, and every relay after it costs 1. *)
Reaches(n, d) ==
  LET hop[k \in 0..DEFAULT_HOP_LIMIT] ==
        IF k = 0 THEN n ELSE IF hop[k - 1] = d THEN d
        ELSE IF relay[hop[k - 1]][d] = Absent THEN d ELSE relay[hop[k - 1]][d]
  IN  \/ hop[DEFAULT_HOP_LIMIT] = d
      \/ relay[hop[DEFAULT_HOP_LIMIT]][d] = Absent

(* Talkers that use relays for each other, or neither does, along entries   *)
(* that lead there through devices that agree.                              *)
Routed ==
  /\ \A n, d \in Talkers : n # d => /\ Reaches(n, d)
                                    /\ relay[n][d] = Absent <=> relay[d][n] = Absent
  /\ \A n \in Node \ Talkers : n \in authorized

(* A packet sent along a chain of relays within the hop limit is opened by  *)
(* its destination, unless the entries are changed, though every delivery   *)
(* rewrites an endpoint the next ones may use (prepare_packet_to_peer,      *)
(* Forwarded, set_endpoint).                                                *)
RoutedIsDelivered ==
  \A id \in 0..MaxSend - 1 :
    (sent = id + 1 /\ Routed /\ updates = 0) ~> (id \in delivered \/ updates > 0)
=============================================================================
