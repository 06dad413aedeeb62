# tendrilix in TLA+

tendrilix is a WireGuard-compatible VPN device in Rust that can reach a peer
directly or through relays, and a control loop that keeps the device in step with
the network maps of a directory. These modules model its core, the `.cfg` files
check them with TLC on small instances, and eight proof modules prove theorems with
TLAPS for every value of the constants. Paths below are relative to
`src/tendrilix/src/`.

## The system

| Part | State | Operations | Interacts with |
|---|---|---|---|
| Peer health, `control/peer_health.rs` | per peer: a history per route (suspicion, label, times), active index, counters, switch and probe clocks | `observe`, `sync_policies`, `track_active_policy`, scoring, decay, failover, recovery probes | called by the reconciler once per health interval, and on every map |
| Reconciler, `control/reconciler.rs` | desired peers, health, fingerprints of what was last written, newest map applied | map pass, health pass, rollback of a refused switch | fetches maps; commands to the device, each an `await` |
| Device, `device.rs` | peer table (by key, by index, by address), pool, one `Tunn` per peer, tick count | select loop over NIC, socket, timer and commands, in this order of preference | everything below; learns endpoints from authenticated packets |
| Command channel, `device.rs` | a mutex, one submission slot, one completion slot | `execute`: lock, discard, submit, wait | reconciler and device; a caller may be dropped wherever it waits |
| Tunnel, `noise/mod.rs`, `timers.rs`, `handshake.rs` | two outgoing handshakes, a ring of sessions, the current index, timers | encapsulate, handle each message type, timer tick | the peer's tunnel, over an unreliable network |
| Session, `noise/session.rs` | nonce counter, replay bitmap | seal, open | tunnel |
| Pending packets, `packet_pool.rs` and the queues of `noise/mod.rs` | a descriptor table shared by all peers, list heads per peer | queue, dequeue, requeue, sweep, clear | device and tunnel |
| Relay, `noise/relay.rs`, `authz.rs`, `device.rs` | relay of each peer; hop limit of an envelope | wrap, authorize, forward, unwrap | other devices |
| Allowed IPs, `allowed_ips.rs` | a path-compressed trie in an arena | insert, remove, clear, find, overlaps | device (routing, source check, overlap check) |
| Rate limiter, `noise/rate_limiter.rs` | load counter and its last reset, secret of the cookies | verify, cookie reply, reset | every handshake message passes it; the loop resets it |
| Index generator, `index.rs` | LFSR, mask | next index | one per new peer |
| Time stamps, `timestamper.rs` | anchor in whole seconds | stamp | initiations; the receiver wants each newer than the last |
| Types, parsing, collections, NIC, desktop client | data and I/O | | |

What is hard here: commands and maps that fail halfway; maps that renumber the
routes while a probe is out; a queue threaded through memory that all peers share;
handshakes of both ends that cross, are repeated, lost or interrupted by a restart;
timers that are compared with each other and cleared together; envelopes forwarded
by devices whose tables change meanwhile; callers cancelled between their command and
its answer; a peer that restarts, moves or loses messages while the device at the other
end is under load. `PROJECT.json` lists these hazards line
by line with the properties that would catch them.

What makes each part correct:

- health: a route is blamed only for silence, left when dead, forgiven in time, and
  its history is its own whatever index it has;
- reconciler: what it believes of the device is true, at every `await`, and the
  newest map is in force in the end, if no peer it keeps holds on to an address that it
  gives to another;
- pending packets: one FIFO per peer, nothing lost but by expiry, refusal, clearing
  or removal, no descriptor or byte unaccounted for;
- session: no nonce twice, no packet delivered twice, none inside the window refused;
- tunnel: the ends agree on their sessions, send on the newest, retire keys in time,
  notice a silent peer and keep no packet waiting without reason;
- relay: delivery along a chain within the limit, no circulation, nothing forwarded
  against an authorizer;
- allowed IPs: longest match and exact overlap, whatever the insertion order;
- commands: every caller is answered while there is a device (with std, also when it is
  gone), and by its own command; the three maps of the
  peer table agree after any command, refused ones too;
- rate limiter and stamps: a peer gets in past a loaded limiter in as many tries as its
  bad luck explains, its retries (not its first try) are accepted after a restart, and
  load is forgotten;
- indexes: none is zero and none is handed out twice.

## Modules

| Module | Models | State and actions |
|---|---|---|
| `PeerHealth` | `PolicyHealth` and `PeerHealth`, as operators from a health record to the next | one operator per method, with its name |
| `HealthMonitor` | one peer under the health pass and the map pass | `Sample`, `SampleRolledBack`, `Skip`, `MapUpdate`; `hist` is a history that no action reads |
| `Reconciler` | both passes over the device's peer table, one action per stretch between two commands | `MapStart`, `MapList`, `MapListFails`, `MapRemove`, `MapRemoved`, `MapApply`, `MapRejected`, `MapCommandFails`, `MapCommit`; `HealthStart`, `HealthStay`, `HealthSwitch`, `HealthSwitchFails`, `HealthGetFails`, `HealthEnd`; `Roam` |
| `PacketQueues` | the pool in both builds (a growing table; a fixed table over a byte arena, first fit) and the intrusive lists; `build` is chosen in `Init` | `Encapsulate`, `HandleHandshake`, `TimerTick`, `SessionDown`, `RemovePeer`, `AddPeer` |
| `PendingQueues` | abstract: one FIFO per peer | implemented by `PacketQueues` |
| `ReplayWindow` | nonces and the replay bitmap, with receivers that decrypt between check and mark | `Send`, `QuickCheck`, `QuickCheckRefused`, `Receive`, `ReceiveRefused`, `ReceiveForged` |
| `SlidingWindow` | abstract: a set of delivered counters | implemented by `ReplayWindow` |
| `Tunnel` | two `Tunn`s and the network; a packet is a keepalive, an IP packet or a relay envelope | `Encapsulate`, `HandleHandshakeInit`, `HandleHandshakeResponse`, `HandleData`, `Refuse`, `HandleTimerTick`, `Restart`; the network's `Lose`, and `Advance`, which waits for the tick of both ends (`ticked`) |
| `Relay` | devices that send, forward and learn endpoints | `Send`, `HandleData`, `HandleRelayData`, `DropUnopened`, `UpdatePeer`; its specification is `RelaySpec` |
| `AllowedIPs` | the trie of one address family | `insert` (refused when the arena is full), `remove`, `clear`; `find` and `overlaps` as operators |
| `DeviceCommands` | callers, the command client with the mailboxes of either build (`build`, chosen in `Init`), the loop's command arm and the peer table | `Call`, `Lock`, `submit`, `wait_next`, `Cancel`; `Arrive`, `Serve`, `receive_command`, `handle_peer_update`, `Panic`, `Drop` |
| `IndexGenerator` | the LFSR of `index.rs`, over `BITS` bits | operators, used by `DeviceCommands` |
| `HandshakeDoor` | the rate limiter, cookies and time stamps of one device, and one initiator | `Begin`, `InitiatorTick`, `HandleCookieReply`, `HandleHandshakeResponse`, `RestartInitiator`; `SendCookie`, `HandleHandshakeInit`, `Tick`, `RestartDevice`; the others' `Flood`, the network's `Lose` and `Move`, and `Advance` |
| `MC...` | instances for TLC | |
| `HealthMonitorProofs` | lemmas on the operators of `PeerHealth`; the invariants of `HealthMonitor`, and the theorems | |
| `ReconcilerProofs`, `PacketQueuesProofs`, `ReplayWindowProofs`, `TunnelProofs`, `AllowedIPsProofs`, `HandshakeDoorProofs` | the inductive invariants of these modules, and the theorems | |
| `DeviceProofs` | the same for `DeviceCommands` and `Relay` | |

Abstractions that recur. Cryptography is its outcome: a key is the pair of
ephemerals it came from, and what is sealed opens for who holds the key. Payloads,
addresses and keys are model values. A statistics sample is two questions, whether
anything was sent and whether anything was received. Times are integers in a unit
stated in the MC module, with the order of the code's constants preserved. Iteration
over a hash map is any order. A definition marked `\* mutant` stands for a plausible
bug: substituted for the definition that `PROJECT.json` names, it makes the property
fail.

`Reconciler` lets `observe` decide anything and `HealthMonitor` has the real decision
for one peer; `Tunnel` takes the replay window and the queue memory from `ReplayWindow`
and `PacketQueues`; `Relay` takes sessions from `Tunnel`. `Tunnel` never meets a loaded
limiter and takes from stamps only that they count from where the stamper was made and
may go back after a restart; `HandshakeDoor` has the limiter and the arithmetic of
stamps, and takes from `Tunnel` that an accepted initiation makes a session and that
attempts are given up. `Reconciler` takes a command as a step that succeeds or fails,
and `DeviceCommands` shows that its caller is answered, by its own command.

## Runs

| Run | Question | Bounds, and why they are enough |
|---|---|---|
| `health` | histories follow their routes, labels agree with scores, blame only for silence, failovers spaced, a dead route is left within a bound, failures are forgotten, probes are safe | lists of one to three routes that a map replaces in mid-run, irregular passes (gap 1 or 2), jitter, 13 units: a failover, a second one under back-off, a probe, its abort and a decay all fit |
| `reconciler_maps` | fingerprints, health, desired set and device agree; a selection survives a map; the newest map is applied | three maps in which routes are reordered and duplicated, and addresses move between peers; the newest drops a peer, gives its address to one survivor and that one's to another, so that it is refused or applied depending on who is visited first; two failing commands, two switches and an endpoint change anywhere |
| `reconciler_swap` | violation of `EveryMapIsApplied`: two peers that trade addresses are refused for ever | two maps |
| `packet_queues` | lists, accounting (descriptors, bytes, disjoint stretches of the arena), sweeps, and the refinement to `PendingQueues`, in both builds | two peers, three descriptors, four bytes, packets of one or two: both pool limits and the queue limit bind, the arena has holes that are too small, cells expire at head, middle and tail |
| `packet_leak` | violation: packets of a removed peer stay in the pool | the same |
| `replay_window` | refinement to `SlidingWindow`, fresh nonces, sound loss estimate | two receivers, a window of three two-bit words, nine packets: with eight, a jump that skips the bits below a word boundary is not noticed |
| `tunnel_async` | sessions pair up and the newest is current when messages are delayed, reordered and repeated, with a restart | two messages in flight, copies included, which is what crossing handshakes and a repeated initiation need; four indexes per boot on a ring of two slots, 5 units where a session lives for 3: slots of live sessions are reused and sessions retire. Any number of messages by the theorems |
| `tunnel_sessions` | keys retire, no timer runs ahead, a silent peer is noticed, and a packet waits no longer than the losses and a restart of its own end explain | a prompt network, two losses or a loss and a restart, persistent keepalive, one packet or envelope, a ring of two slots, 6 units: rekeys, give-ups, reuse of ring slots, and an initiation refused for its stamp after a restart. The unit is 5 s, against which the second a stamper may be behind is 0 (`STAMP_LAG`); the theorem has any lag below `REKEY_TIMEOUT` |
| `relay_forwarding` | delivery within the hop limit, no loop survives, no forwarder against its authorizer | two talkers, two relays, every table with loops, one change under way, a hop limit the longest chain just spends |
| `allowed_ips` | shape of the trie, contents, and lookups (longest match, overlap) as a table would answer | three-bit addresses, an arena of five nodes: splits with and without a sibling, refusals for one and for two missing nodes |
| `device_commands` | callers are answered, by their own command (in either build, with its exceptions); the maps of the peer table agree; indexes do not repeat | two callers, four calls, one cancellation: a stale submission, a stale completion and one in the loop's hands all meet a later caller; three keys for two places, three indexes so that a fourth new peer finds none, prefixes that overlap |
| `handshake_door` | a loaded device lets the peer in after as many tries as the losses explain; retries are newer; load is forgotten | four units to the second, two ticks to a reset, a loop one unit late, 26 units: two cookie periods, resets that come early and are skipped, stampers anchored in mid-second; one loss, move or restart; load at one |

Deadlock is not checked where the bounds on clock, calls, messages or packets end a run;
`AllowedIPs` never stops and is checked for it. Peers, ends, payload names, trie
payloads and receivers are declared symmetric in the runs that check only safety.

Fairness. `Reconciler!FairSpec` assumes that a pass once started goes on (weak
fairness of each pass: the handler runs to its end inside the select loop) and that
the newest map is fetched again and again when the reconciler is idle (strong
fairness of `MapStart(Newest)`: the interval timer never stops and competes only with
the health timer). Failing commands are bounded, which is what "in the end" means.
`DeviceCommands!FairSpec` assumes weak fairness of `Lock`, `submit`, `wait_next`, `Serve`
and the handling of a command (the runtime polls every task), and with std strong fairness
of `Lock`: tokio's mutex serves its waiters in order, embassy's need not. That
the loop is idle now and then is no guarantee of the code: `select4` prefers the NIC, the
socket and the ticker, so a device that is never idle never looks at a command. It is
therefore a premise of `CallersAreAnswered` (`LoopGetsIdle`) and not part of the
specification. The property has two exceptions, both without std, where the mailboxes are
`Signal`s that never say that the other side is gone (`device.rs:275` and 297): a caller
waits for ever for a device that was dropped or has panicked, and a caller may wait for
ever for the lock.
`RelaySpec` assumes weak fairness of `HandleUdpPacket`: datagrams arrive or are
dropped, and the device keeps reading its socket. `WaitIsBounded`, `SilenceIsNoticed`,
`DeadRouteIsLeft`, `CookieLetsIn` and `LoadIsForgotten` are bounds rather than liveness
properties and need no fairness, only that the ticker runs before time moves on, which
`Advance` states. In `HandshakeDoor` the loop may be late for a tick by `DELAY`, less than
a period of the ticker; that, too, holds only while NIC and socket leave the loop idle
now and then.

## Where code and comments disagree

Two runs show a violation:

- `packet_leak`: `remove_peer_from_state` (`device.rs:745`) drops a tunnel with its
  list head and does not clear its queue. Sweeps visit installed peers only, so the
  descriptors and bytes are gone until the device restarts, in spite of "Maximum time
  an outbound packet may remain queued" (`noise/timers.rs:53`).
- `reconciler_swap`: peers are updated one at a time (`control/reconciler.rs:588`) and
  the device refuses an address that another peer still holds. A map in which two
  peers trade addresses therefore fails at every attempt, though
  `control/reconciler.rs:97` says that a missed update lands "one interval late"
  (`EveryMapIsApplied`). A trade fails in any order; an address that moves one way between
  two peers that both stay fails whenever its taker is visited before its holder, and so
  for ever where the order is the same every time (an `FnvIndexMap` keeps the order of
  the map it is filled from, and a `HashMap` may).
  `NewestMapIsApplied` excepts exactly these cases (`AddressTaken`): an address that stays
  with a peer the newest map keeps and that it gives to another.

Others were met while modelling and are recorded here without a run:

- a route is blamed for a silence that includes time in which nothing was sent: only
  the last sample needs to have sent (`peer_health.rs:511`, against line 73);
- `sync_policies` keeps the silence clock when a map changes the active route
  (`peer_health.rs:411`, against line 331), and keeps the probe's fallback as an index
  while the list is reordered (line 412, against lines 110 and 341): after such a map
  an aborted probe may land on a third route;
- a probe after a healthy sample ignores the cooldown (`peer_health.rs:492`, against
  line 738);
- a map pass that fails halfway leaves `desired` behind the device
  (`reconciler.rs:490`, against lines 195 and 661); `ViewsAgree` is stated for the
  time until such a failure and after the next success;
- an update of any field writes `config.endpoint`, absent or not, over the learned one
  (`device.rs:726`, against `reconciler.rs:895`);
- retried initiations spend session indexes, so a new session may overwrite a live one
  while another slot is empty (`noise/mod.rs:428`, against line 115);
- queueing a packet does not restart the attempt timer (`noise/timers.rs:247`, against
  line 250);
- a device that reaches a peer directly learns the relay's address from what the peer
  sends through the relay, and sends there (`device.rs:1231`, against line 201);
- the rate limiter is not reset every second (`device.rs:590`): ticks are a quarter of a
  second apart, a loop that was late for one reset comes a moment early to the next, and
  `reset_count` then skips it for a whole round. `LoadIsForgotten` is the bound that
  holds, two seconds and the delay;
- the handshake limit is one per device and not "per peer" (`device.rs:115`);
- after a cancelled call, the next caller may get the answer of the cancelled command,
  so that the branches marked "unreachable" (`device.rs:245` and 254) are reachable;
- a relay envelope ticks its sender's data timer and not its receiver's
  (`noise/mod.rs:525`), so that the receiver sends no keepalive for it, and a sender of
  envelopes only starts a handshake for a silence that `noise/timers.rs:304` means to
  prevent. `SilenceIsNoticed` holds with envelopes as traffic.

## Theorems

For every value of the constants (`Spec => []P`, or `Spec => P` for an action property
or a refinement, unless a condition is given):

| Module | Theorem | Property |
|---|---|---|
| `HealthMonitorProofs` | `TypeCorrect` | `TypeOK`: indexes in range, scores capped, instants known where they are needed |
| | `LabelsAgree` | `LabelAgreesWithScore` |
| | `HistoriesFollow` | `HistoryFollowsRoute` |
| | `BlameIsDeserved` | `BlameNeedsSilence` |
| | `FailoversSpaced` | `FailoversAreSpaced` |
| | `FailuresAreTemporary` | `FailureIsTemporary` |
| | `ProbesSafe` | `ProbesAreSafe` |
| | `DeadRoutesLeft` | `DeadRouteIsLeft`, if `MaxGap < POLICY_FAILURE_DECAY_INTERVAL` |
| `ReconcilerProofs` | `TypeCorrect` | `TypeOK` |
| | `FingerprintsTrue` | `FingerprintsAreTrue` |
| | `ViewsAlwaysAgree` | `ViewsAgree` |
| | `RelaysInstalled` | `RelayIsInstalled` |
| | `SelectionsKept` | `MapKeepsSelection` |
| `PacketQueuesProofs` | `ListsAlwaysProper` | `ListsAreProper` |
| | `PoolAlwaysAccounts` | `PoolAccounts` |
| | `TicksAlwaysSweep` | `TickSweepsQueues` |
| | `ListsImplementFifo` | `ImplementsFifo`: the refinement of `PendingQueues` |
| `ReplayWindowProofs` | `NoncesAreFresh` | `NonceIsFresh` |
| | `LossEstimates` | `LossEstimateIsSound` |
| | `WindowImplemented` | `ImplementsWindow`: the refinement of `SlidingWindow` |
| `TunnelProofs` | `TypeCorrect` | `TypeOK` |
| | `SessionsAlwaysPair` | `SessionsPair` |
| | `CurrentNewest` | `CurrentIsNewest` |
| | `SessionsAlwaysRetire` | `SessionsRetire` |
| | `SilenceNoticed` | `SilenceIsNoticed` |
| | `WaitAlwaysBounded` | `WaitIsBounded`, if `Prompt` and `REJECT_AFTER_MESSAGES > MaxData + 1` |
| `AllowedIPsProofs` | `TrieAlwaysProper` | `TrieIsProper` |
| | `TableAlwaysAgrees` | `TableAgrees` |
| | `LookupsAlwaysAgree` | `LookupsAgree`: longest match and exact overlap |
| `DeviceProofs` | `OwnAnswers` | `AnswersAreOwn` |
| | `IndexesAlwaysUnique` | `IndexesAreUnique`, for a register of full period (`PeriodAssumption`) |
| | `TablesAlwaysAgree` | `TablesAgree` |
| | `AllForwardersAgreed` | `ForwardersAgreed` of `Relay` (`RelaySpec => []ForwardersAgreed`) |
| `HandshakeDoorProofs` | `RetriesAccepted` | `RetryIsAccepted` |
| | `LoadForgotten` | `LoadIsForgotten` |
| | `CookieAlwaysLetsIn` | `CookieLetsIn`, if `2 * FLIGHT < REKEY_TIMEOUT` |

Every assumption is evaluated by TLC on the instances of the runs. The bounds that keep
a run finite (on time, maps, losses, calls) are arbitrary naturals in the proofs.

### Peer health

Assumptions: `IntervalAssumption` (intervals are positive, the back-off shift is at
most 3 as in the code, jitter is natural) and `MonitorAssumption` (a map gives a peer a
non-empty list of distinct routes, which `route_policies_for_peer` ensures).

None of the eight is inductive alone. `MonitorInv` is `TypeOK`, that the
health record fits the current route list (`FitsRoutes`: one well-labelled entry per
route, in order, active index and fallback within it), and `ClocksOrdered`, which ties
the record's clocks to what happened: the inbound clock never predates the last switch,
traffic heard is either folded in or still pending in `received` (which survives a
rolled-back sample), and after a failover the back-off run is not empty. The last is
what rules out the short initial grace for a second failover.

`HistoryFollowsRoute` is about steps: a map leaves the whole entry of a route it keeps
as it was, wherever the route now is in the list, and gives a new route a new entry; a
pass writes the entry of the route it sampled, and does to the others nothing but
`decay`. Entries that are reset, forgotten, swapped or scored for a sample of another
route all violate it. The proof needs from the invariant only that entries and routes
correspond (`FitsRoutes`) and follows an entry through `sync_policies` and through each
stage of `observe`.

The properties of single routes need `RoutesInv` on top. `EntriesInv`: a failed entry
remembers the instant it was last blamed, so decay is counted from there. `ProbeInv`:
unless a map chose the active route, its stay began with the last switch and a success
it shows since then was heard; the fallback of a probe is the route it left. `DeadInv`:
while samples find traffic unanswered the inbound clock stands still, and from the first
sample after the silence window on, each one adds to the suspicion. Two samples then
reach the failure score, provided that no decay falls between them, which is the
condition of `DeadRoutesLeft`: passes come closer together than the decay interval (in
the code 5 s, plus what a map fetch takes, against 600 s).

The first half of `HealthMonitorProofs` shows for each method that it keeps a record well
formed and what it does to the clocks, the entries and the failure streak, and combines
them into what `observe` does as a whole (`ObserveInFull`); the second has one lemma per
action on top, and reads the action properties off the same invariants.

The proofs changed three statements. `Blamed` used to be "the streak grew", which is
false once the streak has saturated at 255; it now compares the entry itself.
`ProbesAreSafe` was false with two maps, where a route that a map puts back lives on a
proof of an earlier stay; it now says so (`hist.byMap`). `DeadRouteIsLeft` was an
invariant, and false right after a map brings a new candidate; it is now about passes,
and its bound is tight.

### Reconciler

`ReconcilerAssumption` describes maps: finitely many routes per peer, relays that are
peer keys, endpoints or none for direct routes, a finite set of peers installed before
the start. `ReconcilerInv` is `TypeOK`, `FingerprintsAreTrue` and `PassInv`, which says
what holds in the middle of a pass: the peers already reached by the map pass are
written, fingerprinted and tracked as the pending map wants them, those of the committed
map are so during a health pass, and every relay that a wanted policy names is itself
wanted (`RelaysKnown`, what `route_policies_for_peer` filters by). A roaming peer
changes only the endpoint, which `SameConfig` leaves out. That the chosen policy exists
and has the best priority uses that finite sets of priorities have minima (`HasMinimum`,
from the library's well-founded orders).

### Pending packets

`PoolAssumption` asks for finitely many peers, at least one descriptor and natural limits
and sizes. `QInv` says that there are lists of descriptors, one per peer, such that
(`Holds`) each is what its queue's head, tail and length describe, no two meet, none meets
a leaked packet, and the live descriptors are exactly those on a list or leaked; and that
the packets on them (`Shows`) are ordered by the time they were queued, none in the
future, with no packet for a peer the device does not have (`Fine`). The order makes the
expired packets a prefix, which is why `drop_expired_queued_packets` may stop at the first
fresh one. That absent peers have no packets makes a tick, which visits the installed
peers only, a sweep of all queues.

The proof goes up in three layers. Operations of the pool, in each build: `alloc`, `free`
and `set_next` change one descriptor and keep the books (`PoolOk`). Operations of one
list: `queue_packet`, `flush_queued_packet`, `drop_expired_queued_packets` and
`free_chain` change the descriptors of that list and no other (`Changes`, `Pops`). All
lists: a change of one leaves the packets of the others alone (`Lift`), and a fold over
the peers does each of them once. A step is then shown to be, on the sequences of
packets, a wait, a removal, a flush, a packet queued or a sweep (`StepsTo`), and each of
these is a step of `PendingQueues` or a stutter.

`find_gap` needs an argument of its own (`GapAdvances`): every iteration settles or leaves
one packet more behind, so `N` iterations are enough, and what it has passed holds no gap
that fits, so that it finds one whenever there is one.

Loops are recursive functions and folds. What they compute is shown by a least
counterexample: a family of sets, one for every number of iterations done, such that an
iteration leads from one into the next; the iterations after which the value is outside
its set are a set of naturals and would have a least member (`HasLeast`, `LoopRuns`,
`FoldRuns`). No theorem with an operator as parameter is needed. For the same reason
`Fresh` of `PendingQueues` is a recursive function where it was a `SelectSeq`.

### Replay window

`WindowAssumption`: words and their number are positive, and the message limit leaves a
window's room below the counter's wrap-around, as `REJECT_AFTER_MESSAGES` does in 64
bits. `WindowInv` says that the bit of every counter in the window tells whether it was
delivered (`BitsAreTrue`). The work is in the words that are cleared as the window
advances: counters a window apart share a bit (`SlotsAreApart`), the words cleared are
those of the counters skipped and of none still in the window (`ClearedIsSkipped`), and
a counter refused as too old is outside the ideal window (`RefusedIsOld`). With these
every step of `ReplayWindow` is a step of `SlidingWindow` or a stutter, racing receivers
between check and mark included.

### Tunnel

`TimerAssumption` states the order of the timer constants that the code's values have
(a rekey falls due before the key is rejected, with room for a keepalive and a retry; an
attempt lasts at least one retry), that a stamper is behind by less than `REKEY_TIMEOUT`
(in the code a second and 2^24 ns against 5 s), and that there are no fewer indexes than
ring slots.
Any losses, copies, reordering, restarts and index wrap-around are allowed.

`TunnelInv` is one predicate per end and one on messages. Per end: no timer is ahead of
the end's clock, which is at most one tick behind (`TimersInv`); a handshake that waits
has an ephemeral of this end and the index it spells (`HandshakesInv`); a session is in
the slot of its index, its key tells the role and both indexes, and its initiation
belongs to no other session in the same role and to no waiting handshake (`SessionInv`);
the current slot holds the newest (`NewestInv`); data sent since anything was heard
leaves `want_handshake` set (`SilenceInv`). Messages carry the index their ephemeral
spells. Each operator of `timers.rs` and `noise/mod.rs` is shown to keep the predicate,
in the order the handlers call them; `SessionsPair` follows because both ends read the
indexes off the same key.

`WaitIsBounded` has two conditions, both true of its run. `Prompt`: every message is
delivered or lost before time moves on; on a slower network a packet waits for the answer
without any loss. `REJECT_AFTER_MESSAGES > MaxData + 1`: a new session
has a nonce for every packet that can wait (those handed over and one keepalive), so that
a flush empties the queue; in the code this is 2^64 - 2^16 - 2 against 8 pending packets.
It is also about ends that are not under load: an initiation answered by a cookie costs a
wait of its own, which `CookieLetsIn` counts.

A stamp is the time since the device's stamper was made, on top of what the wall clock
said then in whole seconds (`NewTunn`, `stamp`). While a device runs its stamps grow.
After a restart they may go back behind one the peer has accepted (`after`), and the
peer refuses the initiation with `WrongTimestamp` though nothing was lost: hence the one
`REKEY_TIMEOUT` that the bound adds at an end that has restarted. That a second refusal
cannot come is `STAMP_LAG < REKEY_TIMEOUT`: the retry is stamped after everything made
before the restart. Within a unit of time `nano` orders the initiations of one device;
this takes them to be more than the whitener's 2^24 ns apart, which retries (5 s) are. A
new initiation less than 17 ms after one that was answered or given up could have its
stamp; that corner is left out.

`WaitInv` says that packets wait only behind a handshake in flight, which is retried
when it is `REKEY_TIMEOUT` old, and that each is `Excused`: either the handshake was
started at this time, at an end that did not restart less than a `REKEY_TIMEOUT` before
(`Firm`), and its initiation or the answer to it is still on its way to an end that will
take it (`Answerable`), or one of the losses, or the restart, pays for the time until
the retry (`Credit`). A packet is older than its handshake by at most one
`REKEY_TIMEOUT` for each of these not yet spent so (`Aged`). That the other end will
take the initiation rests on stamps: what it has accepted and what is under way to it
are stamps this device may have made (`Known`), either since its restart, and then
before the last one, or before it, and then no later than `STAMP_LAG` past the restart
(`Anchored`). A restart of the other end only forgets what it has accepted. `Swept` is a
recursive function over the queue, as in `PendingQueues`, because the prover cannot
unfold `SelectSeq`.

The proof changed the model. `Advance` used to ask only that an end's timers need no
tick, so that in instances larger than the one checked time passed without one and
`SessionsRetire` failed; it now waits for a tick of each end (`ticked`), as the code's
ticker runs. `flush_queued_packets` is a closed form of the loop that was a recursion.

### Allowed IPs

`TrieAssumption` is all that is assumed: addresses have at least one bit, the arena at
least one node, and what is inserted are prefixes. `TrieInv` is that the arena is one
tree (`Tree`) and that its nodes hold what the table of insertions says of their
prefixes (`Agree`). `Tree` is stated without paths: no prefix has two nodes, a child
extends its parent on its branch, and a node whose prefix is a proper prefix of another
node's has a child on the way to that node. The last is what makes a walk from the root
find a node wherever it is, and it is kept by the two ways in which a node is added, at
a leaf (`ShapeLeaf`) and between a node and its child (`ShapeBetween`); the split that
adds two nodes is one after the other (`SplitInTwo`).

`Cursor` and `find` are recursive functions. That such a function exists
(`WalkExists`, `FWalkExists`) and what its values are (`WalkFacts`, `FWalkFacts`) is shown
by assuming a least step at which it fails: the set of these steps is a set of naturals,
and the library's well-founded orders give it a least member (`HasLeast`), so no theorem
with an operator as parameter is needed. `find` keeps the best match among the nodes above
the one reached (`IsBest`), and has passed all of them when it stops.

### Commands

Any number of callers, calls, cancellations, peers and prefixes; `CommandAssumption`
only keeps `None` apart from callers and numbers, the allowed-IP lists within the
prefixes and prefixes non-empty (two peers could hold an empty one). `CommandInv`
numbers the calls by when they got the lock. `Holders`: the caller with the lock is the
latest, and what is in the completion slot is newer than what was completed when it got
the lock. `InOrder`: completed < handled < submitted, all of them older than a call that
has not submitted yet; this is what makes completions arrive in order, cancelled callers
or not. `Undisturbed`: while no call was cancelled, whatever is in a slot or in the
loop's hands is the holder's own. It needs `InOrder` for the return of a call: its own
completion is the latest number there is, so nothing else is left on its way.

`TableInv` restates the three maps as functions of the peers: every index in use is one
that was drawn, the map by index is the inverse of the peers' own, the map by address
names the one owner of each prefix, and prefixes of different owners are apart.
`RebuiltNamesOwners` is the lemma about `rebuilt_peers_by_ip_with`, after the overlap
check has passed. That a new peer's index is not in use yet comes from the generator.

### Indexes

`LfsrAssumption` asks that the highest bit be a tap, and `PeriodAssumption` that no state
of the register come back before all have been visited. TLC evaluates both for the
instance of the run. For the code's polynomial, `0xd80000` over 24 bits, the first is
plain and the second is a matter of stepping the register from 1, which takes 16777215
steps to return. `GenInv` says that after k draws the generator is at the k-th state of
the orbit of its seed and has handed out the indexes of the states before it. What is
proved for every width is the rest of the argument: a step leads to a state that is not
zero (`StepStays`), states of an orbit are distinct (`OrbitDistinct`, from the assumption
for every seed), masking tells words apart (`XorInjective`, bit by bit from the lowest and
then back from the highest), and since `LFSR_MAX` is the one word that the states less
one leave out, its masked form is neither zero in the place of a zero nor any other index
(`IndexFits`, `IndexDistinct`).

`LFSR_MAX`, `Shifted` and `Xor` are recursive functions over the bits, where they were
powers of two and a sum: the prover knows nothing of powers. They are shown to exist and
to be typed as loops are in `PacketQueuesProofs` (`UpTo`, `RecursIn`).

### Time stamps and the limiter's reset

`DoorAssumption` states what the proof needs of the constants: a round of ticks makes a
second, the loop is late by less than a period, the whitener's grain is at most a second
and `REKEY_TIMEOUT` at least a second and a grain. With the code's values (5 s, 1 s,
2^24 ns) all hold. `DoorInv` says that every stamp under way or accepted is what a
stamper made at some earlier time gives for the time it was sent (`StampsAreTimely`), and
that the reset at the end of the current round of ticks is due within two seconds of the
last one (`RoundsAreTimely`). `StampsGrow` is the core: truncation and anchors lose less
than a second and a grain, so stamps `REKEY_TIMEOUT` apart compare as their times.

### Cookies

`CookieInv` accounts for the tries of a peer in front of a loaded limiter. Messages are
known by the initiation they belong to, at most one for each (`MessagesInv`); the device
has accepted nothing newer than the last initiation (`SettledInv`). With one try more
than the turns of bad luck so far, that initiation is being asked for a cookie, a cookie
is on its way, or the peer holds the right one; with two more, an initiation with the
right cookie is under way (`TriesInv`), and a third cannot come before it is accepted.
The argument needs an answer before the next try, hence the condition
`2 * FLIGHT < REKEY_TIMEOUT`: with a slower network the next try leaves before the cookie
arrives. The run has answers within the unit (`FLIGHT = 0`).

### Forwarding

Any devices, relay tables, authorizers and updates, a hop limit from 1 to 255
(`RelayAssumption`). `RelayInv` adds to the property that a path is finite and that what
is inside an envelope is a data packet, so that unwrapping never yields an envelope with
a limit of its own.

## Only model-checked

- the liveness properties (`NewestMapIsApplied`, `CallersAreAnswered`, `LoopsDie`,
  `RoutedIsDelivered`): fairness is outside the prover's reach.

## Not modelled

Left out of a module, with what it would add:

- `HealthMonitor`: a map takes effect in one step. A map pass that fails halfway, and the
  health pass that then puts the old lists back (`reconciler.rs:485` to 497 and 700), are
  in `Reconciler`, whose health records are the lists and the selection only;
- `Reconciler`: a fingerprint is the configuration itself, so collisions of its 32 bits
  are left out; a command that took effect but returned an error is, too. A map fetched from
  a directory needs a directory, which is a condition of the fetcher
  (`desktop-client/src/directory.rs:45`);
- `PacketQueues`: a tick queues its keepalive (`timers.rs:335`) or a wrapped packet
  (`device.rs:1381`) as an `Encapsulate` of its own, which reaches the same pools;
- `Tunnel`: `handle_cookie_reply` (`noise/mod.rs:476`, which ticks the receive timer and
  so disarms the silence rule), cookies as answers under load, and a persistent keepalive
  that an update changes (`device.rs:728`);
- `Relay`: an authorizer decides for a device, as `GenericAuthorizer` does, and not for a
  pair (`device.rs:1137`); what is in an envelope is data, so the check of
  it (`device.rs:1115`) refuses nothing; endpoints are never absent;
- `DeviceCommands`: `Command::None`, when all clients are gone (`device.rs:646`); the
  capacity errors of adding a peer and the way back from them (`device.rs:1502`), which
  are refusals that leave the table as it was;
- `HandshakeDoor`: the time a cookie was received, which is that of the peer's last
  tick, is behind by nothing or by a period of its ticker, in the code by anything up to
  a period and a delay; responses, which pass the limiter of the initiator.

Parts left out:

- racing initialisation of an `IndexGenerator`: its fields are atomics, but one device
  draws from one generator inside its loop, so a call is one step;
- packet counters and the loss statistics shown to users, beyond `LossEstimateIsSound`;
- persistent state: there is none; a restart loses everything, as `Restart` does;
- parsing, serialization, wire layout, bounded collections, NIC and socket I/O, the
  desktop client's configuration and HTTP fetching: data or I/O without state of its
  own. A fetch is the choice of a map in `Reconciler`, a capacity error a failing
  command.

## Plan

Done: all components with state of their own, and a theorem for every safety invariant
and action property of a passing run. What is left to the runs is liveness.
