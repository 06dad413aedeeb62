--------------------------- MODULE DeviceCommands ---------------------------
(***************************************************************************)
(* device.rs: the command path from `CommandClient` to the peer table.     *)
(* Callers share one client; `execute` locks it, discards a completion     *)
(* that is still there, submits its command and waits for the next         *)
(* completion.  Submission and completion are mailboxes of one value that  *)
(* a later one overwrites: a watch channel with std, a Signal without.     *)
(* Only the watch channel knows that the other side is gone.               *)
(* The event loop reads the submission when no packet and no tick is       *)
(* ready, runs it on the peer table and posts the completion.              *)
(*                                                                         *)
(* A caller's future may be dropped wherever it is suspended: waiting for  *)
(* the lock, or for the completion.  The device may be dropped, or panic.  *)
(***************************************************************************)
EXTENDS Integers, FiniteSets, Functions, IndexGenerator, TLC

CONSTANTS
  Caller, Key,
  Net,          \* IP prefixes, each the set of its addresses
  MAX_PEERS,    \* unbounded in the builds with an allocator
  None,         \* an empty mailbox, a free lock
  IpSets,       \* allowed-IP lists that occur, as sets of prefixes
  MaxCalls, MaxCancel   \* bounds of the model

ASSUME CommandAssumption ==
  /\ MAX_PEERS \in Nat \ {0} /\ None \notin Caller /\ None \notin Nat
  /\ {} \notin Net /\ \A ips \in IpSets : ips \subseteq Net
  /\ MaxCalls \in Nat /\ MaxCancel \in Nat

VARIABLES
  build,       \* "std" or "no_std", chosen once
  caller,      \* what each caller is doing
  lock,        \* who holds the client's mutex
  submission,  \* the command mailbox
  completion,  \* the completion mailbox
  handling,    \* the command the loop has taken and not completed
  traffic,     \* a packet or a tick is ready
  alive,       \* the device exists
  table,       \* PeerState: [peers, by_idx, by_ip]
  gen,         \* the device's IndexGenerator
  calls,       \* calls that got the lock so far; the last one's number
  cancelled,   \* callers dropped so far (bound)
  completed,   \* history: the number of the last command completed
  drawn        \* history: the indexes handed out

client == <<caller, lock, calls, cancelled>>
device == <<build, handling, traffic, alive, table, gen, completed, drawn>>
vars == <<client, submission, completion, device>>
-----------------------------------------------------------------------------
(* The peer table. *)

EmptyTable == [peers |-> <<>>, by_idx |-> <<>>, by_ip |-> <<>>]

Keys(t) == DOMAIN t.peers

(* The prefixes of all peers, with those of key replaced, each with its owner. *)
Routes(t, key, ips) ==
  {<<net, key>> : net \in ips} \cup
  UNION {{<<net, k>> : net \in t.peers[k].allowed_ips} : k \in Keys(t) \ {key}}

(* A prefix meets another one, of the same peer or not. *)
Overlap(t, key, ips) ==
  \E r, s \in Routes(t, key, ips) : r # s /\ r[1] \cap s[1] # {}

rebuilt_peers_by_ip_with(t, key, ips) ==
  [net \in {r[1] : r \in Routes(t, key, ips)} |->
     (CHOOSE r \in Routes(t, key, ips) : r[1] = net)[2]]

WithPeer(t, key, index, ips) ==
  [peers |-> [k \in Keys(t) \cup {key} |->
                IF k = key THEN [index |-> index, allowed_ips |-> ips] ELSE t.peers[k]],
   by_idx |-> [i \in DOMAIN t.by_idx \cup {index} |-> IF i = index THEN key ELSE t.by_idx[i]],
   by_ip |-> rebuilt_peers_by_ip_with(t, key, ips)]

WithOldRoutes(t, key, ips) ==   \* mutant: the routes the peer had stay
  [t EXCEPT !.peers[key].allowed_ips = ips,
            !.by_ip = rebuilt_peers_by_ip_with(t, key, ips) @@ @]

WithRoutes(t, key, ips) ==
  [t EXCEPT !.peers[key].allowed_ips = ips,
            !.by_ip = rebuilt_peers_by_ip_with(t, key, ips)]

WithoutPeer(t, key) ==
  [peers |-> Restrict(t.peers, Keys(t) \ {key}),
   by_idx |-> Restrict(t.by_idx, DOMAIN t.by_idx \ {t.peers[key].index}),
   by_ip |-> Restrict(t.by_ip, {net \in DOMAIN t.by_ip : t.by_ip[net] # key})]

Outcome(t, out) == [table |-> t, out |-> out]

(* add_peer_to_state, with the index already drawn *)
add_peer_to_state(t, key, ips, index) ==
  CASE key \in Keys(t) -> Outcome(t, "PeerAlreadyExists")
    [] key \notin Keys(t) /\ Overlap(t, key, ips) -> Outcome(t, "AllowedIPOverlap")
    [] key \notin Keys(t) /\ ~Overlap(t, key, ips) /\ Cardinality(Keys(t)) >= MAX_PEERS
         -> Outcome(t, "Capacity")
    [] OTHER -> Outcome(WithPeer(t, key, index, ips), "none")

update_peer_in_state(t, key, ips) ==
  CASE key \notin Keys(t) -> Outcome(t, "PeerNotFound")
    [] key \in Keys(t) /\ Overlap(t, key, ips) -> Outcome(t, "AllowedIPOverlap")
    [] OTHER -> Outcome(WithRoutes(t, key, ips), "none")

remove_peer_from_state(t, key) ==
  Outcome(IF key \in Keys(t) THEN WithoutPeer(t, key) ELSE t, "none")

Run(c, index) ==
  CASE c.op = "Add" -> add_peer_to_state(table, c.key, c.ips, index)
    [] c.op = "Update" -> update_peer_in_state(table, c.key, c.ips)
    [] c.op = "Remove" -> remove_peer_from_state(table, c.key)
    [] c.op = "Get" -> Outcome(table, IF c.key \in Keys(table) THEN "PeerInfo" ELSE "PeerNotFound")
    [] c.op = "List" -> Outcome(table, "PeerKeys")
-----------------------------------------------------------------------------
(* Callers. *)

Idle == [phase |-> "idle"]

Call(c) ==
  /\ caller[c] = Idle
  /\ calls + Cardinality({b \in Caller : caller[b].phase = "locking"}) < MaxCalls
  /\ caller' = [caller EXCEPT ![c] = [phase |-> "locking"]]
  /\ UNCHANGED <<lock, calls, cancelled, submission, completion, device>>

Locked(c) ==
  /\ caller[c].phase = "locking" /\ lock = None
  /\ lock' = c
  /\ calls' = calls + 1
  /\ caller' = [caller EXCEPT ![c] = [phase |-> "locked", id |-> calls + 1, since |-> completed]]
  /\ UNCHANGED <<cancelled, submission, device>>

LockOnly(c) == Locked(c) /\ UNCHANGED completion   \* mutant: nothing is discarded

(* `execute` has the lock and calls discard_current. *)
Lock(c) == Locked(c) /\ completion' = None

(* The call is over and the lock is free. *)
Return(c) ==
  /\ caller' = [caller EXCEPT ![c] = Idle]
  /\ lock' = None
  /\ UNCHANGED <<calls, cancelled>>

(* The watch channel says that the device is gone (Error::Io). *)
Hangup == build = "std" /\ ~alive

submit(c) ==
  /\ caller[c].phase = "locked"
  /\ \/ /\ ~Hangup
        /\ submission' = caller[c].id
        /\ caller' = [caller EXCEPT ![c].phase = "waiting"]
        /\ UNCHANGED <<lock, calls, cancelled>>
     \/ Hangup /\ Return(c) /\ UNCHANGED submission
  /\ UNCHANGED <<completion, device>>

(* The caller gets the completion in the mailbox, whosever it is, also from *)
(* a device that is gone since.                                             *)
Answered(c) == caller[c].phase = "waiting" /\ completion # None

wait_next(c) ==
  /\ \/ Answered(c) /\ completion' = None
     \/ caller[c].phase = "waiting" /\ completion = None /\ Hangup /\ UNCHANGED completion
  /\ Return(c)
  /\ UNCHANGED <<submission, device>>

(* The future is dropped, and with it the guard of the mutex. *)
Cancel(c) ==
  /\ caller[c].phase \in {"locking", "waiting"}
  /\ cancelled < MaxCancel
  /\ cancelled' = cancelled + 1
  /\ caller' = [caller EXCEPT ![c] = Idle]
  /\ lock' = IF lock = c THEN None ELSE lock
  /\ UNCHANGED <<calls, submission, completion, device>>
-----------------------------------------------------------------------------
(* The device. *)

(* A packet arrives or a tick is due; select4 prefers it to a command. *)
Arrive ==
  /\ alive /\ ~traffic
  /\ traffic' = TRUE
  /\ UNCHANGED <<client, submission, completion, build, handling, alive, table, gen, completed, drawn>>

Serve ==
  /\ alive /\ traffic /\ handling = None
  /\ traffic' = FALSE
  /\ UNCHANGED <<client, submission, completion, build, handling, alive, table, gen, completed, drawn>>

receive_command ==
  /\ alive /\ ~traffic /\ handling = None /\ submission # None
  /\ handling' = submission
  /\ submission' = None
  /\ UNCHANGED <<client, completion, build, traffic, alive, table, gen, completed, drawn>>

Command ==
  [op : {"Add", "Update"}, key : Key, ips : IpSets]
    \cup [op : {"Remove", "Get"}, key : Key] \cup [op : {"List"}]

(* Add draws an index before it knows whether the peer fits. *)
Draws(c) == c.op = "Add" /\ c.key \notin Keys(table)

CompleteOnSuccess(r) ==   \* mutant: an error is not posted
  IF r.out \in {"none", "PeerInfo", "PeerKeys"} THEN handling ELSE completion

(* A completion is known by the number of its command. *)
try_send_command_completion(r) == handling

(* Nothing depends on what a command asks before it is run, so that it is   *)
(* chosen only here.                                                        *)
handle_peer_update(c) ==
  /\ alive /\ handling # None
  /\ Draws(c) => CanDraw(gen)
  /\ LET r == Run(c, new_index(gen))
     IN  table' = r.table /\ completion' = try_send_command_completion(r)
  /\ gen' = IF Draws(c) THEN Drawn(gen) ELSE gen
  /\ drawn' = IF Draws(c) THEN drawn \cup {new_index(gen)} ELSE drawn
  /\ completed' = handling
  /\ handling' = None
  /\ UNCHANGED <<client, submission, build, traffic, alive>>

Gone ==
  /\ alive' = FALSE /\ handling' = None /\ traffic' = FALSE
  /\ table' = EmptyTable
  /\ UNCHANGED <<client, submission, completion, build, gen, completed, drawn>>

(* "Too many peers created" *)
Panic(c) == alive /\ handling # None /\ Draws(c) /\ ~CanDraw(gen) /\ Gone

(* The device, and the future of its run, are dropped. *)
Drop == alive /\ Gone

Init ==
  /\ build \in {"std", "no_std"}
  /\ caller = [c \in Caller |-> Idle] /\ lock = None
  /\ submission = None /\ completion = None /\ handling = None
  /\ traffic = FALSE /\ alive = TRUE
  /\ table = EmptyTable /\ gen \in Initialized
  /\ calls = 0 /\ cancelled = 0 /\ completed = 0 /\ drawn = {}

Next ==
  \/ \E c \in Caller : Call(c) \/ Lock(c) \/ submit(c) \/ wait_next(c) \/ Cancel(c)
  \/ Arrive \/ Serve \/ receive_command \/ Drop
  \/ \E c \in Command : handle_peer_update(c) \/ Panic(c)

Spec == Init /\ [][Next]_vars

(* The runtime polls callers and the loop.  The mutex of tokio is first     *)
(* come, first served; the one of embassy is not.                           *)
Fairness ==
  /\ \A c \in Caller : /\ WF_vars(Lock(c)) /\ SF_vars(build = "std" /\ Lock(c))
                       /\ WF_vars(submit(c)) /\ WF_vars(wait_next(c))
  /\ WF_vars(Serve) /\ WF_vars(\E c \in Command : handle_peer_update(c) \/ Panic(c))

FairSpec == Spec /\ Fairness
-----------------------------------------------------------------------------
(* The three maps of the peer table tell one story, also after refused and  *)
(* failed commands: routes and indexes are those of the peers, no address   *)
(* has two owners, and an index is the index of one peer (add_peer_to_state,*)
(* update_peer_in_state, remove_peer_from_state).                           *)
TablesAgree ==
  /\ Cardinality(Keys(table)) <= MAX_PEERS
  /\ table.by_idx = [i \in {table.peers[k].index : k \in Keys(table)} |->
                       CHOOSE k \in Keys(table) : table.peers[k].index = i]
  /\ Cardinality(DOMAIN table.by_idx) = Cardinality(Keys(table))
  /\ \A k \in Keys(table) :
       table.peers[k].allowed_ips = {net \in DOMAIN table.by_ip : table.by_ip[net] = k}
  /\ \A net \in DOMAIN table.by_ip : table.by_ip[net] \in Keys(table)
  /\ \A m, n \in DOMAIN table.by_ip : m # n => m \cap n = {}

(* Until the generator is exhausted no index is zero and none is handed out *)
(* twice, whatever seed and mask it started with (new_index).               *)
IndexesAreUnique ==
  /\ drawn \subseteq 1..LFSR_MAX
  /\ Cardinality(drawn) = LFSR_MAX - gen.remaining

(* A caller is answered by its own command.  Once a caller has been dropped *)
(* in the middle of a call, later ones may get the answer of a command that *)
(* was out at the time, but never one completed before they got the lock    *)
(* (execute, discard_current).                                              *)
AnswersAreOwn ==
  \A c \in Caller : Answered(c) =>
    /\ completion > caller[c].since
    /\ cancelled = 0 => completion = caller[c].id

(* Packets and ticks leave the loop idle now and then.  This is about the   *)
(* traffic: where it never pauses select4 never looks at a command.         *)
LoopGetsIdle == SF_vars(receive_command)

(* Whoever waits for the client or for its command is answered or dropped,  *)
(* though others are cancelled at any time and the device may be dropped or *)
(* panic (execute, wait_next).  Without std this takes a device that is     *)
(* there, and a caller that has got the lock.                               *)
CallersAreAnswered ==
  LoopGetsIdle =>
    \A c \in Caller :
      caller[c] # Idle ~>
        \/ caller[c] = Idle
        \/ build = "no_std" /\ (~alive \/ caller[c].phase = "locking")
=============================================================================
