---------------------------- MODULE DeviceProofs ----------------------------
(***************************************************************************)
(* AnswersAreOwn, IndexesAreUnique and TablesAgree of DeviceCommands for   *)
(* any number of callers, calls, cancelled calls, peers and prefixes and   *)
(* any register of full period; and, at the end, ForwardersAgreed of Relay *)
(* for every set of devices, every table of relays, every authorizer and   *)
(* any number of packets and updates.                                      *)
(***************************************************************************)
EXTENDS DeviceCommands, Relay, FiniteSetTheorems, WellFoundedInduction, TLAPS

Held == [phase : {"locked", "waiting"}, id : Nat, since : Nat]

CallTypes ==
  /\ caller \in [Caller -> {Idle, [phase |-> "locking"]} \cup Held]
  /\ lock \in Caller \cup {None}
  /\ calls \in Nat /\ cancelled \in Nat /\ completed \in Nat
  /\ submission \in Nat \cup {None} /\ handling \in Nat \cup {None}
  /\ completion \in Nat \cup {None}

(* Who holds the lock is in the middle of a call, the latest one. *)
Holders ==
  /\ \A c \in Caller : caller[c] \in Held <=> lock = c
  /\ lock # None => /\ caller[lock].id = calls
                    /\ caller[lock].since <= completed
                    /\ completion # None => completion > caller[lock].since

(* Commands complete in the order in which they were submitted.  The one    *)
(* that the loop handles is older than the one in the mailbox, and both are *)
(* older than a call that has not submitted yet.                            *)
InOrder ==
  /\ completed <= calls
  /\ completion # None => completion = completed
  /\ submission # None => submission > completed /\ submission <= calls
  /\ handling # None => handling > completed /\ handling <= calls
  /\ submission # None /\ handling # None => handling < submission
  /\ lock # None /\ caller[lock].phase = "locked" =>
       /\ completed < calls
       /\ submission # None => submission < calls
       /\ handling # None => handling < calls

Waiting == lock # None /\ caller[lock].phase = "waiting"

(* While no call was cancelled, what is on its way belongs to the holder. *)
Undisturbed ==
  cancelled = 0 =>
    /\ alive /\ submission # None => Waiting /\ submission = calls
    /\ alive /\ handling # None => Waiting /\ handling = calls
    /\ lock # None /\ completion # None => Waiting /\ completion = calls

CommandInv == CallTypes /\ Holders /\ InOrder /\ Undisturbed
-----------------------------------------------------------------------------
LEMMA InitInv == Init => CommandInv
  BY CommandAssumption
  DEF Init, CommandInv, CallTypes, Holders, InOrder, Undisturbed, Waiting, Idle, Held

(* The records of a caller tell its phases apart. *)
LEMMA HeldPhase ==
  ASSUME CallTypes, NEW c \in Caller
  PROVE  /\ caller[c] \in Held <=> caller[c].phase \in {"locked", "waiting"}
         /\ caller[c] \in {Idle, [phase |-> "locking"]} \cup Held
  BY DEF CallTypes, Held, Idle

LEMMA CallKeepsInv ==
  ASSUME CommandInv, NEW c \in Caller, Call(c) PROVE CommandInv'
<1> USE CommandAssumption DEF CommandInv
<1>1. caller[c] \notin Held /\ lock # c
  BY HeldPhase DEF Call, Idle, Held, Holders
<1>2. /\ caller' = [caller EXCEPT ![c] = [phase |-> "locking"]]
      /\ UNCHANGED <<lock, calls, cancelled, submission, completion, completed, handling, alive>>
  BY DEF Call, device
<1>3. [phase |-> "locking"] \notin Held
  BY DEF Held
<1>4. CallTypes'
  BY <1>2 DEF CallTypes
<1>5. lock # None => caller'[lock] = caller[lock]
  BY <1>1, <1>2 DEF CallTypes
<1>6. Holders'
  BY <1>1, <1>2, <1>3, <1>5 DEF Holders, CallTypes
<1>7. InOrder' /\ Undisturbed'
  BY <1>2, <1>5 DEF InOrder, Undisturbed, Waiting
<1> QED  BY <1>4, <1>6, <1>7

LEMMA LockKeepsInv ==
  ASSUME CommandInv, NEW c \in Caller, Lock(c) PROVE CommandInv'
<1> USE CommandAssumption DEF CommandInv
<1> DEFINE r == [phase |-> "locked", id |-> calls + 1, since |-> completed]
<1>1. /\ lock = None /\ lock' = c /\ calls' = calls + 1 /\ completion' = None
      /\ caller' = [caller EXCEPT ![c] = r]
      /\ UNCHANGED <<cancelled, submission, completed, handling, alive>>
  BY DEF Lock, Locked, device
<1>2. r \in Held /\ r.phase = "locked" /\ r.id = calls + 1 /\ r.since = completed
  BY DEF Held, CallTypes
<1> HIDE DEF r
<1>3. CallTypes'
  BY <1>1, <1>2 DEF CallTypes
<1>4. caller'[c] = r /\ \A b \in Caller \ {c} : caller'[b] = caller[b]
  BY <1>1 DEF CallTypes
<1>5. Holders'
  BY <1>1, <1>2, <1>4 DEF Holders, CallTypes
<1>6. InOrder'
  BY <1>1, <1>2, <1>4 DEF InOrder, CallTypes
<1>7. Undisturbed'
  BY <1>1 DEF Undisturbed, Waiting, CallTypes
<1> QED  BY <1>3, <1>5, <1>6, <1>7

(* A call that ends leaves nothing of its own behind, unless the device is  *)
(* gone.                                                                    *)
LEMMA ReturnKeepsInv ==
  ASSUME CommandInv, NEW c \in Caller, lock = c, Return(c),
         completion' \in {completion, None},
         UNCHANGED <<submission, completed, handling, alive>>,
         alive /\ cancelled = 0 => submission = None /\ handling = None
  PROVE  CommandInv'
<1> USE CommandAssumption DEF CommandInv
<1>1. /\ caller' = [caller EXCEPT ![c] = Idle] /\ lock' = None
      /\ UNCHANGED <<calls, cancelled>>
  BY DEF Return
<1>2. Idle \notin Held
  BY DEF Idle, Held
<1>3. CallTypes'
  BY <1>1 DEF CallTypes
<1>4. Holders'
  BY <1>1, <1>2 DEF Holders, CallTypes
<1>5. InOrder' /\ Undisturbed'
  BY <1>1 DEF InOrder, Undisturbed, Waiting
<1> QED  BY <1>3, <1>4, <1>5

LEMMA SubmitKeepsInv ==
  ASSUME CommandInv, NEW c \in Caller, submit(c) PROVE CommandInv'
<1> USE CommandAssumption DEF CommandInv
<1>1. caller[c].phase = "locked" /\ caller[c] \in Held /\ lock = c /\ lock # None
  BY HeldPhase DEF submit, Holders
<1>2. UNCHANGED <<completion, completed, handling, alive>>
  BY DEF submit, device
<1>3. CASE Hangup /\ Return(c) /\ UNCHANGED submission
  BY <1>1, <1>2, <1>3, ReturnKeepsInv DEF Hangup
<1>4. CASE /\ ~Hangup /\ submission' = caller[c].id
           /\ caller' = [caller EXCEPT ![c].phase = "waiting"]
           /\ UNCHANGED <<lock, calls, cancelled>>
  <2>1. PICK i \in Nat, s \in Nat : caller[c] = [phase |-> "locked", id |-> i, since |-> s]
    BY <1>1 DEF Held
  <2> DEFINE r == [phase |-> "waiting", id |-> i, since |-> s]
  <2>2. caller' = [caller EXCEPT ![c] = r]
    <3>1. [[phase |-> "locked", id |-> i, since |-> s] EXCEPT !.phase = "waiting"] = r
      OBVIOUS
    <3>2. caller' = [caller EXCEPT ![c] = [caller[c] EXCEPT !.phase = "waiting"]]
      BY <1>4, Zenon
    <3> QED  BY <2>1, <3>1, <3>2, Zenon
  <2>3. r \in Held /\ r.phase = "waiting" /\ r.id = caller[c].id /\ r.since = caller[c].since
    BY <2>1 DEF Held
  <2> HIDE DEF r
  <2>4. caller'[c] = r /\ \A b \in Caller \ {c} : caller'[b] = caller[b]
    BY <2>2 DEF CallTypes
  <2>5. submission' = calls
    BY <1>1, <1>4 DEF Holders
  <2>6. CallTypes'
    BY <1>2, <1>4, <2>2, <2>3, <2>5 DEF CallTypes
  <2>7. Holders'
    BY <1>1, <1>2, <1>4, <2>3, <2>4 DEF Holders, CallTypes
  <2>8. InOrder'
    BY <1>1, <1>2, <1>4, <2>3, <2>4, <2>5 DEF InOrder, CallTypes
  <2>9. Undisturbed'
    BY <1>1, <1>2, <1>4, <2>3, <2>4, <2>5 DEF Undisturbed, Waiting
  <2> QED  BY <2>6, <2>7, <2>8, <2>9
<1> QED  BY <1>3, <1>4 DEF submit

LEMMA WaitKeepsInv ==
  ASSUME CommandInv, NEW c \in Caller, wait_next(c) PROVE CommandInv'
<1> USE CommandAssumption DEF CommandInv
<1>1. caller[c].phase = "waiting" /\ lock = c
  BY HeldPhase DEF wait_next, Answered, Holders
<1>2. Return(c) /\ UNCHANGED <<submission, completed, handling, alive>>
      /\ completion' \in {completion, None}
  BY DEF wait_next, device
<1>3. alive => completion # None
  BY DEF wait_next, Answered, Hangup
<1>4. alive /\ cancelled = 0 => completed = calls
  BY <1>1, <1>3 DEF Undisturbed, InOrder
<1>5. alive /\ cancelled = 0 => submission = None /\ handling = None
  BY <1>4 DEF InOrder, CallTypes
<1> QED  BY <1>1, <1>2, <1>5, ReturnKeepsInv

(* A dropped caller frees the lock when it has it. *)
LEMMA CancelKeepsInv ==
  ASSUME CommandInv, NEW c \in Caller, Cancel(c) PROVE CommandInv'
<1> USE CommandAssumption DEF CommandInv
<1>1. /\ caller' = [caller EXCEPT ![c] = Idle] /\ cancelled' = cancelled + 1
      /\ lock' = IF lock = c THEN None ELSE lock
      /\ UNCHANGED <<calls, submission, completion, completed, handling, alive>>
  BY DEF Cancel, device
<1>2. Idle \notin Held
  BY DEF Idle, Held
<1>3. CallTypes'
  BY <1>1 DEF CallTypes
<1>4. caller'[c] = Idle /\ \A b \in Caller \ {c} : caller'[b] = caller[b]
  BY <1>1 DEF CallTypes
<1>5. lock' # None => lock' = lock /\ lock # c /\ caller'[lock'] = caller[lock]
  BY <1>1, <1>4 DEF CallTypes
<1>6. Holders'
  BY <1>1, <1>2, <1>4, <1>5 DEF Holders, CallTypes
<1>7. InOrder'
  BY <1>1, <1>5 DEF InOrder
<1>8. Undisturbed'
  BY <1>1 DEF Undisturbed, CallTypes
<1> QED  BY <1>3, <1>6, <1>7, <1>8

LEMMA ReceiveKeepsInv == ASSUME CommandInv, receive_command PROVE CommandInv'
<1> USE CommandAssumption DEF CommandInv
<1>1. /\ submission # None /\ handling = None /\ handling' = submission /\ submission' = None /\ alive
      /\ UNCHANGED <<caller, lock, calls, cancelled, completion, completed, alive>>
  BY DEF receive_command, client
<1>2. CallTypes' /\ Holders'
  BY <1>1 DEF CallTypes, Holders
<1>3. InOrder'
  BY <1>1 DEF InOrder
<1>4. Undisturbed'
  BY <1>1 DEF Undisturbed, Waiting
<1> QED  BY <1>2, <1>3, <1>4

(* What is completed is newer than all that was completed before. *)
LEMMA HandleKeepsInv ==
  ASSUME CommandInv, NEW c, handle_peer_update(c) PROVE CommandInv'
<1> USE CommandAssumption DEF CommandInv
<1>1. /\ alive /\ handling # None /\ completion' = handling /\ completed' = handling /\ handling' = None
      /\ UNCHANGED <<caller, lock, calls, cancelled, submission, alive>>
  BY DEF handle_peer_update, try_send_command_completion, client
<1>2. CallTypes'
  BY <1>1 DEF CallTypes
<1>3. lock # None => caller[lock] \in Held /\ caller[lock].since \in Nat
  BY DEF Holders, CallTypes, Held
<1>4. Holders'
  BY <1>1, <1>3 DEF Holders, InOrder, CallTypes
<1>5. InOrder'
  BY <1>1 DEF InOrder, CallTypes
<1>6. Undisturbed'
  BY <1>1 DEF Undisturbed, Waiting
<1> QED  BY <1>2, <1>4, <1>5, <1>6

(* A device that is gone handles nothing, and what is in the mailboxes stays. *)
LEMMA GoneKeepsInv == ASSUME CommandInv, Gone PROVE CommandInv'
<1> USE CommandAssumption DEF CommandInv
<1>1. /\ ~alive' /\ handling' = None
      /\ UNCHANGED <<caller, lock, calls, cancelled, submission, completion, completed>>
  BY DEF Gone, client
<1>2. CallTypes' /\ Holders'
  BY <1>1 DEF CallTypes, Holders
<1>3. InOrder' /\ Undisturbed'
  BY <1>1 DEF InOrder, Undisturbed, Waiting
<1> QED  BY <1>2, <1>3

LEMMA OthersKeepInv ==
  ASSUME CommandInv,
         UNCHANGED <<caller, lock, calls, cancelled, submission, completion, completed, handling, alive>>
  PROVE  CommandInv'
  BY DEF CommandInv, CallTypes, Holders, InOrder, Undisturbed, Waiting

LEMMA NextKeepsInv == CommandInv /\ [Next]_vars => CommandInv'
<1> SUFFICES ASSUME CommandInv, [Next]_vars PROVE CommandInv'
  OBVIOUS
<1>1. ASSUME NEW c \in Caller, Call(c) \/ Lock(c) \/ submit(c) \/ wait_next(c) \/ Cancel(c)
      PROVE  CommandInv'
  BY <1>1, CallKeepsInv, LockKeepsInv, SubmitKeepsInv, WaitKeepsInv, CancelKeepsInv
<1>2. CASE Arrive \/ Serve \/ UNCHANGED vars
  BY <1>2, OthersKeepInv DEF Arrive, Serve, client, device, vars
<1>3. CASE receive_command
  BY <1>3, ReceiveKeepsInv
<1>4. ASSUME NEW c \in Command, handle_peer_update(c) \/ Panic(c) PROVE CommandInv'
  BY <1>4, HandleKeepsInv, GoneKeepsInv DEF Panic
<1>5. CASE Drop
  BY <1>5, GoneKeepsInv DEF Drop
<1> QED  BY <1>1, <1>2, <1>3, <1>4, <1>5 DEF Next

LEMMA InvImpliesOwn == CommandInv => AnswersAreOwn
<1> SUFFICES ASSUME CommandInv, NEW c \in Caller, Answered(c)
             PROVE  /\ completion > caller[c].since
                    /\ cancelled = 0 => completion = caller[c].id
  BY DEF AnswersAreOwn
<1>1. lock = c /\ lock # None /\ completion # None
  BY CommandAssumption, HeldPhase DEF CommandInv, Answered, Holders
<1> QED  BY <1>1 DEF CommandInv, Holders, Undisturbed

(* `execute` returns the answer of its own command, or, once a caller has   *)
(* been dropped, at least none that was completed before it had the lock:   *)
(* discard_current empties the mailbox and completions come in order.       *)
THEOREM OwnAnswers == Spec => []AnswersAreOwn
<1>1. Spec => []CommandInv
  BY InitInv, NextKeepsInv, PTL DEF Spec
<1> QED  BY <1>1, InvImpliesOwn, PTL
-----------------------------------------------------------------------------
(* Recursive functions. *)

(* Every set of naturals has a least member. *)
LEMMA HasLeast ==
  ASSUME NEW S \in SUBSET Nat, S # {}
  PROVE  \E x \in S : \A y \in S : x <= y
<1> DEFINE R == OpToRel(<, Nat)
<1>1. IsWellFoundedOn(R, Nat)
  BY NatLessThanWellFounded
<1> HIDE DEF R
<1>2. PICK x \in S : \A y \in S : ~(<<y, x>> \in R)
  BY <1>1, WFMin
<1>3. ASSUME NEW y \in Nat, y < x PROVE <<y, x>> \in R
  <2>1. <<y, x>> \in Nat \X Nat /\ <<y, x>>[1] < <<y, x>>[2]
    BY <1>3
  <2> QED  BY <2>1 DEF R, OpToRel
<1>4. ASSUME NEW y \in S PROVE x <= y
  <2>1. x \in Nat /\ y \in Nat
    OBVIOUS
  <2>2. ~(y < x)
    BY <1>2, <1>3, <2>1
  <2> QED  BY <2>1, <2>2
<1> QED  BY <1>4

(* A set of naturals that has 0 and, with a number, the next one, has all   *)
(* numbers up to n.                                                         *)
LEMMA UpTo ==
  ASSUME NEW n \in Nat, NEW S, 0 \in S, \A i \in 1..n : i - 1 \in S => i \in S
  PROVE  \A i \in 0..n : i \in S
<1> DEFINE Bad == {i \in 0..n : i \notin S}
<1>1. SUFFICES ASSUME Bad # {} PROVE FALSE
  OBVIOUS
<1>2. Bad \in SUBSET Nat
  OBVIOUS
<1> HIDE DEF Bad
<1>3. PICK m \in Bad : \A k \in Bad : m <= k
  BY <1>1, <1>2, HasLeast
<1>4. m \in 0..n /\ m \notin S /\ m # 0
  BY DEF Bad
<1>5. m - 1 \in 0..n /\ m \in 1..n /\ ~(m <= m - 1)
  BY <1>4
<1>6. m - 1 \in S
  BY <1>3, <1>5 DEF Bad
<1> QED  BY <1>4, <1>5, <1>6

(* A recursive function over 0..n, that starts with b and whose i-th step   *)
(* is F[i].                                                                 *)
Recurs(g, n, b, F) == g = [i \in 0..n |-> IF i = 0 THEN b ELSE F[i][g[i - 1]]]

(* There is one. *)
LEMMA RecursExists ==
  ASSUME NEW n \in Nat, NEW F, NEW b
  PROVE  \E g : Recurs(g, n, b, F)
<1> DEFINE Good == {m \in Nat : \E g : Recurs(g, m, b, F)}
<1>1. 0 \in Good
  <2> DEFINE g == [i \in 0..0 |-> b]
  <2>1. g = [i \in 0..0 |-> IF i = 0 THEN b ELSE F[i][g[i - 1]]]
    OBVIOUS
  <2>2. Recurs(g, 0, b, F)
    BY <2>1 DEF Recurs
  <2> HIDE DEF g
  <2> QED  BY <2>2
<1>2. ASSUME NEW m \in 1..n, m - 1 \in Good PROVE m \in Good
  <2>1. PICK f : Recurs(f, m - 1, b, F)
    BY <1>2
  <2> DEFINE g == [i \in 0..m |-> IF i = 0 THEN b ELSE F[i][f[i - 1]]]
  <2>2. ASSUME NEW i \in 0..(m - 1) PROVE g[i] = f[i]
    BY <2>1 DEF Recurs
  <2>3. ASSUME NEW i \in 0..m PROVE g[i] = IF i = 0 THEN b ELSE F[i][g[i - 1]]
    <3>1. CASE i = 0
      BY <3>1
    <3>2. CASE i # 0
      <4>1. i - 1 \in 0..(m - 1)
        BY <3>2
      <4> QED  BY <2>2, <3>2, <4>1
    <3> QED  BY <3>1, <3>2
  <2>4. DOMAIN g = 0..m /\ g = [i \in DOMAIN g |-> g[i]]
    OBVIOUS
  <2> HIDE DEF g
  <2>5. g = [i \in 0..m |-> IF i = 0 THEN b ELSE F[i][g[i - 1]]]
    BY <2>3, <2>4
  <2>6. Recurs(g, m, b, F)
    BY <2>5 DEF Recurs
  <2> QED  BY <2>6
<1> HIDE DEF Good
<1>3. \A i \in 0..n : i \in Good
  BY <1>1, <1>2, UpTo
<1>4. n \in 0..n
  OBVIOUS
<1> QED  BY <1>3, <1>4 DEF Good

Stays(n, F, S) == \A i \in 1..n : \A v \in S : F[i][v] \in S
Runs(g, n, b, F, S) ==
  g \in [0..n -> S] /\ g[0] = b /\ \A i \in 1..n : g[i] = F[i][g[i - 1]]

(* And its values stay in a set S that every step leads back into. *)
LEMMA RecursIn ==
  ASSUME NEW n \in Nat, NEW F, NEW S, NEW b \in S, Stays(n, F, S)
  PROVE  \E g : Runs(g, n, b, F, S)
<1>1. PICK g : Recurs(g, n, b, F)
  BY RecursExists
<1>2. /\ g = [i \in 0..n |-> g[i]] /\ g[0] = b
      /\ \A i \in 1..n : g[i] = F[i][g[i - 1]]
  <2>1. \A i \in 0..n : g[i] = IF i = 0 THEN b ELSE F[i][g[i - 1]]
    BY <1>1 DEF Recurs
  <2>2. g = [i \in 0..n |-> g[i]]
    BY <1>1 DEF Recurs
  <2>3. 0 \in 0..n /\ \A i \in 1..n : i \in 0..n /\ i # 0
    OBVIOUS
  <2> QED  BY <2>1, <2>2, <2>3
<1> DEFINE Good == {i \in 0..n : g[i] \in S}
<1>3. 0 \in Good
  BY <1>2
<1>4. ASSUME NEW i \in 1..n, i - 1 \in Good PROVE i \in Good
  <2>1. i \in 0..n /\ g[i - 1] \in S
    BY <1>4
  <2>2. g[i] \in S
    BY <1>2, <2>1 DEF Stays
  <2> QED  BY <2>1, <2>2
<1>5. \A i \in 0..n : i \in Good
  <2> HIDE DEF Good
  <2> QED  BY <1>3, <1>4, UpTo
<1>6. g \in [0..n -> S]
  BY <1>2, <1>5
<1> QED  BY <1>2, <1>6 DEF Runs
-----------------------------------------------------------------------------
(* The words of the generator. *)

(* The ones of LFSR_MAX. *)
LEMMA OnesIs ==
  \E g \in [0..BITS -> Nat] :
    /\ g[0] = 0 /\ \A i \in 1..BITS : g[i] = 2 * g[i - 1] + 1
    /\ LFSR_MAX = g[BITS]
<1>0. BITS \in Nat
  BY LfsrAssumption
<1> DEFINE F == [i \in 1..BITS |-> [v \in Nat |-> 2 * v + 1]]
           Is(g) == g = [i \in 0..BITS |-> IF i = 0 THEN 0 ELSE 2 * g[i - 1] + 1]
<1>1. \A i \in 1..BITS : \A v \in Nat : F[i][v] \in Nat /\ F[i][v] = 2 * v + 1
  OBVIOUS
<1> HIDE DEF F
<1>2. PICK f : Runs(f, BITS, 0, F, Nat)
  <2>1. Stays(BITS, F, Nat)
    BY <1>1 DEF Stays
  <2> QED  BY <1>0, <2>1, RecursIn
<1>3. \A i \in 1..BITS : i - 1 \in 0..BITS /\ f[i - 1] \in Nat /\ f[i] = 2 * f[i - 1] + 1
  <2> TAKE i \in 1..BITS
  <2>1. i - 1 \in 0..BITS
    BY <1>0
  <2>2. f[i - 1] \in Nat
    BY <1>2, <2>1 DEF Runs
  <2> QED  BY <1>1, <1>2, <2>1, <2>2 DEF Runs
<1>4. Is(f)
  <2>1. \A i \in 0..BITS : i = 0 \/ i \in 1..BITS
    BY <1>0
  <2>2. f = [i \in 0..BITS |-> f[i]]
    BY <1>2 DEF Runs
  <2>3. f[0] = 0
    BY <1>2 DEF Runs
  <2> QED  BY <1>3, <2>1, <2>2, <2>3
<1> DEFINE g == CHOOSE h : Is(h)
<1>5. LFSR_MAX = g[BITS]
  BY DEF LFSR_MAX
<1>6. Is(g)
  BY <1>4
<1> HIDE DEF g
<1>7. g[0] = 0 /\ \A i \in 1..BITS : g[i] = 2 * g[i - 1] + 1
  <2>1. \A i \in 0..BITS : g[i] = IF i = 0 THEN 0 ELSE 2 * g[i - 1] + 1
    BY ONLY <1>6
  <2>2. 0 \in 0..BITS /\ \A i \in 1..BITS : i \in 0..BITS /\ i # 0
    BY <1>0
  <2> QED  BY <2>1, <2>2
<1> DEFINE Good == {i \in 0..BITS : g[i] \in Nat}
<1>8. 0 \in Good /\ \A i \in 1..BITS : i - 1 \in Good => i \in Good
  <2>1. 0 \in Good
    BY <1>0, <1>7
  <2>2. ASSUME NEW i \in 1..BITS, i - 1 \in Good PROVE i \in Good
    <3>1. g[i] = 2 * g[i - 1] + 1 /\ g[i - 1] \in Nat /\ i \in 0..BITS
      BY <1>0, <1>7, <2>2
    <3>2. g[i] \in Nat
      BY <1>1, <3>1
    <3> QED  BY <3>1, <3>2
  <2> QED  BY <2>1, <2>2
<1>9. \A i \in 0..BITS : i \in Good
  <2> HIDE DEF Good, Is
  <2> QED  BY <1>0, <1>8, UpTo
<1>10. g \in [0..BITS -> Nat]
  <2>1. g = [i \in 0..BITS |-> g[i]]
    BY ONLY <1>6
  <2> HIDE DEF Is
  <2> QED  BY <1>9, <2>1
<1> QED  BY <1>5, <1>7, <1>10

(* The words a, a >> 1, a >> 2, ... *)
LEMMA ShiftedIs ==
  ASSUME NEW a \in Nat
  PROVE  /\ Shifted(a) \in [0..BITS -> Nat] /\ Shifted(a)[0] = a
         /\ \A i \in 1..BITS : Shifted(a)[i] = Shifted(a)[i - 1] \div 2
<1>0. BITS \in Nat
  BY LfsrAssumption
<1> DEFINE F == [i \in 1..BITS |-> [v \in Nat |-> v \div 2]]
           Is(g) == g = [i \in 0..BITS |-> IF i = 0 THEN a ELSE g[i - 1] \div 2]
<1>1. \A i \in 1..BITS : \A v \in Nat : F[i][v] \in Nat /\ F[i][v] = v \div 2
  OBVIOUS
<1> HIDE DEF F
<1>2. PICK f : Runs(f, BITS, a, F, Nat)
  <2>1. Stays(BITS, F, Nat)
    BY <1>1 DEF Stays
  <2> QED  BY <1>0, <2>1, RecursIn
<1>3. \A i \in 1..BITS : i - 1 \in 0..BITS /\ f[i - 1] \in Nat /\ f[i] = f[i - 1] \div 2
  <2> TAKE i \in 1..BITS
  <2>1. i - 1 \in 0..BITS
    BY <1>0
  <2>2. f[i - 1] \in Nat
    BY <1>2, <2>1 DEF Runs
  <2> QED  BY <1>1, <1>2, <2>1, <2>2 DEF Runs
<1>4. Is(f)
  <2>1. \A i \in 0..BITS : i = 0 \/ i \in 1..BITS
    BY <1>0
  <2>2. f = [i \in 0..BITS |-> f[i]]
    BY <1>2 DEF Runs
  <2>3. f[0] = a
    BY <1>2 DEF Runs
  <2> QED  BY <1>3, <2>1, <2>2, <2>3
<1> DEFINE g == CHOOSE h : Is(h)
<1>5. Shifted(a) = g
  BY DEF Shifted
<1>6. Is(g)
  BY <1>4
<1> HIDE DEF g
<1>7. g[0] = a /\ \A i \in 1..BITS : g[i] = g[i - 1] \div 2
  <2>1. \A i \in 0..BITS : g[i] = IF i = 0 THEN a ELSE g[i - 1] \div 2
    BY ONLY <1>6
  <2>2. 0 \in 0..BITS /\ \A i \in 1..BITS : i \in 0..BITS /\ i # 0
    BY <1>0
  <2> QED  BY <2>1, <2>2
<1> DEFINE Good == {i \in 0..BITS : g[i] \in Nat}
<1>8. 0 \in Good /\ \A i \in 1..BITS : i - 1 \in Good => i \in Good
  <2>1. 0 \in Good
    BY <1>0, <1>7
  <2>2. ASSUME NEW i \in 1..BITS, i - 1 \in Good PROVE i \in Good
    <3>1. g[i] = g[i - 1] \div 2 /\ g[i - 1] \in Nat /\ i \in 0..BITS
      BY <1>0, <1>7, <2>2
    <3>2. g[i] \in Nat
      BY <1>1, <3>1
    <3> QED  BY <3>1, <3>2
  <2> QED  BY <2>1, <2>2
<1>9. \A i \in 0..BITS : i \in Good
  <2> HIDE DEF Good, Is
  <2> QED  BY <1>0, <1>8, UpTo
<1>10. g \in [0..BITS -> Nat]
  <2>1. g = [i \in 0..BITS |-> g[i]]
    BY ONLY <1>6
  <2> HIDE DEF Is
  <2> QED  BY <1>9, <2>1
<1> QED  BY <1>5, <1>7, <1>10

(* The words that the highest bits of a ^ b make. *)
XorRun(x, a, b) ==
  /\ x \in [0..BITS -> Nat] /\ x[0] = 0
  /\ \A i \in 1..BITS :
       x[i] = 2 * x[i - 1] + ((Shifted(a)[BITS - i] + Shifted(b)[BITS - i]) % 2)

(* Xor is the last of them. *)
LEMMA XorIs ==
  ASSUME NEW a \in Nat, NEW b \in Nat
  PROVE  \E g : XorRun(g, a, b) /\ Xor(a, b) = g[BITS]
<1>0. BITS \in Nat
  BY LfsrAssumption
<1>a. \A i \in 1..BITS : Shifted(a)[BITS - i] \in Nat /\ Shifted(b)[BITS - i] \in Nat
  <2>1. Shifted(a) \in [0..BITS -> Nat] /\ Shifted(b) \in [0..BITS -> Nat]
    BY ShiftedIs
  <2>2. \A i \in 1..BITS : BITS - i \in 0..BITS
    BY <1>0
  <2> QED  BY <2>1, <2>2
<1> DEFINE bit(i) == (Shifted(a)[BITS - i] + Shifted(b)[BITS - i]) % 2
           F == [i \in 1..BITS |-> [v \in Nat |-> 2 * v + bit(i)]]
           Is(g) == g = [i \in 0..BITS |-> IF i = 0 THEN 0 ELSE 2 * g[i - 1] + bit(i)]
<1>1. \A i \in 1..BITS : \A v \in Nat : F[i][v] \in Nat /\ F[i][v] = 2 * v + bit(i)
  BY <1>a
<1> HIDE DEF F
<1>2. PICK f : Runs(f, BITS, 0, F, Nat)
  <2>1. Stays(BITS, F, Nat)
    BY <1>1 DEF Stays
  <2> QED  BY <1>0, <2>1, RecursIn
<1>3. \A i \in 1..BITS : i - 1 \in 0..BITS /\ f[i - 1] \in Nat /\ f[i] = 2 * f[i - 1] + bit(i)
  <2> TAKE i \in 1..BITS
  <2>1. i - 1 \in 0..BITS
    BY <1>0
  <2>2. f[i - 1] \in Nat
    BY <1>2, <2>1 DEF Runs
  <2> QED  BY <1>1, <1>2, <2>1, <2>2 DEF Runs
<1>4. Is(f)
  <2>1. \A i \in 0..BITS : i = 0 \/ i \in 1..BITS
    BY <1>0
  <2>2. f = [i \in 0..BITS |-> f[i]]
    BY <1>2 DEF Runs
  <2>3. f[0] = 0
    BY <1>2 DEF Runs
  <2> QED  BY <1>3, <2>1, <2>2, <2>3
<1> DEFINE g == CHOOSE h : Is(h)
<1>5. Xor(a, b) = g[BITS]
  BY DEF Xor
<1>6. Is(g)
  BY <1>4
<1> HIDE DEF g
<1>7. g[0] = 0 /\ \A i \in 1..BITS : g[i] = 2 * g[i - 1] + bit(i)
  <2>1. \A i \in 0..BITS : g[i] = IF i = 0 THEN 0 ELSE 2 * g[i - 1] + bit(i)
    BY ONLY <1>6
  <2>2. 0 \in 0..BITS /\ \A i \in 1..BITS : i \in 0..BITS /\ i # 0
    BY <1>0
  <2> QED  BY <2>1, <2>2
<1> DEFINE Good == {i \in 0..BITS : g[i] \in Nat}
<1>8. 0 \in Good /\ \A i \in 1..BITS : i - 1 \in Good => i \in Good
  <2>1. 0 \in Good
    BY <1>0, <1>7
  <2>2. ASSUME NEW i \in 1..BITS, i - 1 \in Good PROVE i \in Good
    <3>1. g[i] = 2 * g[i - 1] + bit(i) /\ g[i - 1] \in Nat /\ i \in 0..BITS
      BY <1>0, <1>7, <2>2
    <3>2. g[i] \in Nat
      BY <1>1, <3>1
    <3> QED  BY <3>1, <3>2
  <2> QED  BY <2>1, <2>2
<1>9. \A i \in 0..BITS : i \in Good
  <2> HIDE DEF Good, Is
  <2> QED  BY <1>0, <1>8, UpTo
<1>10. g \in [0..BITS -> Nat]
  <2>1. g = [i \in 0..BITS |-> g[i]]
    BY ONLY <1>6
  <2> HIDE DEF Is
  <2> QED  BY <1>9, <2>1
<1> QED  BY <1>5, <1>7, <1>10 DEF XorRun

Word == 0..LFSR_MAX

(* LFSR_MAX and the numbers below it. *)
LEMMA WordIs == BITS \in Nat /\ BITS > 0 /\ LFSR_MAX \in Nat /\ LFSR_MAX > 0 /\ Word \subseteq Nat
<1>1. BITS \in Nat /\ BITS > 0 /\ LFSR_POLY \in 1..LFSR_MAX
  BY LfsrAssumption
<1>2. LFSR_MAX \in Nat
  BY <1>1, OnesIs
<1> QED  BY <1>1, <1>2 DEF Word

(* After BITS shifts nothing is left of a word. *)
LEMMA ShiftedOut ==
  ASSUME NEW a \in Word
  PROVE  Shifted(a)[BITS] = 0
<1>0. BITS \in Nat /\ a \in Nat /\ LFSR_MAX \in Nat /\ a <= LFSR_MAX
  BY WordIs DEF Word
<1>1. PICK s : s = Shifted(a)
  OBVIOUS
<1>2. /\ s \in [0..BITS -> Nat] /\ s[0] = a
      /\ \A i \in 1..BITS : s[i] = s[i - 1] \div 2
  BY <1>0, <1>1, ShiftedIs
<1>3. PICK g \in [0..BITS -> Nat] :
        g[0] = 0 /\ (\A i \in 1..BITS : g[i] = 2 * g[i - 1] + 1) /\ LFSR_MAX = g[BITS]
  BY OnesIs
<1> DEFINE Good == {i \in 0..BITS : s[i] <= g[BITS - i]}
<1>4. 0 \in Good
  BY <1>0, <1>2, <1>3
<1>5. ASSUME NEW i \in 1..BITS, i - 1 \in Good PROVE i \in Good
  <2>1. i \in 0..BITS /\ i - 1 \in 0..BITS /\ BITS - i \in 0..BITS /\ BITS - (i - 1) \in 1..BITS
        /\ (BITS - (i - 1)) - 1 = BITS - i
    BY <1>0
  <2>2. s[i - 1] <= g[BITS - (i - 1)]
    BY <1>5
  <2>3. g[BITS - (i - 1)] = 2 * g[BITS - i] + 1 /\ s[i] = s[i - 1] \div 2
    BY <1>2, <1>3, <2>1
  <2>4. s[i - 1] \in Nat /\ g[BITS - i] \in Nat /\ s[i] \in Nat
    BY <1>2, <2>1
  <2>5. s[i] <= g[BITS - i]
    BY <2>2, <2>3, <2>4
  <2> QED  BY <2>1, <2>5
<1>6. \A i \in 0..BITS : i \in Good
  <2> HIDE DEF Good
  <2> QED  BY <1>0, <1>4, <1>5, UpTo
<1>7. BITS \in 0..BITS /\ BITS - BITS = 0
  BY <1>0
<1>8. s[BITS] <= g[0] /\ s[BITS] \in Nat
  BY <1>2, <1>6, <1>7
<1> QED  BY <1>1, <1>3, <1>8

(* Xor makes a word. *)
LEMMA XorWord ==
  ASSUME NEW a \in Word, NEW b \in Word
  PROVE  Xor(a, b) \in Word
<1>0. BITS \in Nat /\ a \in Nat /\ b \in Nat
  BY WordIs
<1>1. PICK s, t : s = Shifted(a) /\ t = Shifted(b)
  OBVIOUS
<1>2. s \in [0..BITS -> Nat] /\ t \in [0..BITS -> Nat]
  BY <1>0, <1>1, ShiftedIs
<1>3. PICK g \in [0..BITS -> Nat] :
        g[0] = 0 /\ (\A i \in 1..BITS : g[i] = 2 * g[i - 1] + 1) /\ LFSR_MAX = g[BITS]
  BY OnesIs
<1>4. PICK x : XorRun(x, a, b) /\ Xor(a, b) = x[BITS]
  BY <1>0, XorIs
<1>x. /\ x \in [0..BITS -> Nat] /\ x[0] = 0
      /\ \A i \in 1..BITS : x[i] = 2 * x[i - 1] + ((s[BITS - i] + t[BITS - i]) % 2)
  BY <1>1, <1>4 DEF XorRun
<1> DEFINE Good == {i \in 0..BITS : x[i] <= g[i]}
<1>5. 0 \in Good
  BY <1>0, <1>3, <1>x
<1>6. ASSUME NEW i \in 1..BITS, i - 1 \in Good PROVE i \in Good
  <2>1. i \in 0..BITS /\ i - 1 \in 0..BITS /\ BITS - i \in 0..BITS
    BY <1>0
  <2>2. s[BITS - i] \in Nat /\ t[BITS - i] \in Nat /\ x[i - 1] \in Nat /\ g[i - 1] \in Nat
    BY <1>2, <1>x, <2>1
  <2>3. (s[BITS - i] + t[BITS - i]) % 2 \in 0..1
    BY <2>2
  <2>4. x[i - 1] <= g[i - 1]
    BY <1>6
  <2>5. x[i] = 2 * x[i - 1] + ((s[BITS - i] + t[BITS - i]) % 2) /\ g[i] = 2 * g[i - 1] + 1
    BY <1>3, <1>x
  <2>6. x[i] <= g[i]
    BY <2>2, <2>3, <2>4, <2>5
  <2> QED  BY <2>1, <2>6
<1>7. \A i \in 0..BITS : i \in Good
  <2> HIDE DEF Good
  <2> QED  BY <1>0, <1>5, <1>6, UpTo
<1>8. BITS \in 0..BITS
  BY <1>0
<1>9. x[BITS] <= g[BITS] /\ x[BITS] \in Nat
  BY <1>x, <1>7, <1>8
<1> QED  BY <1>3, <1>4, <1>9 DEF Word

(* A word with itself is zero. *)
LEMMA XorSelf ==
  ASSUME NEW a \in Word
  PROVE  Xor(a, a) = 0
<1>0. BITS \in Nat /\ a \in Nat
  BY WordIs
<1>1. PICK s : s = Shifted(a)
  OBVIOUS
<1>2. s \in [0..BITS -> Nat]
  BY <1>0, <1>1, ShiftedIs
<1>4. PICK x : XorRun(x, a, a) /\ Xor(a, a) = x[BITS]
  BY <1>0, XorIs
<1>x. /\ x \in [0..BITS -> Nat] /\ x[0] = 0
      /\ \A i \in 1..BITS : x[i] = 2 * x[i - 1] + ((s[BITS - i] + s[BITS - i]) % 2)
  BY <1>1, <1>4 DEF XorRun
<1> DEFINE Good == {i \in 0..BITS : x[i] = 0}
<1>5. 0 \in Good
  BY <1>0, <1>x
<1>6. ASSUME NEW i \in 1..BITS, i - 1 \in Good PROVE i \in Good
  <2>1. i \in 0..BITS /\ i - 1 \in 0..BITS /\ BITS - i \in 0..BITS
    BY <1>0
  <2>2. s[BITS - i] \in Nat
    BY <1>2, <1>x, <2>1
  <2>3. (s[BITS - i] + s[BITS - i]) % 2 = 0
    BY <2>2
  <2>4. x[i - 1] = 0
    BY <1>6
  <2>5. x[i] = 2 * x[i - 1] + ((s[BITS - i] + s[BITS - i]) % 2)
    BY <1>x
  <2>6. x[i] = 0
    BY <2>3, <2>4, <2>5
  <2> QED  BY <2>1, <2>6
<1>7. \A i \in 0..BITS : i \in Good
  <2> HIDE DEF Good
  <2> QED  BY <1>0, <1>5, <1>6, UpTo
<1>8. BITS \in 0..BITS
  BY <1>0
<1> QED  BY <1>4, <1>7, <1>8

(* What a word and its half have to do with each other. *)
LEMMA Parity ==
  /\ \A p \in Nat : p = 2 * (p \div 2) + (p % 2) /\ p % 2 \in 0..1 /\ p \div 2 \in Nat
  /\ \A p, q, r \in Nat : (p + r) % 2 = (q + r) % 2 => p % 2 = q % 2
  /\ \A p, q \in Nat : \A c, d \in 0..1 : 2 * p + c = 2 * q + d => p = q /\ c = d
<1>1. ASSUME NEW p \in Nat
      PROVE  p = 2 * (p \div 2) + (p % 2) /\ p % 2 \in 0..1 /\ p \div 2 \in Nat
  OBVIOUS
<1>2. ASSUME NEW p \in Nat, NEW q \in Nat, NEW r \in Nat, (p + r) % 2 = (q + r) % 2
      PROVE  p % 2 = q % 2
  BY <1>2
<1>3. ASSUME NEW p \in Nat, NEW q \in Nat, NEW c \in 0..1, NEW d \in 0..1, 2 * p + c = 2 * q + d
      PROVE  p = q /\ c = d
  BY <1>3
<1> QED  BY <1>1, <1>2, <1>3

(* Words that agree in every bit are the same. *)
LEMMA SameBits ==
  ASSUME NEW a \in Word, NEW b \in Word, NEW s, s = Shifted(a), NEW t, t = Shifted(b),
         \A k \in 0..(BITS - 1) : s[k] % 2 = t[k] % 2
  PROVE  a = b
<1>0. BITS \in Nat /\ a \in Nat /\ b \in Nat
  BY WordIs
<1>1. /\ s \in [0..BITS -> Nat] /\ s[0] = a /\ s[BITS] = 0
      /\ \A i \in 1..BITS : s[i] = s[i - 1] \div 2
  BY <1>0, ShiftedIs, ShiftedOut
<1>2. /\ t \in [0..BITS -> Nat] /\ t[0] = b /\ t[BITS] = 0
      /\ \A i \in 1..BITS : t[i] = t[i - 1] \div 2
  BY <1>0, ShiftedIs, ShiftedOut
<1> DEFINE Good == {i \in 0..BITS : s[BITS - i] = t[BITS - i]}
<1>3. 0 \in Good
  BY <1>0, <1>1, <1>2
<1>4. ASSUME NEW i \in 1..BITS, i - 1 \in Good PROVE i \in Good
  <2>1. /\ i \in 0..BITS /\ BITS - i \in 0..(BITS - 1) /\ BITS - i \in 0..BITS
        /\ BITS - (i - 1) \in 1..BITS /\ (BITS - (i - 1)) - 1 = BITS - i
    BY <1>0
  <2>2. s[BITS - (i - 1)] = t[BITS - (i - 1)]
    BY <1>4
  <2>3. s[BITS - (i - 1)] = s[BITS - i] \div 2 /\ t[BITS - (i - 1)] = t[BITS - i] \div 2
    BY <1>1, <1>2, <2>1
  <2>4. s[BITS - i] % 2 = t[BITS - i] % 2 /\ s[BITS - i] \in Nat /\ t[BITS - i] \in Nat
    BY <1>1, <1>2, <2>1
  <2>5. s[BITS - i] = t[BITS - i]
    <3>1. /\ s[BITS - i] = 2 * (s[BITS - i] \div 2) + (s[BITS - i] % 2)
          /\ t[BITS - i] = 2 * (t[BITS - i] \div 2) + (t[BITS - i] % 2)
      BY <2>4, Parity
    <3>2. s[BITS - i] \div 2 = t[BITS - i] \div 2
      BY <2>2, <2>3
    <3> QED  BY <2>4, <3>1, <3>2
  <2> QED  BY <2>1, <2>5
<1>5. \A i \in 0..BITS : i \in Good
  <2> HIDE DEF Good
  <2> QED  BY <1>0, <1>3, <1>4, UpTo
<1>6. BITS \in 0..BITS /\ BITS - BITS = 0
  BY <1>0
<1>7. s[0] = t[0]
  BY <1>5, <1>6
<1> QED  BY <1>1, <1>2, <1>7

(* Xor with a fixed word tells words apart. *)
LEMMA XorInjective ==
  ASSUME NEW a \in Word, NEW b \in Word, NEW m \in Word, Xor(a, m) = Xor(b, m)
  PROVE  a = b
<1>0. BITS \in Nat /\ a \in Nat /\ b \in Nat /\ m \in Nat
  BY WordIs
<1>1. PICK s, t, w : s = Shifted(a) /\ t = Shifted(b) /\ w = Shifted(m)
  OBVIOUS
<1>2. s \in [0..BITS -> Nat] /\ t \in [0..BITS -> Nat] /\ w \in [0..BITS -> Nat]
  BY <1>0, <1>1, ShiftedIs
<1>3. PICK x : XorRun(x, a, m) /\ Xor(a, m) = x[BITS]
  BY <1>0, XorIs
<1>4. PICK y : XorRun(y, b, m) /\ Xor(b, m) = y[BITS]
  BY <1>0, XorIs
<1>x. /\ x \in [0..BITS -> Nat] /\ x[0] = 0
      /\ \A i \in 1..BITS : x[i] = 2 * x[i - 1] + ((s[BITS - i] + w[BITS - i]) % 2)
  BY <1>1, <1>3 DEF XorRun
<1>y. /\ y \in [0..BITS -> Nat] /\ y[0] = 0
      /\ \A i \in 1..BITS : y[i] = 2 * y[i - 1] + ((t[BITS - i] + w[BITS - i]) % 2)
  BY <1>1, <1>4 DEF XorRun
<1>5. ASSUME NEW k \in 0..(BITS - 1), x[BITS - k] = y[BITS - k]
      PROVE  x[BITS - (k + 1)] = y[BITS - (k + 1)] /\ s[k] % 2 = t[k] % 2
  <2>1. /\ BITS - k \in 1..BITS /\ k \in 0..BITS /\ BITS - (BITS - k) = k
        /\ (BITS - k) - 1 = BITS - (k + 1) /\ BITS - (k + 1) \in 0..BITS
    BY <1>0
  <2>2. /\ x[BITS - k] = 2 * x[BITS - (k + 1)] + ((s[k] + w[k]) % 2)
        /\ y[BITS - k] = 2 * y[BITS - (k + 1)] + ((t[k] + w[k]) % 2)
    BY <1>x, <1>y, <2>1
  <2>3. /\ s[k] \in Nat /\ t[k] \in Nat /\ w[k] \in Nat
        /\ x[BITS - (k + 1)] \in Nat /\ y[BITS - (k + 1)] \in Nat
    BY <1>2, <1>x, <1>y, <2>1
  <2>4. (s[k] + w[k]) % 2 \in 0..1 /\ (t[k] + w[k]) % 2 \in 0..1
    <3>1. s[k] + w[k] \in Nat /\ t[k] + w[k] \in Nat
      BY <2>3
    <3> QED  BY <3>1, Parity
  <2>5. x[BITS - (k + 1)] = y[BITS - (k + 1)] /\ (s[k] + w[k]) % 2 = (t[k] + w[k]) % 2
    <3>1. PICK c \in 0..1, d \in 0..1 : c = (s[k] + w[k]) % 2 /\ d = (t[k] + w[k]) % 2
      BY <2>4
    <3>2. PICK p \in Nat, q \in Nat : p = x[BITS - (k + 1)] /\ q = y[BITS - (k + 1)]
      BY <2>3
    <3>3. 2 * p + c = 2 * q + d
      BY <1>5, <2>2, <3>1, <3>2
    <3>4. p = q /\ c = d
      BY <3>3, Parity
    <3> QED  BY <3>1, <3>2, <3>4
  <2>6. s[k] % 2 = t[k] % 2
    BY <2>3, <2>5, Parity
  <2> QED  BY <2>5, <2>6
<1> DEFINE Good == {k \in 0..BITS : x[BITS - k] = y[BITS - k]}
<1>6. 0 \in Good
  <2>1. BITS - 0 = BITS /\ 0 \in 0..BITS
    BY <1>0
  <2>2. x[BITS] = y[BITS]
    BY <1>3, <1>4, Zenon
  <2> QED  BY <2>1, <2>2
<1>7. ASSUME NEW k \in 1..BITS, k - 1 \in Good PROVE k \in Good
  <2>1. k - 1 \in 0..(BITS - 1) /\ (k - 1) + 1 = k /\ k \in 0..BITS
    BY <1>0
  <2>2. x[BITS - ((k - 1) + 1)] = y[BITS - ((k - 1) + 1)]
    BY <1>5, <1>7, <2>1
  <2> QED  BY <2>1, <2>2
<1>8. \A k \in 0..BITS : k \in Good
  <2> HIDE DEF Good
  <2> QED  BY <1>0, <1>6, <1>7, UpTo
<1>9. ASSUME NEW k \in 0..(BITS - 1) PROVE s[k] % 2 = t[k] % 2
  <2>1. k \in 0..BITS
    BY <1>0
  <2> QED  BY <1>5, <1>8, <2>1
<1> QED  BY <1>1, <1>9, SameBits

(* A step of the register leads to a state that is not zero. *)
LEMMA StepStays ==
  ASSUME NEW v \in 1..LFSR_MAX
  PROVE  step(v) \in 1..LFSR_MAX
<1>0. LFSR_MAX \in Nat /\ LFSR_POLY \in 1..LFSR_MAX /\ LFSR_MAX \div 2 < LFSR_POLY
  BY WordIs, LfsrAssumption
<1>1. v \div 2 \in Nat /\ v \div 2 <= LFSR_MAX \div 2 /\ v \div 2 <= LFSR_MAX /\ LFSR_MAX \div 2 \in Nat
  BY <1>0
<1>2. v \div 2 \in Word /\ LFSR_POLY \in Word
  BY <1>0, <1>1 DEF Word
<1>3. CASE v % 2 = 1
  <2>1. step(v) = Xor(v \div 2, LFSR_POLY)
    BY <1>3 DEF step
  <2>2. step(v) \in Word
    BY <1>2, <2>1, XorWord
  <2>3. step(v) # 0
    <3> SUFFICES ASSUME step(v) = 0 PROVE FALSE
      OBVIOUS
    <3>1. Xor(v \div 2, LFSR_POLY) = Xor(LFSR_POLY, LFSR_POLY)
      BY <1>2, <2>1, XorSelf
    <3>2. v \div 2 = LFSR_POLY
      BY <1>2, <3>1, XorInjective
    <3> QED  BY <1>0, <1>1, <3>2
  <2> QED  BY <1>0, <2>2, <2>3 DEF Word
<1>4. CASE v % 2 # 1
  <2>1. step(v) = v \div 2
    BY <1>4 DEF step
  <2>2. v \div 2 > 0
    BY <1>0, <1>4
  <2> QED  BY <1>0, <1>1, <2>1, <2>2
<1> QED  BY <1>3, <1>4

(* The states of the register from one on. *)
LEMMA OrbitIs ==
  ASSUME NEW a \in 1..LFSR_MAX
  PROVE  /\ Orbit(a) \in [0..LFSR_MAX -> 1..LFSR_MAX] /\ Orbit(a)[0] = a
         /\ \A i \in 1..LFSR_MAX : Orbit(a)[i] = step(Orbit(a)[i - 1])
<1>0. LFSR_MAX \in Nat
  BY WordIs
<1> DEFINE F == [i \in 1..LFSR_MAX |-> [v \in 1..LFSR_MAX |-> step(v)]]
           Is(g) == g = [i \in 0..LFSR_MAX |-> IF i = 0 THEN a ELSE step(g[i - 1])]
<1>1. \A i \in 1..LFSR_MAX : \A v \in 1..LFSR_MAX : F[i][v] \in 1..LFSR_MAX /\ F[i][v] = step(v)
  BY StepStays
<1> HIDE DEF F
<1>2. PICK f : Runs(f, LFSR_MAX, a, F, 1..LFSR_MAX)
  <2>1. Stays(LFSR_MAX, F, 1..LFSR_MAX)
    BY <1>1 DEF Stays
  <2> QED  BY <1>0, <2>1, RecursIn
<1>3. \A i \in 1..LFSR_MAX : i - 1 \in 0..LFSR_MAX /\ f[i - 1] \in 1..LFSR_MAX /\ f[i] = step(f[i - 1])
  <2> TAKE i \in 1..LFSR_MAX
  <2>1. i - 1 \in 0..LFSR_MAX
    BY <1>0
  <2>2. f[i - 1] \in 1..LFSR_MAX
    BY <1>2, <2>1 DEF Runs
  <2> QED  BY <1>1, <1>2, <2>1, <2>2 DEF Runs
<1>4. Is(f)
  <2>1. \A i \in 0..LFSR_MAX : i = 0 \/ i \in 1..LFSR_MAX
    BY <1>0
  <2>2. f = [i \in 0..LFSR_MAX |-> f[i]]
    BY <1>2 DEF Runs
  <2>3. f[0] = a
    BY <1>2 DEF Runs
  <2> QED  BY <1>3, <2>1, <2>2, <2>3
<1> DEFINE g == CHOOSE h : Is(h)
<1>5. Orbit(a) = g
  BY DEF Orbit
<1>6. Is(g)
  BY <1>4
<1> HIDE DEF g
<1>7. g[0] = a /\ \A i \in 1..LFSR_MAX : g[i] = step(g[i - 1])
  <2>1. \A i \in 0..LFSR_MAX : g[i] = IF i = 0 THEN a ELSE step(g[i - 1])
    BY ONLY <1>6
  <2>2. 0 \in 0..LFSR_MAX /\ \A i \in 1..LFSR_MAX : i \in 0..LFSR_MAX /\ i # 0
    BY <1>0
  <2> QED  BY <2>1, <2>2
<1> DEFINE Good == {i \in 0..LFSR_MAX : g[i] \in 1..LFSR_MAX}
<1>8. 0 \in Good /\ \A i \in 1..LFSR_MAX : i - 1 \in Good => i \in Good
  <2>1. 0 \in Good
    BY <1>0, <1>7
  <2>2. ASSUME NEW i \in 1..LFSR_MAX, i - 1 \in Good PROVE i \in Good
    <3>1. g[i] = step(g[i - 1]) /\ g[i - 1] \in 1..LFSR_MAX /\ i \in 0..LFSR_MAX
      BY <1>0, <1>7, <2>2
    <3>2. g[i] \in 1..LFSR_MAX
      BY <1>1, <3>1
    <3> QED  BY <3>1, <3>2
  <2> QED  BY <2>1, <2>2
<1>9. \A i \in 0..LFSR_MAX : i \in Good
  <2> HIDE DEF Good, Is
  <2> QED  BY <1>0, <1>8, UpTo
<1>10. g \in [0..LFSR_MAX -> 1..LFSR_MAX]
  <2>1. g = [i \in 0..LFSR_MAX |-> g[i]]
    BY ONLY <1>6
  <2> HIDE DEF Is
  <2> QED  BY <1>9, <2>1
<1> QED  BY <1>5, <1>7, <1>10

(* What follows a state of an orbit is its own orbit. *)
LEMMA OrbitFrom ==
  ASSUME NEW a \in 1..LFSR_MAX, NEW m \in 0..LFSR_MAX, NEW n \in 0..LFSR_MAX, m + n <= LFSR_MAX
  PROVE  Orbit(Orbit(a)[m])[n] = Orbit(a)[m + n]
<1>0. LFSR_MAX \in Nat
  BY WordIs
<1>1. PICK o : o = Orbit(a)
  OBVIOUS
<1>2. /\ o \in [0..LFSR_MAX -> 1..LFSR_MAX]
      /\ \A i \in 1..LFSR_MAX : o[i] = step(o[i - 1])
  BY <1>1, OrbitIs
<1>3. PICK b \in 1..LFSR_MAX : b = o[m]
  BY <1>2
<1>4. PICK r : r = Orbit(b)
  OBVIOUS
<1>5. /\ r \in [0..LFSR_MAX -> 1..LFSR_MAX] /\ r[0] = b
      /\ \A i \in 1..LFSR_MAX : r[i] = step(r[i - 1])
  BY <1>4, OrbitIs
<1> DEFINE Good == {i \in 0..n : r[i] = o[m + i]}
<1>6. 0 \in Good
  BY <1>0, <1>3, <1>5
<1>7. ASSUME NEW i \in 1..n, i - 1 \in Good PROVE i \in Good
  <2>1. /\ i \in 0..n /\ i \in 1..LFSR_MAX /\ m + i \in 1..LFSR_MAX
        /\ (m + i) - 1 = m + (i - 1)
    BY <1>0
  <2>2. r[i - 1] = o[m + (i - 1)]
    BY <1>7
  <2>3. r[i] = step(r[i - 1]) /\ o[m + i] = step(o[m + (i - 1)])
    BY <1>2, <1>5, <2>1
  <2> QED  BY <2>1, <2>2, <2>3
<1>8. \A i \in 0..n : i \in Good
  <2> HIDE DEF Good
  <2> QED  BY <1>0, <1>6, <1>7, UpTo
<1>9. n \in 0..n
  BY <1>0
<1> QED  BY <1>1, <1>3, <1>4, <1>8, <1>9

(* No state occurs twice in the first LFSR_MAX. *)
LEMMA OrbitDistinct ==
  ASSUME NEW a \in 1..LFSR_MAX, NEW m \in 0..(LFSR_MAX - 1), NEW n \in 0..(LFSR_MAX - 1), m < n
  PROVE  Orbit(a)[m] # Orbit(a)[n]
<1>0. LFSR_MAX \in Nat
  BY WordIs
<1>1. m \in 0..LFSR_MAX /\ n - m \in 0..LFSR_MAX /\ n - m \in 1..(LFSR_MAX - 1) /\ m + (n - m) = n
      /\ m + (n - m) <= LFSR_MAX
  BY <1>0
<1>2. PICK b \in 1..LFSR_MAX : b = Orbit(a)[m]
  BY <1>1, OrbitIs
<1>3. Orbit(b)[n - m] = Orbit(a)[n]
  BY <1>1, <1>2, OrbitFrom
<1>4. Orbit(b)[n - m] # b
  BY <1>1, PeriodAssumption
<1> QED  BY <1>2, <1>3, <1>4

(* The index that the generator makes of a state. *)
IndexOf(v, m) == IF Xor(v - 1, m) = 0 THEN Xor(LFSR_MAX, m) ELSE Xor(v - 1, m)

(* It is not zero. *)
LEMMA IndexFits ==
  ASSUME NEW v \in 1..LFSR_MAX, NEW m \in 1..LFSR_MAX
  PROVE  IndexOf(v, m) \in 1..LFSR_MAX
<1>0. LFSR_MAX \in Nat /\ v - 1 \in Word /\ m \in Word /\ LFSR_MAX \in Word /\ v - 1 # LFSR_MAX
  BY WordIs DEF Word
<1>1. IndexOf(v, m) \in Word
  BY <1>0, XorWord DEF IndexOf
<1>2. IndexOf(v, m) # 0
  <2> SUFFICES ASSUME Xor(v - 1, m) = 0, Xor(LFSR_MAX, m) = 0 PROVE FALSE
    BY DEF IndexOf
  <2>1. Xor(v - 1, m) = Xor(LFSR_MAX, m)
    OBVIOUS
  <2> QED  BY <1>0, <2>1, XorInjective
<1> QED  BY <1>0, <1>1, <1>2 DEF Word

(* It is another one for every state. *)
LEMMA IndexDistinct ==
  ASSUME NEW v \in 1..LFSR_MAX, NEW w \in 1..LFSR_MAX, NEW m \in 1..LFSR_MAX, v # w
  PROVE  IndexOf(v, m) # IndexOf(w, m)
<1>0. /\ LFSR_MAX \in Nat /\ m \in Word /\ LFSR_MAX \in Word
      /\ v - 1 \in Word /\ v - 1 # LFSR_MAX /\ w - 1 \in Word /\ w - 1 # LFSR_MAX
      /\ v - 1 # w - 1
  BY WordIs DEF Word
<1>1. /\ Xor(v - 1, m) # Xor(w - 1, m) /\ Xor(v - 1, m) # Xor(LFSR_MAX, m)
      /\ Xor(w - 1, m) # Xor(LFSR_MAX, m)
  BY <1>0, XorInjective
<1> QED  BY <1>1 DEF IndexOf
-----------------------------------------------------------------------------
(* The generator after k draws is at the k-th state of the orbit of its     *)
(* seed, and has handed out the indexes of the states before.               *)
DrewFrom(seed) ==
  /\ gen = [lfsr |-> Orbit(seed)[LFSR_MAX - gen.remaining],
            remaining |-> gen.remaining, mask |-> gen.mask]
  /\ gen.remaining \in 0..LFSR_MAX /\ gen.mask \in 1..LFSR_MAX
  /\ drawn = {IndexOf(Orbit(seed)[n], gen.mask) : n \in 0..(LFSR_MAX - gen.remaining - 1)}
  /\ IsFiniteSet(drawn) /\ Cardinality(drawn) = LFSR_MAX - gen.remaining

GenInv == \E seed \in 1..LFSR_MAX : DrewFrom(seed)

(* Nothing is drawn at first. *)
LEMMA InitGen == Init => GenInv
<1> SUFFICES ASSUME Init PROVE GenInv
  OBVIOUS
<1>0. LFSR_MAX \in Nat /\ LFSR_MAX > 0
  BY WordIs
<1>1. PICK seed \in RandomIndexes, mask \in RandomIndexes :
        gen = [lfsr |-> seed, remaining |-> LFSR_MAX, mask |-> mask]
  BY DEF Init, Initialized
<1>2. seed \in 1..LFSR_MAX /\ mask \in 1..LFSR_MAX
  BY LfsrAssumption
<1>3. Orbit(seed)[0] = seed
  BY <1>2, OrbitIs
<1>4. drawn = {} /\ IsFiniteSet({}) /\ Cardinality({}) = 0
  BY FS_EmptySet DEF Init
<1>5. LFSR_MAX - LFSR_MAX = 0 /\ 0..(0 - 1) = {} /\ LFSR_MAX \in 0..LFSR_MAX
  BY <1>0
<1>6. gen.remaining = LFSR_MAX /\ gen.mask = mask
  BY <1>1
<1>7. gen = [lfsr |-> Orbit(seed)[LFSR_MAX - gen.remaining],
             remaining |-> gen.remaining, mask |-> gen.mask]
  BY <1>1, <1>3, <1>5, <1>6
<1>8. drawn = {IndexOf(Orbit(seed)[n], gen.mask) : n \in 0..(LFSR_MAX - gen.remaining - 1)}
  BY <1>4, <1>5, <1>6
<1>9. DrewFrom(seed)
  BY <1>2, <1>4, <1>5, <1>6, <1>7, <1>8 DEF DrewFrom
<1> QED  BY <1>2, <1>9 DEF GenInv

(* The next index is a new one. *)
LEMMA DrawKeepsGen ==
  ASSUME GenInv, CanDraw(gen), gen' = Drawn(gen), drawn' = drawn \cup {new_index(gen)}
  PROVE  GenInv'
<1>0. LFSR_MAX \in Nat /\ LFSR_MAX > 0
  BY WordIs
<1>1. PICK seed \in 1..LFSR_MAX : DrewFrom(seed)
  BY DEF GenInv
<1>2. PICK o : o = Orbit(seed)
  OBVIOUS
<1>3. /\ o \in [0..LFSR_MAX -> 1..LFSR_MAX]
      /\ \A i \in 1..LFSR_MAX : o[i] = step(o[i - 1])
  BY <1>2, OrbitIs
<1>4. PICK k, left, mask : k = LFSR_MAX - left /\ left = gen.remaining /\ mask = gen.mask
  OBVIOUS
<1>5. /\ gen = [lfsr |-> o[k], remaining |-> left, mask |-> mask]
      /\ left \in 0..LFSR_MAX /\ mask \in 1..LFSR_MAX
      /\ drawn = {IndexOf(o[n], mask) : n \in 0..(k - 1)}
      /\ IsFiniteSet(drawn) /\ Cardinality(drawn) = k
  BY <1>1, <1>2, <1>4 DEF DrewFrom
<1>6. left > 0
  BY <1>4 DEF CanDraw
<1>7. /\ k \in 0..(LFSR_MAX - 1) /\ k \in 0..LFSR_MAX /\ k + 1 \in 1..LFSR_MAX /\ (k + 1) - 1 = k
      /\ k + 1 = LFSR_MAX - (left - 1) /\ left - 1 \in 0..LFSR_MAX
  BY <1>0, <1>4, <1>5, <1>6
<1>8. new_index(gen) = IndexOf(o[k], mask)
  BY <1>5 DEF new_index, IndexOf
<1>9. gen' = [lfsr |-> o[k + 1], remaining |-> left - 1, mask |-> mask]
  <2>1. gen' = [lfsr |-> step(o[k]), remaining |-> left - 1, mask |-> mask]
    BY <1>5 DEF Drawn
  <2>2. o[k + 1] = step(o[k])
    BY <1>3, <1>7
  <2> QED  BY <2>1, <2>2
<1>10. drawn' = {IndexOf(o[n], mask) : n \in 0..((k + 1) - 1)}
  <2>1. \A n : n \in 0..((k + 1) - 1) <=> n \in 0..(k - 1) \/ n = k
    BY <1>7
  <2> QED  BY <1>5, <1>8, <2>1
<1>11. new_index(gen) \notin drawn
  <2> SUFFICES ASSUME NEW n \in 0..(k - 1), IndexOf(o[k], mask) = IndexOf(o[n], mask) PROVE FALSE
    BY <1>5, <1>8
  <2>1. n \in 0..(LFSR_MAX - 1) /\ n \in 0..LFSR_MAX /\ n < k
    BY <1>0, <1>7
  <2>2. o[n] # o[k]
    BY <1>2, <1>7, <2>1, OrbitDistinct
  <2>3. o[n] \in 1..LFSR_MAX /\ o[k] \in 1..LFSR_MAX
    BY <1>3, <1>7, <2>1
  <2> QED  BY <1>5, <2>2, <2>3, IndexDistinct
<1>12. IsFiniteSet(drawn') /\ Cardinality(drawn') = k + 1
  BY <1>5, <1>11, FS_AddElement
<1>13. gen'.remaining = left - 1 /\ gen'.mask = mask
  BY <1>9
<1>14. DrewFrom(seed)'
  <2>1. /\ gen' = [lfsr |-> Orbit(seed)[LFSR_MAX - gen'.remaining],
                   remaining |-> gen'.remaining, mask |-> gen'.mask]
        /\ gen'.remaining \in 0..LFSR_MAX /\ gen'.mask \in 1..LFSR_MAX
    BY <1>2, <1>5, <1>7, <1>9, <1>13
  <2>2. drawn' = {IndexOf(Orbit(seed)[n], gen'.mask) : n \in 0..(LFSR_MAX - gen'.remaining - 1)}
    BY <1>2, <1>7, <1>10, <1>13
  <2>3. Cardinality(drawn') = LFSR_MAX - gen'.remaining
    BY <1>7, <1>12, <1>13
  <2> QED  BY <1>12, <2>1, <2>2, <2>3 DEF DrewFrom
<1> QED  BY <1>14 DEF GenInv

(* Only a command for a new peer draws an index. *)
LEMMA NextKeepsGen == GenInv /\ [Next]_vars => GenInv'
<1> SUFFICES ASSUME GenInv, [Next]_vars PROVE GenInv'
  OBVIOUS
<1>1. CASE UNCHANGED <<gen, drawn>>
  BY <1>1 DEF GenInv, DrewFrom
<1>2. ASSUME NEW c \in Caller, Call(c) \/ Lock(c) \/ submit(c) \/ wait_next(c) \/ Cancel(c)
      PROVE  UNCHANGED <<gen, drawn>>
  BY <1>2 DEF Call, Lock, Locked, submit, wait_next, Cancel, device
<1>3. CASE Arrive \/ Serve \/ receive_command \/ UNCHANGED vars
  BY <1>1, <1>3 DEF Arrive, Serve, receive_command, vars, device
<1>4. ASSUME NEW c \in Command, handle_peer_update(c) PROVE GenInv'
  <2>1. CASE Draws(c)
    <3>1. CanDraw(gen) /\ gen' = Drawn(gen) /\ drawn' = drawn \cup {new_index(gen)}
      BY <1>4, <2>1 DEF handle_peer_update
    <3> QED  BY <3>1, DrawKeepsGen
  <2>2. CASE ~Draws(c)
    <3>1. UNCHANGED <<gen, drawn>>
      BY <1>4, <2>2 DEF handle_peer_update
    <3> QED  BY <1>1, <3>1
  <2> QED  BY <2>1, <2>2
<1>5. ASSUME NEW c \in Command, Panic(c) PROVE GenInv'
  BY <1>1, <1>5 DEF Panic, Gone
<1>6. CASE Drop
  BY <1>1, <1>6 DEF Drop, Gone
<1> QED  BY <1>1, <1>2, <1>3, <1>4, <1>5, <1>6 DEF Next

(* So as many indexes are out as were drawn, none of them zero. *)
LEMMA GenImpliesUnique == GenInv => IndexesAreUnique
<1> SUFFICES ASSUME GenInv PROVE IndexesAreUnique
  OBVIOUS
<1>0. LFSR_MAX \in Nat
  BY WordIs
<1>1. PICK seed \in 1..LFSR_MAX : DrewFrom(seed)
  BY DEF GenInv
<1>2. ASSUME NEW i \in drawn PROVE i \in 1..LFSR_MAX
  <2>1. PICK n \in 0..(LFSR_MAX - gen.remaining - 1) : i = IndexOf(Orbit(seed)[n], gen.mask)
    BY <1>1 DEF DrewFrom
  <2>2. gen.remaining \in 0..LFSR_MAX /\ gen.mask \in 1..LFSR_MAX
    BY <1>1 DEF DrewFrom
  <2>3. n \in 0..LFSR_MAX
    BY <1>0, <2>2
  <2>4. Orbit(seed)[n] \in 1..LFSR_MAX
    BY <2>3, OrbitIs
  <2> QED  BY <2>1, <2>2, <2>4, IndexFits
<1> QED  BY <1>1, <1>2 DEF DrewFrom, IndexesAreUnique

(* Whatever seed and mask the generator starts with, no index is zero and   *)
(* none is handed out twice, for any width and any polynomial of full       *)
(* period (IndexGenerator::new_index, step).                                *)
THEOREM IndexesAlwaysUnique == Spec => []IndexesAreUnique
<1>1. Spec => []GenInv
  BY InitGen, NextKeepsGen, PTL DEF Spec
<1> QED  BY <1>1, GenImpliesUnique, PTL
-----------------------------------------------------------------------------
(* The three maps of a peer table, whose indexes come from used. *)
PeersOk(t, used) ==
  /\ IsFiniteSet(Keys(t)) /\ Cardinality(Keys(t)) <= MAX_PEERS
  /\ t.peers \in [Keys(t) -> [index : used, allowed_ips : SUBSET Net]]
  /\ \A k, l \in Keys(t) : t.peers[k].index = t.peers[l].index => k = l

IndexesOk(t) ==
  /\ t.by_idx = [i \in DOMAIN t.by_idx |-> t.by_idx[i]]
  /\ DOMAIN t.by_idx = {t.peers[k].index : k \in Keys(t)}
  /\ \A k \in Keys(t) : t.by_idx[t.peers[k].index] = k

RoutesOk(t) ==
  /\ \A k \in Keys(t) : t.peers[k].allowed_ips = {pfx \in DOMAIN t.by_ip : t.by_ip[pfx] = k}
  /\ \A pfx \in DOMAIN t.by_ip : t.by_ip[pfx] \in Keys(t)
  /\ \A m, n \in DOMAIN t.by_ip : m # n => m \cap n = {}

TableInv ==
  /\ table \in [peers : {table.peers}, by_idx : {table.by_idx}, by_ip : {table.by_ip}]
  /\ PeersOk(table, drawn) /\ IndexesOk(table) /\ RoutesOk(table)
  /\ gen \in [lfsr : {gen.lfsr}, remaining : Int, mask : {gen.mask}]
-----------------------------------------------------------------------------
(* A rebuilt table names the one owner of every prefix. *)
LEMMA RebuiltNamesOwners ==
  ASSUME NEW t, NEW used, PeersOk(t, used), NEW key, NEW ips \in SUBSET Net, ~Overlap(t, key, ips),
         NEW f, f = rebuilt_peers_by_ip_with(t, key, ips)
  PROVE  /\ \A pfx \in ips : pfx \in DOMAIN f /\ f[pfx] = key
         /\ \A k \in Keys(t) \ {key} : \A pfx \in t.peers[k].allowed_ips : pfx \in DOMAIN f /\ f[pfx] = k
         /\ \A pfx \in DOMAIN f : \/ f[pfx] = key /\ pfx \in ips
                                  \/ /\ f[pfx] \in Keys(t) \ {key}
                                     /\ pfx \in t.peers[f[pfx]].allowed_ips
         /\ \A m, n \in DOMAIN f : m # n => m \cap n = {}
<1> DEFINE R == Routes(t, key, ips)
<1>1. \A k \in Keys(t) : t.peers[k].allowed_ips \subseteq Net
  BY DEF PeersOk
<1>2. \A r \in R : /\ r = <<r[1], r[2]>> /\ r[1] \in Net
                   /\ \/ r[2] = key /\ r[1] \in ips
                      \/ r[2] \in Keys(t) \ {key} /\ r[1] \in t.peers[r[2]].allowed_ips
  BY <1>1 DEF Routes
<1>3. /\ \A pfx \in ips : <<pfx, key>> \in R
      /\ \A k \in Keys(t) \ {key} : \A pfx \in t.peers[k].allowed_ips : <<pfx, k>> \in R
  BY DEF Routes
<1>4. \A r, s \in R : r # s => r[1] \cap s[1] = {}
  BY DEF Overlap
<1>5. f = [pfx \in {r[1] : r \in R} |-> (CHOOSE r \in R : r[1] = pfx)[2]]
  BY DEF rebuilt_peers_by_ip_with
<1> HIDE DEF R
<1>6. \A r, s \in R : r[1] = s[1] => r = s
  <2> SUFFICES ASSUME NEW r \in R, NEW s \in R, r[1] = s[1], r # s PROVE FALSE
    OBVIOUS
  <2>1. r[1] \cap r[1] = {} /\ r[1] \in Net
    BY <1>2, <1>4
  <2>2. r[1] = {}
    BY <2>1
  <2> QED  BY <2>1, <2>2, CommandAssumption
<1>7. DOMAIN f = {r[1] : r \in R}
  BY <1>5
<1>8. ASSUME NEW r \in R PROVE r[1] \in DOMAIN f /\ f[r[1]] = r[2]
  <2>1. r = CHOOSE s \in R : s[1] = r[1]
    BY <1>6
  <2> QED  BY <1>5, <1>7, <2>1
<1>9. /\ \A pfx \in ips : pfx \in DOMAIN f /\ f[pfx] = key
      /\ \A k \in Keys(t) \ {key} : \A pfx \in t.peers[k].allowed_ips : pfx \in DOMAIN f /\ f[pfx] = k
  BY <1>3, <1>8
<1>10. \A pfx \in DOMAIN f : \E r \in R : pfx = r[1] /\ f[pfx] = r[2]
  BY <1>7, <1>8
<1>11. \A m, n \in DOMAIN f : m # n => m \cap n = {}
  BY <1>4, <1>7
<1> QED  BY <1>2, <1>9, <1>10, <1>11

(* add_peer_to_state puts a peer with a new index and prefixes of its own   *)
(* into a table that has room.                                              *)
LEMMA AddedPeerFits ==
  ASSUME NEW used, NEW t, PeersOk(t, used), IndexesOk(t), RoutesOk(t),
         NEW key, key \notin Keys(t), NEW ips \in SUBSET Net, ~Overlap(t, key, ips),
         ~(Cardinality(Keys(t)) >= MAX_PEERS), NEW index, index \notin used,
         NEW u, u = WithPeer(t, key, index, ips)
  PROVE  PeersOk(u, used \cup {index}) /\ IndexesOk(u) /\ RoutesOk(u)
<1>1. u.by_ip = rebuilt_peers_by_ip_with(t, key, ips)
  BY DEF WithPeer
<1>2. /\ u.peers = [k \in Keys(t) \cup {key} |->
                      IF k = key THEN [index |-> index, allowed_ips |-> ips] ELSE t.peers[k]]
      /\ u.by_idx = [i \in DOMAIN t.by_idx \cup {index} |-> IF i = index THEN key ELSE t.by_idx[i]]
  BY DEF WithPeer
<1>3. Keys(u) = Keys(t) \cup {key}
  BY <1>2 DEF Keys
<1>4. /\ u.peers[key].index = index /\ u.peers[key].allowed_ips = ips
      /\ \A k \in Keys(t) : u.peers[k] = t.peers[k] /\ u.peers[k].index \in used
  BY <1>2 DEF PeersOk
<1>5. PeersOk(u, used \cup {index})
  <2>1. IsFiniteSet(Keys(u)) /\ Cardinality(Keys(u)) = Cardinality(Keys(t)) + 1
    BY <1>3, FS_AddElement DEF PeersOk
  <2>2. Cardinality(Keys(t)) \in Nat /\ MAX_PEERS \in Nat
    BY FS_CardinalityType, CommandAssumption DEF PeersOk
  <2>3. Cardinality(Keys(u)) <= MAX_PEERS
    BY <2>1, <2>2
  <2>4. u.peers \in [Keys(u) -> [index : used \cup {index}, allowed_ips : SUBSET Net]]
    <3>1. \A k \in Keys(u) : u.peers[k] \in [index : used \cup {index}, allowed_ips : SUBSET Net]
      BY <1>2, <1>3, <1>4 DEF PeersOk
    <3> QED  BY <1>2, <1>3, <3>1
  <2>5. \A k, l \in Keys(u) : u.peers[k].index = u.peers[l].index => k = l
    BY <1>3, <1>4 DEF PeersOk
  <2> QED  BY <2>1, <2>3, <2>4, <2>5 DEF PeersOk
<1>6. IndexesOk(u)
  <2>1. DOMAIN u.by_idx = {index} \cup DOMAIN t.by_idx
    BY <1>2
  <2>2. DOMAIN u.by_idx = {u.peers[k].index : k \in Keys(u)}
    BY <1>3, <1>4, <2>1 DEF IndexesOk
  <2>3. u.by_idx = [i \in DOMAIN u.by_idx |-> u.by_idx[i]]
    BY <1>2
  <2>4. \A k \in Keys(u) : u.by_idx[u.peers[k].index] = k
    BY <1>2, <1>3, <1>4 DEF IndexesOk
  <2> QED  BY <2>2, <2>3, <2>4 DEF IndexesOk
<1>7. RoutesOk(u)
  <2>1. PICK f : f = rebuilt_peers_by_ip_with(t, key, ips)
    OBVIOUS
  <2>2. /\ \A pfx \in ips : pfx \in DOMAIN f /\ f[pfx] = key
        /\ \A k \in Keys(t) \ {key} : \A pfx \in t.peers[k].allowed_ips : pfx \in DOMAIN f /\ f[pfx] = k
        /\ \A pfx \in DOMAIN f : \/ f[pfx] = key /\ pfx \in ips
                                 \/ /\ f[pfx] \in Keys(t) \ {key}
                                    /\ pfx \in t.peers[f[pfx]].allowed_ips
        /\ \A m, n \in DOMAIN f : m # n => m \cap n = {}
    BY <2>1, RebuiltNamesOwners
  <2>3. u.by_ip = f
    BY <1>1, <2>1
  <2>4. \A k \in Keys(u) : u.peers[k].allowed_ips = {pfx \in DOMAIN f : f[pfx] = k}
    BY <1>3, <1>4, <2>2
  <2>5. \A pfx \in DOMAIN f : f[pfx] \in Keys(u)
    BY <1>3, <2>2
  <2> QED  BY <2>2, <2>3, <2>4, <2>5 DEF RoutesOk
<1> QED  BY <1>5, <1>6, <1>7

(* update_peer_in_state gives a peer other prefixes and nothing else. *)
LEMMA UpdatedRoutesFit ==
  ASSUME NEW used, NEW t, PeersOk(t, used), IndexesOk(t), RoutesOk(t),
         t \in [peers : {t.peers}, by_idx : {t.by_idx}, by_ip : {t.by_ip}],
         NEW key \in Keys(t), NEW ips \in SUBSET Net, ~Overlap(t, key, ips),
         NEW u, u = WithRoutes(t, key, ips)
  PROVE  PeersOk(u, used) /\ IndexesOk(u) /\ RoutesOk(u)
<1>1. PICK f : f = rebuilt_peers_by_ip_with(t, key, ips)
  OBVIOUS
<1>2. u = [t EXCEPT !.peers[key].allowed_ips = ips, !.by_ip = f]
  BY <1>1 DEF WithRoutes
<1>3. /\ u.by_idx = t.by_idx /\ u.by_ip = f
      /\ u.peers = [t.peers EXCEPT ![key].allowed_ips = ips]
  BY <1>2
<1>4. /\ Keys(u) = Keys(t) /\ u.peers = [k \in Keys(t) |-> u.peers[k]]
      /\ \A k \in Keys(t) \ {key} : u.peers[k] = t.peers[k]
      /\ u.peers[key] = [t.peers[key] EXCEPT !.allowed_ips = ips]
  BY <1>3 DEF PeersOk, Keys
<1>5. /\ \A k \in Keys(t) : u.peers[k].index = t.peers[k].index
      /\ u.peers[key].allowed_ips = ips
      /\ \A k \in Keys(t) : u.peers[k] \in [index : used, allowed_ips : SUBSET Net]
  BY <1>4 DEF PeersOk
<1>6. PeersOk(u, used)
  <2>1. u.peers \in [Keys(u) -> [index : used, allowed_ips : SUBSET Net]]
    BY <1>4, <1>5
  <2> QED  BY <1>4, <1>5, <2>1 DEF PeersOk
<1>7. IndexesOk(u)
  BY <1>3, <1>4, <1>5 DEF IndexesOk
<1>8. RoutesOk(u)
  <2>1. /\ \A pfx \in ips : pfx \in DOMAIN f /\ f[pfx] = key
        /\ \A k \in Keys(t) \ {key} : \A pfx \in t.peers[k].allowed_ips : pfx \in DOMAIN f /\ f[pfx] = k
        /\ \A pfx \in DOMAIN f : \/ f[pfx] = key /\ pfx \in ips
                                 \/ /\ f[pfx] \in Keys(t) \ {key}
                                    /\ pfx \in t.peers[f[pfx]].allowed_ips
        /\ \A m, n \in DOMAIN f : m # n => m \cap n = {}
    BY <1>1, RebuiltNamesOwners
  <2>2. \A k \in Keys(u) : u.peers[k].allowed_ips = {pfx \in DOMAIN f : f[pfx] = k}
    BY <1>4, <1>5, <2>1
  <2>3. \A pfx \in DOMAIN f : f[pfx] \in Keys(u)
    BY <1>4, <2>1
  <2> QED  BY <1>3, <2>1, <2>2, <2>3 DEF RoutesOk
<1> QED  BY <1>6, <1>7, <1>8

(* remove_peer_from_state takes a peer out of all three maps. *)
LEMMA RemovedPeerLeaves ==
  ASSUME NEW used, NEW t, PeersOk(t, used), IndexesOk(t), RoutesOk(t),
         NEW key \in Keys(t), NEW u, u = WithoutPeer(t, key)
  PROVE  PeersOk(u, used) /\ IndexesOk(u) /\ RoutesOk(u)
<1>1. /\ u.peers = [k \in Keys(t) \ {key} |-> t.peers[k]]
      /\ u.by_idx = [i \in DOMAIN t.by_idx \ {t.peers[key].index} |-> t.by_idx[i]]
      /\ u.by_ip = [pfx \in {n \in DOMAIN t.by_ip : t.by_ip[n] # key} |-> t.by_ip[pfx]]
  BY DEF WithoutPeer, Restrict
<1>2. /\ Keys(u) = Keys(t) \ {key} /\ \A k \in Keys(u) : u.peers[k] = t.peers[k]
  BY <1>1 DEF Keys
<1>3. PeersOk(u, used)
  <2>1. IsFiniteSet(Keys(u)) /\ Cardinality(Keys(u)) = Cardinality(Keys(t)) - 1
    BY <1>2, FS_RemoveElement DEF PeersOk
  <2>2. Cardinality(Keys(t)) \in Nat /\ MAX_PEERS \in Nat
    BY FS_CardinalityType, CommandAssumption DEF PeersOk
  <2>3. Cardinality(Keys(u)) <= MAX_PEERS
    BY <2>1, <2>2 DEF PeersOk
  <2>4. u.peers \in [Keys(u) -> [index : used, allowed_ips : SUBSET Net]]
    BY <1>1, <1>2 DEF PeersOk
  <2> QED  BY <1>2, <2>1, <2>3, <2>4 DEF PeersOk
<1>4. IndexesOk(u)
  <2>1. DOMAIN u.by_idx = DOMAIN t.by_idx \ {t.peers[key].index}
    BY <1>1
  <2>2. \A k \in Keys(u) : u.peers[k].index # t.peers[key].index
    BY <1>2 DEF PeersOk
  <2>3. DOMAIN u.by_idx = {u.peers[k].index : k \in Keys(u)}
    BY <1>2, <2>1, <2>2 DEF IndexesOk
  <2>4. u.by_idx = [i \in DOMAIN u.by_idx |-> u.by_idx[i]]
    BY <1>1
  <2>5. \A k \in Keys(u) : u.by_idx[u.peers[k].index] = k
    BY <1>1, <1>2, <2>1, <2>2, <2>3 DEF IndexesOk
  <2> QED  BY <2>3, <2>4, <2>5 DEF IndexesOk
<1>5. RoutesOk(u)
  <2>1. /\ DOMAIN u.by_ip = {n \in DOMAIN t.by_ip : t.by_ip[n] # key}
        /\ \A pfx \in DOMAIN u.by_ip : u.by_ip[pfx] = t.by_ip[pfx]
    BY <1>1
  <2>2. \A k \in Keys(u) : u.peers[k].allowed_ips = {pfx \in DOMAIN u.by_ip : u.by_ip[pfx] = k}
    BY <1>2, <2>1 DEF RoutesOk
  <2>3. \A pfx \in DOMAIN u.by_ip : u.by_ip[pfx] \in Keys(u)
    BY <1>2, <2>1 DEF RoutesOk
  <2>4. \A m, n \in DOMAIN u.by_ip : m # n => m \cap n = {}
    BY <2>1 DEF RoutesOk
  <2> QED  BY <2>2, <2>3, <2>4 DEF RoutesOk
<1> QED  BY <1>3, <1>4, <1>5

(* A larger stock of used indexes does no harm. *)
LEMMA MoreUsed ==
  ASSUME NEW t, NEW used, NEW more, used \subseteq more, PeersOk(t, used)
  PROVE  PeersOk(t, more)
  BY DEF PeersOk

LEMMA EmptyFits ==
  ASSUME NEW used
  PROVE  PeersOk(EmptyTable, used) /\ IndexesOk(EmptyTable) /\ RoutesOk(EmptyTable)
<1>1. /\ EmptyTable.peers = <<>> /\ EmptyTable.by_idx = <<>> /\ EmptyTable.by_ip = <<>>
  BY DEF EmptyTable
<1>2. DOMAIN <<>> = {} /\ <<>> = [i \in {} |-> i]
  OBVIOUS
<1>3. Keys(EmptyTable) = {}
  BY <1>1, <1>2 DEF Keys
<1>4. PeersOk(EmptyTable, used)
  <2>1. IsFiniteSet({}) /\ Cardinality({}) <= MAX_PEERS
    BY FS_EmptySet, CommandAssumption
  <2>2. <<>> \in [{} -> [index : used, allowed_ips : SUBSET Net]]
    BY <1>2
  <2> QED  BY <1>1, <1>3, <2>1, <2>2 DEF PeersOk
<1>5. IndexesOk(EmptyTable) /\ RoutesOk(EmptyTable)
  BY <1>1, <1>2, <1>3 DEF IndexesOk, RoutesOk
<1> QED  BY <1>4, <1>5
-----------------------------------------------------------------------------
(* TableInv is inductive as long as no index is drawn twice. *)

IsTable(t) == t \in [peers : {t.peers}, by_idx : {t.by_idx}, by_ip : {t.by_ip}]

(* A drawn index is new: the number of drawn ones grows. *)
LEMMA DrawnIsNew ==
  ASSUME IndexesAreUnique, IndexesAreUnique', gen.remaining \in Int,
         gen' = Drawn(gen), drawn' = drawn \cup {new_index(gen)}, gen'.remaining = gen.remaining - 1
  PROVE  new_index(gen) \notin drawn
<1>1. LFSR_MAX \in Int
  BY WordIs
<1>2. /\ Cardinality(drawn) = LFSR_MAX - gen.remaining
      /\ Cardinality(drawn') = LFSR_MAX - gen'.remaining
  BY DEF IndexesAreUnique
<1>3. drawn' # drawn
  BY <1>1, <1>2
<1> QED  BY <1>3

(* What a command may do to the table. *)
LEMMA RunCases ==
  ASSUME NEW c \in Command, NEW index
  PROVE  \/ Run(c, index).table = table
         \/ /\ c.op = "Add" /\ c.key \notin Keys(table) /\ ~Overlap(table, c.key, c.ips)
            /\ ~(Cardinality(Keys(table)) >= MAX_PEERS) /\ c.ips \in SUBSET Net
            /\ Run(c, index).table = WithPeer(table, c.key, index, c.ips)
         \/ /\ c.op = "Update" /\ c.key \in Keys(table) /\ ~Overlap(table, c.key, c.ips)
            /\ c.ips \in SUBSET Net
            /\ Run(c, index).table = WithRoutes(table, c.key, c.ips)
         \/ /\ c.op = "Remove" /\ c.key \in Keys(table)
            /\ Run(c, index).table = WithoutPeer(table, c.key)
<1>1. \/ c.op \in {"Add", "Update"} /\ c.ips \in SUBSET Net
      \/ c.op \in {"Remove", "Get", "List"}
  BY CommandAssumption DEF Command
<1>2. CASE c.op = "Add"
  <2>1. Run(c, index) = add_peer_to_state(table, c.key, c.ips, index)
    BY <1>2 DEF Run
  <2> QED  BY <1>1, <1>2, <2>1 DEF add_peer_to_state, Outcome
<1>3. CASE c.op = "Update"
  <2>1. Run(c, index) = update_peer_in_state(table, c.key, c.ips)
    BY <1>3 DEF Run
  <2> QED  BY <1>1, <1>3, <2>1 DEF update_peer_in_state, Outcome
<1>4. CASE c.op = "Remove"
  <2>1. Run(c, index) = remove_peer_from_state(table, c.key)
    BY <1>4 DEF Run
  <2> QED  BY <1>4, <2>1 DEF remove_peer_from_state, Outcome
<1>5. CASE c.op \in {"Get", "List"}
  BY <1>5 DEF Run, Outcome
<1> QED  BY <1>1, <1>2, <1>3, <1>4, <1>5

LEMMA HandleKeepsTable ==
  ASSUME TableInv, IndexesAreUnique, IndexesAreUnique', NEW c \in Command, handle_peer_update(c)
  PROVE  TableInv'
<1>0. gen \in [lfsr : {gen.lfsr}, remaining : Int, mask : {gen.mask}]
  BY DEF TableInv
<1>1. PICK index : index = new_index(gen)
  OBVIOUS
<1>2. /\ table' = Run(c, index).table
      /\ gen' = IF Draws(c) THEN Drawn(gen) ELSE gen
      /\ drawn' = IF Draws(c) THEN drawn \cup {index} ELSE drawn
  BY <1>1 DEF handle_peer_update
<1>3. /\ PeersOk(table, drawn) /\ IndexesOk(table) /\ RoutesOk(table) /\ gen.remaining \in Int
      /\ IsTable(table)
  BY <1>0 DEF TableInv, IsTable
<1>4. /\ gen' \in [lfsr : {gen'.lfsr}, remaining : Int, mask : {gen'.mask}]
      /\ Draws(c) => index \notin drawn
  <2>1. CASE Draws(c)
    <3>1. gen' = [lfsr |-> step(gen.lfsr), remaining |-> gen.remaining - 1, mask |-> gen.mask]
      BY <1>0, <1>2, <2>1 DEF Drawn
    <3>2. gen'.remaining = gen.remaining - 1 /\ gen' \in [lfsr : {gen'.lfsr}, remaining : Int, mask : {gen'.mask}]
      BY <1>3, <3>1
    <3> QED  BY <1>1, <1>2, <1>3, <2>1, <3>2, DrawnIsNew
  <2> QED  BY <1>0, <1>2, <2>1
<1>5. drawn \subseteq drawn'
  BY <1>2
<1>6. /\ PeersOk(table', drawn') /\ IndexesOk(table') /\ RoutesOk(table') /\ IsTable(table')
  <2>1. CASE table' = table
    BY <1>3, <1>5, <2>1, MoreUsed
  <2>2. CASE /\ c.op = "Add" /\ c.key \notin Keys(table) /\ ~Overlap(table, c.key, c.ips)
             /\ ~(Cardinality(Keys(table)) >= MAX_PEERS) /\ c.ips \in SUBSET Net
             /\ table' = WithPeer(table, c.key, index, c.ips)
    <3>1. Draws(c) /\ drawn' = drawn \cup {index} /\ index \notin drawn
      BY <1>2, <1>4, <2>2 DEF Draws
    <3>2. PeersOk(table', drawn \cup {index}) /\ IndexesOk(table') /\ RoutesOk(table')
      BY <1>3, <2>2, <3>1, AddedPeerFits
    <3>3. IsTable(table')
      BY <2>2 DEF IsTable, WithPeer
    <3> QED  BY <3>1, <3>2, <3>3
  <2>3. CASE /\ c.op = "Update" /\ c.key \in Keys(table) /\ ~Overlap(table, c.key, c.ips)
             /\ c.ips \in SUBSET Net /\ table' = WithRoutes(table, c.key, c.ips)
    <3>1. PeersOk(table', drawn) /\ IndexesOk(table') /\ RoutesOk(table')
      BY <1>3, <2>3, UpdatedRoutesFit DEF IsTable
    <3>2. IsTable(table')
      BY <1>3, <2>3 DEF IsTable, WithRoutes
    <3> QED  BY <1>5, <3>1, <3>2, MoreUsed
  <2>4. CASE c.op = "Remove" /\ c.key \in Keys(table) /\ table' = WithoutPeer(table, c.key)
    <3>1. PeersOk(table', drawn) /\ IndexesOk(table') /\ RoutesOk(table')
      BY <1>3, <2>4, RemovedPeerLeaves
    <3>2. IsTable(table')
      BY <2>4 DEF IsTable, WithoutPeer
    <3> QED  BY <1>5, <3>1, <3>2, MoreUsed
  <2> QED  BY <1>2, <2>1, <2>2, <2>3, <2>4, RunCases
<1> QED  BY <1>4, <1>6 DEF TableInv, IsTable, PeersOk, IndexesOk, RoutesOk, Keys

LEMMA InitTable == Init => TableInv
<1> SUFFICES ASSUME Init PROVE TableInv
  OBVIOUS
<1>1. table = EmptyTable /\ gen \in Initialized
  BY DEF Init
<1>2. LFSR_MAX \in Int
  BY WordIs
<1>3. gen \in [lfsr : {gen.lfsr}, remaining : Int, mask : {gen.mask}]
  BY <1>1, <1>2 DEF Initialized
<1> QED  BY <1>1, <1>3, EmptyFits DEF TableInv, EmptyTable

LEMMA NextKeepsTable ==
  TableInv /\ IndexesAreUnique /\ IndexesAreUnique' /\ [Next]_vars => TableInv'
<1> SUFFICES ASSUME TableInv, IndexesAreUnique, IndexesAreUnique', [Next]_vars PROVE TableInv'
  OBVIOUS
<1>1. CASE UNCHANGED <<table, gen, drawn>>
  BY <1>1 DEF TableInv, PeersOk, IndexesOk, RoutesOk, Keys
<1>2. CASE Gone
  <2>1. table' = EmptyTable /\ UNCHANGED <<gen, drawn>>
    BY <1>2 DEF Gone
  <2>2. PeersOk(table', drawn') /\ IndexesOk(table') /\ RoutesOk(table')
    BY <2>1, EmptyFits
  <2> QED  BY <2>1, <2>2 DEF TableInv, PeersOk, IndexesOk, RoutesOk, Keys, EmptyTable
<1>3. ASSUME NEW c \in Caller, Call(c) \/ Lock(c) \/ submit(c) \/ wait_next(c) \/ Cancel(c)
      PROVE  UNCHANGED <<table, gen, drawn>>
  BY <1>3 DEF Call, Lock, Locked, submit, wait_next, Cancel, device
<1>4. CASE Arrive \/ Serve \/ receive_command \/ UNCHANGED vars
  BY <1>1, <1>4 DEF Arrive, Serve, receive_command, vars, device
<1>5. ASSUME NEW c \in Command, handle_peer_update(c) PROVE TableInv'
  BY <1>5, HandleKeepsTable
<1>6. ASSUME NEW c \in Command, Panic(c) PROVE TableInv'
  BY <1>2, <1>6 DEF Panic
<1>7. CASE Drop
  BY <1>2, <1>7 DEF Drop
<1> QED  BY <1>1, <1>3, <1>4, <1>5, <1>6, <1>7 DEF Next

LEMMA InvImpliesAgree == TableInv => TablesAgree
<1> SUFFICES ASSUME TableInv PROVE TablesAgree
  OBVIOUS
<1>1. PeersOk(table, drawn) /\ IndexesOk(table) /\ RoutesOk(table)
  BY DEF TableInv
<1> DEFINE K == Keys(table)
           I == {table.peers[k].index : k \in K}
<1>2. ASSUME NEW i \in I PROVE table.by_idx[i] = CHOOSE k \in K : table.peers[k].index = i
  <2>1. PICK k \in K : i = table.peers[k].index
    OBVIOUS
  <2>2. k = CHOOSE l \in K : table.peers[l].index = i
    BY <1>1, <2>1 DEF PeersOk
  <2> QED  BY <1>1, <2>1, <2>2 DEF IndexesOk
<1>3. table.by_idx = [i \in I |-> CHOOSE k \in K : table.peers[k].index = i]
  BY <1>1, <1>2 DEF IndexesOk
<1>4. Cardinality(I) = Cardinality(K)
  <2> DEFINE f == [k \in K |-> table.peers[k].index]
  <2>1. \A k, l \in K : f[k] = f[l] => k = l
    BY <1>1 DEF PeersOk
  <2>2. \A i \in I : \E k \in K : f[k] = i
    OBVIOUS
  <2>3. f \in [K -> I]
    OBVIOUS
  <2> HIDE DEF f, K, I
  <2>4. f \in Bijection(K, I)
    BY <2>1, <2>2, <2>3 DEF Bijection, Injection, Surjection, IsInjective
  <2>5. ExistsBijection(K, I)
    BY <2>4 DEF ExistsBijection
  <2>6. IsFiniteSet(K)
    BY <1>1 DEF PeersOk, K
  <2> QED  BY <2>5, <2>6, FS_Bijection
<1>5. DOMAIN table.by_idx = I
  BY <1>1 DEF IndexesOk
<1> QED  BY <1>1, <1>3, <1>4, <1>5 DEF TablesAgree, PeersOk, RoutesOk

(* The three maps of the peer table agree after any commands, refused and   *)
(* failed ones included (add_peer_to_state, update_peer_in_state,           *)
(* remove_peer_from_state).                                                 *)
THEOREM TablesAlwaysAgree == Spec => []TablesAgree
  BY IndexesAlwaysUnique, InitTable, NextKeepsTable, InvImpliesAgree, PTL DEF Spec
-----------------------------------------------------------------------------
(* Relay forwarding. *)

(* A datagram was forwarded by devices that agreed, finitely often, and     *)
(* what an envelope holds is a data packet.                                 *)
Agreed(m) ==
  /\ IsFiniteSet(m.path) /\ m.path \subseteq authorized
  /\ m.packet.type \in {"data", "relay"}
  /\ m.packet.type = "relay" =>
       /\ m.packet.envelope.hop_limit \in 1..(DEFAULT_HOP_LIMIT - Cardinality(m.path))
       /\ m.packet.envelope = [hop_limit |-> m.packet.envelope.hop_limit,
                               destination |-> m.packet.envelope.destination,
                               inner |-> m.packet.envelope.inner]
       /\ m.packet.envelope.inner.type = "data"

RelayInv == \A m \in net : Agreed(m)
-----------------------------------------------------------------------------
(* A datagram that carries data asks only that its forwarders agreed. *)
LEMMA DataIsAgreed ==
  ASSUME NEW n, NEW a, NEW p, NEW path, p.type = "data",
         IsFiniteSet(path), path \subseteq authorized, NEW x \in Datagram(n, a, p, path)
  PROVE  Agreed(x)
  BY DEF Datagram, Agreed

(* One that carries an envelope asks for its hop limit, too. *)
LEMMA EnvelopeIsAgreed ==
  ASSUME NEW n, NEW r, NEW h, NEW d, NEW inner, NEW path,
         IsFiniteSet(path), path \subseteq authorized,
         h \in 1..(DEFAULT_HOP_LIMIT - Cardinality(path)), inner.type = "data",
         NEW x \in Encapsulated(n, r, [hop_limit |-> h, destination |-> d, inner |-> inner], path)
  PROVE  Agreed(x)
  BY DEF Encapsulated, Datagram, Agreed

(* A packet starts with the whole limit and nobody on its path. *)
LEMMA SendIsAgreed ==
  ASSUME NEW n, NEW d, NEW p, p.type = "data", NEW x \in prepare_packet_to_peer(n, d, p)
  PROVE  Agreed(x)
<1>1. IsFiniteSet({}) /\ Cardinality({}) = 0
  BY FS_EmptySet
<1>2. DEFAULT_HOP_LIMIT \in 1..(DEFAULT_HOP_LIMIT - Cardinality({}))
  BY <1>1, RelayAssumption
<1>3. CASE relay[n][d] = Absent
  BY <1>1, <1>3, DataIsAgreed DEF prepare_packet_to_peer
<1>4. CASE relay[n][d] # Absent
  <2>1. x \in Encapsulated(n, relay[n][d],
              [hop_limit |-> DEFAULT_HOP_LIMIT, destination |-> d, inner |-> p], {})
    BY <1>4 DEF prepare_packet_to_peer, prepare_packet_to_peer_via_relay, build_envelope
  <2> QED  BY <1>1, <1>2, <2>1, EnvelopeIsAgreed
<1> QED  BY <1>3, <1>4

(* A device that may forward puts itself on the path and takes one hop, and *)
(* a hop is left whenever the envelope goes on.                             *)
LEMMA ForwardedIsAgreed ==
  ASSUME NEW m \in net, Agreed(m), m.packet.type = "relay", m.dst \in authorized,
         NEW x \in Forwarded(m)
  PROVE  Agreed(x)
<1> DEFINE n == m.dst
           e == m.packet.envelope
           d == e.destination
           path == m.path \cup {n}
           h == e.hop_limit
<1>a. IsFiniteSet(m.path) /\ m.path \subseteq authorized
  BY DEF Agreed
<1>b. IsFiniteSet(path) /\ Cardinality(path) = IF n \in m.path THEN Cardinality(m.path) ELSE Cardinality(m.path) + 1
  BY <1>a, FS_AddElement
<1>c. Cardinality(m.path) \in Nat /\ Cardinality(path) \in Nat
  BY <1>a, <1>b, FS_CardinalityType
<1>1. IsFiniteSet(path) /\ path \subseteq authorized /\ Cardinality(path) <= Cardinality(m.path) + 1
      /\ Cardinality(m.path) \in Nat /\ Cardinality(path) \in Nat
  <2>1. path \subseteq authorized
    BY <1>a
  <2> HIDE DEF path
  <2> QED  BY <1>b, <1>c, <2>1
<1>2. /\ h \in 1..(DEFAULT_HOP_LIMIT - Cardinality(m.path)) /\ e.inner.type = "data"
      /\ e = [hop_limit |-> h, destination |-> d, inner |-> e.inner]
  BY DEF Agreed
<1>3. DEFAULT_HOP_LIMIT \in Nat
  BY RelayAssumption
<1>4. CASE relay[n][d] = Absent
  <2>1. x \in Datagram(n, endpoint[n][d], e.inner, path)
    BY <1>4 DEF Forwarded
  <2> QED  BY <1>1, <1>2, <2>1, DataIsAgreed
<1>5. CASE relay[n][d] # Absent
  <2>1. PICK f \in decrement_hop_limit(e) : x \in Encapsulated(n, relay[n][d], f, path)
    BY <1>5 DEF Forwarded
  <2>2. h > 1 /\ f = [e EXCEPT !.hop_limit = h - 1]
    BY <1>2, <1>3, <1>1 DEF decrement_hop_limit
  <2>3. f = [hop_limit |-> h - 1, destination |-> d, inner |-> e.inner]
    BY <1>2, <2>2
  <2>4. h - 1 \in 1..(DEFAULT_HOP_LIMIT - Cardinality(path))
    BY <1>1, <1>2, <1>3, <2>2
  <2> QED  BY <1>1, <1>2, <2>1, <2>3, <2>4, EnvelopeIsAgreed
<1> QED  BY <1>4, <1>5
-----------------------------------------------------------------------------
(* Every step keeps the datagrams in flight agreed. *)
LEMMA RelayNextKeeps == RelayInv /\ [RelayNext]_relayVars => RelayInv'
<1> SUFFICES ASSUME RelayInv, [RelayNext]_relayVars PROVE RelayInv'
  OBVIOUS
<1>1. authorized' = authorized
  BY DEF RelayNext, HandleUdpPacket, Send, HandleData, HandleRelayData, DropUnopened, UpdatePeer, relayVars
<1>2. \A x : Agreed(x)' <=> Agreed(x)
  BY <1>1 DEF Agreed
<1>3. ASSUME net' \subseteq net PROVE RelayInv'
  BY <1>2, <1>3 DEF RelayInv
<1>4. ASSUME NEW n \in Talkers, NEW d \in Talkers, Send(n, d) PROVE RelayInv'
  <2> DEFINE p == [type |-> "data", from |-> n, to |-> d, id |-> sent]
  <2>1. net' = net \cup prepare_packet_to_peer(n, d, p) /\ p.type = "data"
    BY <1>4 DEF Send
  <2> HIDE DEF p
  <2>2. \A x \in prepare_packet_to_peer(n, d, p) : Agreed(x)
    BY <2>1, SendIsAgreed
  <2> QED  BY <1>2, <2>1, <2>2 DEF RelayInv
<1>5. ASSUME NEW m \in net, HandleRelayData(m) PROVE RelayInv'
  <2>1. CASE net' \subseteq net
    BY <1>3, <2>1
  <2>2. CASE net' = (net \ {m}) \cup Forwarded(m) /\ m.dst \in authorized
    <3>1. Agreed(m) /\ m.packet.type = "relay"
      BY <1>5 DEF RelayInv, HandleRelayData
    <3>2. \A x \in Forwarded(m) : Agreed(x)
      BY <2>2, <3>1, ForwardedIsAgreed
    <3> QED  BY <1>2, <2>2, <3>2 DEF RelayInv
  <2> QED  BY <1>5, <2>1, <2>2 DEF HandleRelayData, authorize
<1>6. ASSUME NEW m \in net, HandleData(m) \/ DropUnopened(m) PROVE RelayInv'
  BY <1>3, <1>6 DEF HandleData, DropUnopened
<1>7. ASSUME NEW n \in Node, NEW d \in Talkers, UpdatePeer(n, d) PROVE RelayInv'
  BY <1>3, <1>7 DEF UpdatePeer
<1>8. CASE UNCHANGED relayVars
  BY <1>3, <1>8 DEF relayVars
<1> QED  BY <1>4, <1>5, <1>6, <1>7, <1>8 DEF RelayNext, HandleUdpPacket

(* Whatever the entries of the devices and their changes, only devices      *)
(* whose authorizer agrees are on a path, and every forwarder but the last  *)
(* has taken a hop from the envelope (handle_udp_packet,                    *)
(* ForwardingAuthorizer::authorize, Envelope::decrement_hop_limit).         *)
THEOREM AllForwardersAgreed == RelaySpec => []ForwardersAgreed
<1>1. RelayInit => RelayInv
  BY DEF RelayInit, RelayInv
<1>2. RelayInv => ForwardersAgreed
  BY DEF RelayInv, Agreed, ForwardersAgreed
<1> QED  BY <1>1, <1>2, RelayNextKeeps, PTL DEF RelaySpec
=============================================================================
