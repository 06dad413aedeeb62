---------------------------- MODULE ReplayWindow ----------------------------
(***************************************************************************)
(* noise/session.rs: one direction of one session.  The sender draws       *)
(* nonces from an atomic counter that stops at REJECT_AFTER_MESSAGES; the  *)
(* network loses, delays, reorders and duplicates packets at will (any     *)
(* packet ever sent may arrive, any number of times) and forged ones       *)
(* arrive with any counter; the receiver keeps a bitmap of the last N_BITS *)
(* counters, which it clears word by word when the window jumps ahead.     *)
(***************************************************************************)
EXTENDS Integers, FiniteSets

CONSTANTS
  Receiver,               \* tasks that may be inside receive_packet_data at once
  WORD_SIZE,              \* 64 in the code
  N_WORDS,                \* 4
  COUNTER_WIDTH,          \* counters are below 2^COUNTER_WIDTH; 64 in the code
  REJECT_AFTER_MESSAGES   \* 2^64 - 2^16 - 2

N_BITS == WORD_SIZE * N_WORDS

ASSUME WindowAssumption ==
  /\ WORD_SIZE \in Nat \ {0} /\ N_WORDS \in Nat \ {0}
  /\ COUNTER_WIDTH \in Nat
  /\ REJECT_AFTER_MESSAGES \in Nat
  /\ REJECT_AFTER_MESSAGES + N_BITS < 2^COUNTER_WIDTH

U64 == 0..(2^COUNTER_WIDTH - 1)
None == -1

VARIABLES
  sending_key_counter,
  sent,          \* nonces used to encrypt so far, which the network may deliver
  next, bitmap, receive_cnt,   \* ReceivingKeyCounterValidator
  decrypting,    \* receiver -> the counter it has checked and not marked yet
  delivered,     \* history: counters of the packets passed on
  verdict        \* history: what became of the last packet, and its counter

vars == <<sending_key_counter, sent, next, bitmap, receive_cnt, decrypting, delivered, verdict>>
receiver == <<next, bitmap, receive_cnt, decrypting, delivered, verdict>>

Init ==
  /\ sending_key_counter = 0 /\ sent = {}
  /\ next = 0 /\ bitmap = [b \in 0..(N_BITS - 1) |-> FALSE] /\ receive_cnt = 0
  /\ decrypting = [w \in Receiver |-> None]
  /\ delivered = {} /\ verdict = <<"none", 0>>
-----------------------------------------------------------------------------
(* format_packet_data_with_type *)

SendFetchAdd ==   \* mutant: fetch_add without the limit wraps around
  /\ sending_key_counter' = (sending_key_counter + 1) % 2^COUNTER_WIDTH
  /\ sent' = sent \cup {sending_key_counter}
  /\ UNCHANGED receiver

Send ==
  /\ sending_key_counter < REJECT_AFTER_MESSAGES
  /\ sending_key_counter' = sending_key_counter + 1
  /\ sent' = sent \cup {sending_key_counter}
  /\ UNCHANGED receiver
-----------------------------------------------------------------------------
(* ReceivingKeyCounterValidator *)

check_bit(c) == bitmap[c % N_BITS]

TooFarBack(c) == c + N_BITS < next

will_accept(c) == c >= next \/ (~TooFarBack(c) /\ ~check_bit(c))

(* The three loops that clear the counters skipped between next and c: bits *)
(* up to a word boundary, whole words while more than a word is left, bits. *)
Lesser(a, b) == IF a <= b THEN a ELSE b
AlignedFrom(i) == ((i + WORD_SIZE - 1) \div WORD_SIZE) * WORD_SIZE

FirstLoopEnd(c) == Lesser(AlignedFrom(next), c)
WordsCleared(c) ==
  {i \in FirstLoopEnd(c)..c : (i - FirstLoopEnd(c)) % WORD_SIZE = 0 /\ i + WORD_SIZE < c}
SecondLoopEnd(c) ==
  IF WordsCleared(c) = {} THEN FirstLoopEnd(c)
  ELSE (CHOOSE i \in WordsCleared(c) : \A j \in WordsCleared(c) : j <= i) + WORD_SIZE

WordOf(c) == (c % N_BITS) \div WORD_SIZE

ClearedFromWords(c) ==   \* mutant: the bits below the first boundary are skipped
  {b \in 0..(N_BITS - 1) : \E i \in WordsCleared(c) : b \div WORD_SIZE = WordOf(i)}
    \cup {i % N_BITS : i \in SecondLoopEnd(c)..(c - 1)}

Cleared(c) ==
  IF c - next >= N_BITS THEN 0..(N_BITS - 1)
  ELSE {i % N_BITS : i \in next..(FirstLoopEnd(c) - 1)}
         \cup {b \in 0..(N_BITS - 1) : \E i \in WordsCleared(c) : b \div WORD_SIZE = WordOf(i)}
         \cup {i % N_BITS : i \in SecondLoopEnd(c)..(c - 1)}

(* mark_did_receive, for a counter it does not refuse: when c is next,      *)
(* nothing is skipped and nothing cleared; when it is older, likewise.      *)
Mark(c) ==
  /\ bitmap' = [b \in 0..(N_BITS - 1) |->
                  \/ b = c % N_BITS
                  \/ bitmap[b] /\ ~(c > next /\ b \in Cleared(c))]
  /\ next' = IF c >= next THEN c + 1 ELSE next

Refused(c) == TooFarBack(c) \/ (c < next /\ check_bit(c))
-----------------------------------------------------------------------------
(* receive_packet_data: the counter is checked, the packet decrypted with   *)
(* the validator unlocked, and the counter checked again and marked.        *)

QuickCheck(w, c) ==
  /\ decrypting[w] = None
  /\ c \in sent
  /\ c < REJECT_AFTER_MESSAGES /\ will_accept(c)
  /\ decrypting' = [decrypting EXCEPT ![w] = c]
  /\ UNCHANGED <<sending_key_counter, sent, next, bitmap, receive_cnt, delivered, verdict>>

QuickCheckRefused(w, c) ==
  /\ decrypting[w] = None
  /\ c \in sent
  /\ c >= REJECT_AFTER_MESSAGES \/ ~will_accept(c)
  /\ verdict' = <<"refused", c>>
  /\ UNCHANGED <<sending_key_counter, sent, next, bitmap, receive_cnt, decrypting, delivered>>

(* receiving_counter_mark *)
Deliver(w) ==
  LET c == decrypting[w]
  IN  /\ Mark(c)
      /\ receive_cnt' = receive_cnt + 1
      /\ decrypting' = [decrypting EXCEPT ![w] = None]
      /\ delivered' = delivered \cup {c}
      /\ verdict' = <<"delivered", c>>
      /\ UNCHANGED <<sending_key_counter, sent>>

ReceiveUnchecked(w) ==   \* mutant: what passed the quick check is marked as it is
  decrypting[w] # None /\ Deliver(w)

Receive(w) ==
  /\ decrypting[w] # None
  /\ ~Refused(decrypting[w])
  /\ Deliver(w)

ReceiveRefused(w) ==
  /\ decrypting[w] # None
  /\ Refused(decrypting[w])
  /\ decrypting' = [decrypting EXCEPT ![w] = None]
  /\ verdict' = <<"refused", decrypting[w]>>
  /\ UNCHANGED <<sending_key_counter, sent, next, bitmap, receive_cnt, delivered>>

(* A packet that fails authentication, with a counter that passes the quick *)
(* check or not: nothing is marked.                                         *)
ReceiveForged(c) ==
  /\ verdict' = <<"forged", c>>
  /\ UNCHANGED <<sending_key_counter, sent, next, bitmap, receive_cnt, decrypting, delivered>>

Next ==
  \/ Send
  \/ \E w \in Receiver, c \in U64 : QuickCheck(w, c) \/ QuickCheckRefused(w, c)
  \/ \E w \in Receiver : Receive(w) \/ ReceiveRefused(w)
  \/ \E c \in U64 : ReceiveForged(c)

Spec == Init /\ [][Next]_vars
-----------------------------------------------------------------------------
(* A nonce never encrypts two packets, also when the session is used to     *)
(* exhaustion.                                                              *)
NonceIsFresh == [][sending_key_counter' # sending_key_counter
                     => sending_key_counter \notin sent]_vars

(* The loss estimate of Tunn::estimate_loss divides sound numbers: what was *)
(* counted as received is what was delivered, each packet once, and never   *)
(* exceeds the number expected.                                             *)
LossEstimateIsSound ==
  /\ receive_cnt = Cardinality(delivered)
  /\ receive_cnt <= next

Window ==
  INSTANCE SlidingWindow WITH Counter <- U64, Window <- N_BITS

(* The bitmap behaves as an ideal window: no replay is ever delivered, and  *)
(* no authentic packet inside the window is ever refused, whichever way     *)
(* next has jumped before and whoever else is decrypting the same packet.   *)
ImplementsWindow == Window!Spec
=============================================================================
