------------------------- MODULE ReplayWindowProofs -------------------------
(***************************************************************************)
(* The properties of ReplayWindow for every size of word and window, every *)
(* width of the counters and any number of receivers: nonces are fresh,    *)
(* the loss estimate is sound, and the bitmap implements SlidingWindow.    *)
(***************************************************************************)
EXTENDS ReplayWindow, FiniteSetTheorems, WellFoundedInduction, TLAPS

(* The bits of the window tell which of its counters were delivered. *)
BitsAreTrue ==
  \A c \in Nat : c < next /\ c + N_BITS >= next => (bitmap[c % N_BITS] <=> c \in delivered)

WindowInv ==
  /\ sending_key_counter \in 0..REJECT_AFTER_MESSAGES
  /\ sent = 0..(sending_key_counter - 1)
  /\ next \in Nat
  /\ bitmap \in [0..(N_BITS - 1) -> BOOLEAN]
  /\ decrypting \in [Receiver -> {None} \cup (U64 \cap Nat)]
  /\ delivered \subseteq 0..(next - 1)
  /\ receive_cnt = Cardinality(delivered)
  /\ BitsAreTrue
-----------------------------------------------------------------------------
(* Arithmetic. *)

LEMMA Sizes == WORD_SIZE \in Nat \ {0} /\ N_WORDS \in Nat \ {0} /\ N_BITS \in Nat \ {0}
  BY WindowAssumption DEF N_BITS

(* Division with a remainder, as the provers need it spelled out. *)
LEMMA Division ==
  ASSUME NEW a \in Nat, NEW b \in Nat \ {0}
  PROVE  /\ a \div b \in Nat /\ a % b \in Nat /\ a % b < b
         /\ a = ((a \div b) * b) + (a % b)
  OBVIOUS

(* Quotient and remainder are the only numbers of their kind. *)
LEMMA DivisionUnique ==
  ASSUME NEW b \in Nat \ {0}, NEW q \in Nat, NEW r \in 0..(b - 1)
  PROVE  ((q * b) + r) \div b = q /\ ((q * b) + r) % b = r
<1> DEFINE a == (q * b) + r
           p == a \div b
           s == a % b
<1>1. a \in Nat /\ q * b \in Nat
  OBVIOUS
<1>2. p \in Nat /\ s \in Nat /\ s < b /\ a = (p * b) + s
  BY <1>1, Division
<1>3. p * b \in Nat
  BY <1>2
<1> HIDE DEF p, s
<1>4. ASSUME p >= q + 1 PROVE FALSE
  <2>1. p * b >= (q + 1) * b
    BY <1>2, <1>4
  <2>2. (q + 1) * b = q * b + b
    OBVIOUS
  <2> QED  BY <1>1, <1>2, <1>3, <2>1, <2>2
<1>5. ASSUME q >= p + 1 PROVE FALSE
  <2>1. q * b >= (p + 1) * b
    BY <1>2, <1>5
  <2>2. (p + 1) * b = p * b + b
    BY <1>2
  <2> QED  BY <1>1, <1>2, <1>3, <2>1, <2>2
<1>6. p = q
  BY <1>2, <1>4, <1>5
<1>7. s = r
  BY <1>1, <1>2, <1>6
<1> QED  BY <1>6, <1>7 DEF p, s

(* Two counters in one slot of the bitmap are a window apart. *)
LEMMA SlotsAreApart ==
  ASSUME NEW x \in Nat, NEW y \in Nat, x < y, y < x + N_BITS
  PROVE  x % N_BITS # y % N_BITS
<1> DEFINE n == N_BITS
           p == x \div n
           q == y \div n
<1>1. n \in Nat \ {0}
  BY Sizes
<1> HIDE DEF n
<1>2. /\ p \in Nat /\ x % n \in Nat /\ x % n < n /\ x = (p * n) + (x % n)
      /\ q \in Nat /\ y % n \in Nat /\ y % n < n /\ y = (q * n) + (y % n)
  BY <1>1, Division
<1> HIDE DEF p, q
<1>3. SUFFICES ASSUME x % n = y % n PROVE FALSE
  BY DEF n
<1>4. p * n \in Nat /\ q * n \in Nat /\ y - x = q * n - p * n
  BY <1>1, <1>2, <1>3
<1>5. ASSUME q <= p PROVE FALSE
  <2>1. q * n <= p * n
    BY <1>1, <1>2, <1>5
  <2> QED  BY <1>4, <2>1
<1>6. ASSUME q >= p + 1 PROVE FALSE
  <2>1. q * n >= (p + 1) * n
    BY <1>1, <1>2, <1>6
  <2>2. (p + 1) * n = p * n + n
    BY <1>1, <1>2
  <2> QED  BY <1>1, <1>4, <2>1, <2>2 DEF n
<1> QED  BY <1>2, <1>5, <1>6

(* A word is the slots of WORD_SIZE counters from a multiple of it on. *)
LEMMA WordIsSlots ==
  ASSUME NEW i \in Nat, i % WORD_SIZE = 0
  PROVE  /\ \A j \in i..(i + WORD_SIZE - 1) :
              /\ j % N_BITS \in 0..(N_BITS - 1)
              /\ (j % N_BITS) \div WORD_SIZE = WordOf(i)
         /\ \A b \in 0..(N_BITS - 1) :
              b \div WORD_SIZE = WordOf(i)
                => \E j \in i..(i + WORD_SIZE - 1) : b = j % N_BITS
<1> DEFINE w == WORD_SIZE
           n == N_WORDS
           k == i \div w
           h == k \div n
           m == k % n
<1>1. w \in Nat \ {0} /\ n \in Nat \ {0} /\ N_BITS = w * n
  BY Sizes DEF N_BITS
<1>2. k \in Nat /\ i = k * w
  BY <1>1, Division
<1>3. h \in Nat /\ m \in 0..(n - 1) /\ k = (h * n) + m
  BY <1>1, <1>2, Division
<1>4. WORD_SIZE = w
  OBVIOUS
<1> HIDE DEF w, n, k, h, m
<1>5. i = (h * (w * n)) + (m * w)
  BY <1>1, <1>2, <1>3
<1>6. ASSUME NEW r \in 0..(w - 1)
      PROVE  /\ (m * w) + r \in 0..(N_BITS - 1)
             /\ (i + r) % N_BITS = (m * w) + r
             /\ ((m * w) + r) \div w = m
  <2>1. m * w \in Nat /\ (m + 1) * w <= n * w /\ (m + 1) * w = m * w + w
    BY <1>1, <1>3
  <2>2. (m * w) + r \in 0..(N_BITS - 1)
    BY <1>1, <1>3, <2>1
  <2>3. i + r = (h * N_BITS) + ((m * w) + r)
    BY <1>1, <1>3, <1>5, <2>1
  <2>4. (i + r) % N_BITS = (m * w) + r
    <3> DEFINE s == (m * w) + r
    <3>1. h \in Nat /\ s \in 0..(N_BITS - 1) /\ N_BITS \in Nat \ {0}
      BY <1>3, <2>2, Sizes
    <3> HIDE DEF s
    <3>2. ((h * N_BITS) + s) % N_BITS = s
      BY <3>1, DivisionUnique
    <3> QED  BY <2>3, <3>2 DEF s
  <2>5. ((m * w) + r) \div w = m
    BY <1>1, <1>3, DivisionUnique
  <2> QED  BY <2>2, <2>4, <2>5
<1>7. WordOf(i) = m
  <2>1. 0 \in 0..(w - 1) /\ i + 0 = i
    BY <1>1
  <2>2. i % N_BITS = (m * w) + 0 /\ ((m * w) + 0) \div w = m
    BY <1>6, <2>1
  <2> QED  BY <1>4, <2>2 DEF WordOf
<1>8. ASSUME NEW j \in i..(i + w - 1)
      PROVE  j % N_BITS \in 0..(N_BITS - 1) /\ (j % N_BITS) \div w = WordOf(i)
  <2>1. j - i \in 0..(w - 1) /\ i + (j - i) = j
    BY <1>1
  <2> QED  BY <1>6, <1>7, <2>1
<1>9. ASSUME NEW b \in 0..(N_BITS - 1), b \div w = WordOf(i)
      PROVE  \E j \in i..(i + w - 1) : b = j % N_BITS
  <2>1. b \in Nat
    BY Sizes
  <2> DEFINE q == b \div w
             r == b % w
  <2>2. r \in Nat /\ r < w /\ b = (q * w) + r
    BY <1>1, <2>1, Division
  <2>3. q = m
    BY <1>7, <1>9
  <2> HIDE DEF q, r
  <2>4. r \in 0..(w - 1) /\ b = (m * w) + r
    BY <1>1, <2>2, <2>3
  <2>5. i + r \in i..(i + w - 1) /\ (i + r) % N_BITS = b
    BY <1>1, <1>6, <2>4
  <2> QED  BY <2>5
<1> QED  BY <1>4, <1>8, <1>9

(* A set of numbers between two bounds has a greatest element. *)
LEMMA HasMaximum ==
  ASSUME NEW a \in Int, NEW b \in Int, NEW S, S \subseteq a..b, S # {}
  PROVE  \E x \in S : \A y \in S : y <= x
<1> DEFINE T == {b - x : x \in S}
           R == OpToRel(<, Nat)
<1>1. T \subseteq Nat /\ T # {}
  OBVIOUS
<1>2. IsWellFoundedOn(R, Nat)
  BY NatLessThanWellFounded
<1> HIDE DEF T, R
<1>3. PICK t \in T : \A u \in T : ~(<<u, t>> \in R)
  BY <1>1, <1>2, WFMin
<1>4. \A u \in T : u >= t
  <2>1. ASSUME NEW u \in Nat, NEW v \in Nat, u < v PROVE <<u, v>> \in R
    <3>1. <<u, v>> \in Nat \X Nat /\ <<u, v>>[1] < <<u, v>>[2]
      BY <2>1
    <3> QED  BY <3>1 DEF R, OpToRel
  <2>2. ASSUME NEW u \in T, u < t PROVE FALSE
    BY <1>1, <1>3, <2>1, <2>2
  <2> QED  BY <1>1, <2>2
<1>5. PICK x \in S : t = b - x
  BY DEF T
<1>6. ASSUME NEW y \in S PROVE y <= x
  <2>1. b - y \in T
    BY DEF T
  <2>2. b - y >= b - x
    BY <1>4, <1>5, <2>1
  <2> QED  BY <2>2
<1> QED  BY <1>6
-----------------------------------------------------------------------------
(* The three loops clear the slots of the counters skipped and no other. *)

LEMMA FirstBoundary ==
  ASSUME NEW i \in Nat
  PROVE  AlignedFrom(i) \in Nat /\ AlignedFrom(i) >= i /\ AlignedFrom(i) % WORD_SIZE = 0
<1> DEFINE w == WORD_SIZE
           a == i + w - 1
           q == a \div w
<1>1. w \in Nat \ {0} /\ a \in Nat
  BY Sizes
<1>2. q \in Nat /\ a % w \in Nat /\ a % w < w /\ a = (q * w) + (a % w)
  BY <1>1, Division
<1>3. AlignedFrom(i) = q * w
  BY DEF AlignedFrom
<1> HIDE DEF q, w
<1>4. q * w \in Nat /\ q * w >= i
  BY <1>1, <1>2
<1>5. (q * w) % w = 0
  <2>1. 0 \in 0..(w - 1) /\ (q * w) + 0 = q * w
    BY <1>1, <1>4
  <2> QED  BY <1>1, <1>2, <2>1, DivisionUnique
<1> QED  BY <1>3, <1>4, <1>5 DEF w

LEMMA ClearedIsSkipped ==
  ASSUME next \in Nat, NEW c \in Nat, c > next, c - next < N_BITS
  PROVE  Cleared(c) = {i % N_BITS : i \in next..(c - 1)}
<1> DEFINE w == WORD_SIZE
           f == FirstLoopEnd(c)
           W == WordsCleared(c)
           s == SecondLoopEnd(c)
<1>1. w \in Nat \ {0} /\ WORD_SIZE = w
  BY Sizes
<1>2. f \in Nat /\ next <= f /\ f <= c /\ (f < c => f % w = 0)
  BY FirstBoundary DEF FirstLoopEnd, Lesser
<1>3. W = {i \in f..c : (i - f) % w = 0 /\ i + w < c}
  BY DEF WordsCleared
<1>4. W # {} => \E m \in W : s = m + w /\ \A j \in W : j <= m
  <2>1. SUFFICES ASSUME W # {} PROVE \E m \in W : s = m + w /\ \A j \in W : j <= m
    OBVIOUS
  <2>2. \E x \in W : \A y \in W : y <= x
    <3>1. W \subseteq f..c /\ f \in Int /\ c \in Int
      BY <1>2, <1>3
    <3> HIDE DEF W, f
    <3> QED  BY <2>1, <3>1, HasMaximum
  <2>3. s = (CHOOSE i \in W : \A j \in W : j <= i) + w
    BY <2>1 DEF SecondLoopEnd
  <2> QED  BY <2>2, <2>3
<1>5. W = {} => s = f
  BY DEF SecondLoopEnd
<1>6. Cleared(c) = {i % N_BITS : i \in next..(f - 1)}
         \cup {b \in 0..(N_BITS - 1) : \E i \in W : b \div w = WordOf(i)}
         \cup {i % N_BITS : i \in s..(c - 1)}
  BY Sizes DEF Cleared
<1> HIDE DEF w, f, W, s
<1>7. ASSUME NEW i \in W PROVE i \in Nat /\ i % w = 0 /\ next <= i /\ i + w <= c
  <2>1. i \in Nat /\ f <= i /\ i + w < c /\ f < c /\ i - f \in Nat /\ (i - f) % w = 0
    BY <1>1, <1>2, <1>3
  <2> DEFINE p == f \div w
             q == (i - f) \div w
  <2>2. p \in Nat /\ q \in Nat /\ f = p * w /\ i - f = q * w
    BY <1>1, <1>2, <2>1, Division
  <2> HIDE DEF p, q
  <2>3. i = ((p + q) * w) + 0 /\ p + q \in Nat
    BY <1>1, <1>2, <2>1, <2>2
  <2>4. i % w = 0
    <3>1. 0 \in 0..(w - 1)
      BY <1>1
    <3> QED  BY <1>1, <2>3, <3>1, DivisionUnique
  <2> QED  BY <1>1, <1>2, <2>1, <2>4
<1>8. s \in Nat /\ f <= s /\ s <= c
  BY <1>1, <1>2, <1>3, <1>4, <1>5, <1>7
<1>9. ASSUME NEW b \in Cleared(c) PROVE b \in {i % N_BITS : i \in next..(c - 1)}
  <2>1. CASE b \in {i % N_BITS : i \in next..(f - 1)}
    BY <1>2, <2>1
  <2>2. CASE b \in {i % N_BITS : i \in s..(c - 1)}
    BY <1>2, <1>8, <2>2
  <2>3. ASSUME b \in 0..(N_BITS - 1), NEW i \in W, b \div w = WordOf(i)
        PROVE  b \in {k % N_BITS : k \in next..(c - 1)}
    <3>1. i \in Nat /\ i % w = 0 /\ next <= i /\ i + w <= c
      BY <1>7
    <3>2. PICK j \in i..(i + w - 1) : b = j % N_BITS
      BY <1>1, <2>3, <3>1, WordIsSlots
    <3>3. j \in next..(c - 1)
      BY <1>1, <3>1
    <3> QED  BY <3>2, <3>3
  <2> QED  BY <1>6, <2>1, <2>2, <2>3
<1>10. ASSUME NEW i \in next..(c - 1) PROVE i % N_BITS \in Cleared(c)
  <2>1. CASE i < f
    BY <1>2, <1>6, <2>1
  <2>2. CASE i >= s
    BY <1>6, <1>8, <2>2
  <2>3. CASE f <= i /\ i < s
    <3>1. W # {}
      BY <1>2, <1>5, <2>3
    <3>2. PICK m \in W : s = m + w /\ \A j \in W : j <= m
      BY <1>4, <3>1
    <3> DEFINE q == (i - f) \div w
               r == (i - f) % w
               j == i - r
    <3>3. i - f \in Nat /\ i \in Nat
      BY <1>2, <2>3
    <3>4. q \in Nat /\ r \in Nat /\ r < w /\ i - f = (q * w) + r
      BY <1>1, <3>3, Division
    <3> HIDE DEF q, r
    <3>5. j - f = (q * w) + 0 /\ q * w \in Nat /\ j \in Nat /\ f <= j /\ j <= i
      BY <1>1, <1>2, <3>3, <3>4
    <3>6. (j - f) % w = 0
      <4>1. 0 \in 0..(w - 1)
        BY <1>1
      <4> QED  BY <1>1, <3>4, <3>5, <4>1, DivisionUnique
    <3>7. j <= m
      <4>1. m \in Nat /\ f <= m /\ m - f \in Nat /\ (m - f) % w = 0 /\ m + w < c
        BY <1>1, <1>2, <1>3
      <4> DEFINE p == (m - f) \div w
      <4>2. p \in Nat /\ m - f = p * w
        BY <1>1, <4>1, Division
      <4> HIDE DEF p
      <4>3. ASSUME q >= p + 1 PROVE FALSE
        <5>1. q * w >= (p + 1) * w /\ (p + 1) * w = p * w + w
          BY <1>1, <3>4, <4>2, <4>3
        <5>2. i - f >= m - f + w
          BY <1>1, <3>4, <3>5, <4>1, <4>2, <5>1
        <5> QED  BY <1>1, <1>2, <2>3, <3>2, <3>3, <4>1, <5>2
      <4>4. q <= p
        BY <3>4, <4>2, <4>3
      <4>5. q * w <= p * w
        BY <1>1, <3>4, <4>2, <4>4
      <4> QED  BY <1>2, <3>3, <3>5, <4>1, <4>2, <4>5
    <3>8. j \in W
      <4>1. m \in Nat /\ m + w < c
        BY <1>2, <1>3
      <4>2. j \in f..c /\ j + w < c
        BY <1>1, <1>2, <3>5, <3>7, <4>1
      <4> HIDE DEF j
      <4> QED  BY <1>3, <3>6, <4>2
    <3>9. j \in Nat /\ j % w = 0
      BY <1>7, <3>8
    <3>10. i \in j..(j + w - 1)
      BY <1>1, <3>3, <3>4, <3>5
    <3> HIDE DEF j
    <3>11. i % N_BITS \in 0..(N_BITS - 1) /\ (i % N_BITS) \div w = WordOf(j)
      BY <1>1, <3>9, <3>10, WordIsSlots
    <3> QED  BY <1>6, <3>8, <3>11
  <2> QED  BY <1>2, <1>8, <2>1, <2>2, <2>3
<1> QED  BY <1>9, <1>10

(* A counter that is not refused is new. *)
LEMMA RefusedIsOld ==
  ASSUME WindowInv, NEW c \in Nat
  PROVE  /\ Refused(c) <=> c \in delivered \/ c + N_BITS < next
         /\ ~will_accept(c) <=> Refused(c)
<1>1. N_BITS \in Nat \ {0}
  BY Sizes
<1>2. c >= next => c \notin delivered
  BY DEF WindowInv
<1>3. c < next /\ c + N_BITS >= next => (check_bit(c) <=> c \in delivered)
  BY DEF WindowInv, BitsAreTrue, check_bit
<1>4. next \in Nat
  BY DEF WindowInv
<1> QED  BY <1>1, <1>2, <1>3, <1>4 DEF Refused, TooFarBack, will_accept

(* Marking a counter makes its bit true, and those of the counters it skips *)
(* false, whatever was in their slots a window ago.                         *)
LEMMA MarkKeepsBits ==
  ASSUME WindowInv, NEW c \in Nat, ~Refused(c), Mark(c), delivered' = delivered \cup {c}
  PROVE  /\ next' \in Nat /\ bitmap' \in [0..(N_BITS - 1) -> BOOLEAN]
         /\ delivered' \subseteq 0..(next' - 1)
         /\ BitsAreTrue'
<1>1. N_BITS \in Nat \ {0} /\ next \in Nat /\ bitmap \in [0..(N_BITS - 1) -> BOOLEAN]
  BY Sizes DEF WindowInv
<1>2. next' = (IF c >= next THEN c + 1 ELSE next) /\ next' \in Nat
  BY <1>1 DEF Mark
<1>3. delivered \subseteq 0..(next - 1) /\ c + N_BITS >= next
  BY <1>1, RefusedIsOld DEF WindowInv
<1>4. delivered' \subseteq 0..(next' - 1)
  BY <1>1, <1>2, <1>3
<1>5. bitmap' = [b \in 0..(N_BITS - 1) |->
                   \/ b = c % N_BITS
                   \/ bitmap[b] /\ ~(c > next /\ b \in Cleared(c))]
  BY DEF Mark
<1>6. bitmap' \in [0..(N_BITS - 1) -> BOOLEAN]
  BY <1>1, <1>5
<1>7. \A x \in Nat : x % N_BITS \in 0..(N_BITS - 1)
  BY <1>1, Division
<1>8. ASSUME NEW x \in Nat, x < next', x + N_BITS >= next'
      PROVE  bitmap'[x % N_BITS] <=> x \in delivered'
  <2>1. bitmap'[x % N_BITS] <=>
          \/ x % N_BITS = c % N_BITS
          \/ bitmap[x % N_BITS] /\ ~(c > next /\ x % N_BITS \in Cleared(c))
    BY <1>5, <1>7
  <2>2. x % N_BITS = c % N_BITS <=> x = c
    <3> DEFINE n == N_BITS
    <3>1. n \in Nat
      BY <1>1
    <3>2. x < c => c < x + n
      BY <1>1, <1>2, <1>8
    <3>3. c < x => x < c + n
      BY <1>1, <1>2, <1>3, <1>8
    <3>4. x < c => x % N_BITS # c % N_BITS
      BY <3>2, SlotsAreApart
    <3>5. c < x => c % N_BITS # x % N_BITS
      BY <3>3, SlotsAreApart
    <3>6. x < c \/ x = c \/ c < x
      BY <1>8
    <3> QED  BY ONLY <3>4, <3>5, <3>6
  <2>3. CASE x = c
    BY <2>1, <2>2, <2>3
  <2>4. CASE x # c /\ x < next
    <3>1. bitmap[x % N_BITS] <=> x \in delivered
      BY <1>1, <1>2, <1>8, <2>4 DEF WindowInv, BitsAreTrue
    <3>2. c > next => x % N_BITS \notin Cleared(c)
      <4>1. SUFFICES ASSUME c > next, x % N_BITS \in Cleared(c) PROVE FALSE
        OBVIOUS
      <4>2. c - next < N_BITS
        BY <1>1, <1>2, <1>8, <2>4, <4>1
      <4>3. Cleared(c) = {i % N_BITS : i \in next..(c - 1)}
        BY <1>1, <4>1, <4>2, ClearedIsSkipped
      <4>4. PICK i \in next..(c - 1) : x % N_BITS = i % N_BITS
        BY <4>1, <4>3
      <4>5. i \in Nat /\ x < i /\ i < x + N_BITS
        BY <1>1, <1>2, <1>8, <2>4, <4>1
      <4> QED  BY <4>4, <4>5, SlotsAreApart
    <3> QED  BY <2>1, <2>2, <2>4, <3>1, <3>2
  <2>5. CASE x # c /\ x >= next
    <3>1. x \notin delivered /\ c > next /\ x \in next..(c - 1)
      BY <1>1, <1>2, <1>3, <1>8, <2>5
    <3>2. x % N_BITS \in Cleared(c)
      <4>1. CASE c - next < N_BITS
        BY <1>1, <3>1, <4>1, ClearedIsSkipped
      <4>2. CASE c - next >= N_BITS
        BY <1>7, <4>2 DEF Cleared
      <4> QED  BY <1>1, <4>1, <4>2
    <3> QED  BY <2>1, <2>2, <2>5, <3>1, <3>2
  <2> QED  BY <1>1, <2>3, <2>4, <2>5
<1>9. BitsAreTrue'
  BY <1>8 DEF BitsAreTrue, N_BITS
<1> QED  BY <1>2, <1>4, <1>6, <1>9
-----------------------------------------------------------------------------
LEMMA InitInv == Init => WindowInv
<1> SUFFICES ASSUME Init PROVE WindowInv
  OBVIOUS
<1>1. Cardinality({}) = 0
  BY FS_EmptySet
<1>2. N_BITS \in Nat \ {0} /\ REJECT_AFTER_MESSAGES \in Nat
  BY Sizes, WindowAssumption
<1> QED  BY <1>1, <1>2 DEF Init, WindowInv, BitsAreTrue

LEMMA DeliverKeepsInv ==
  ASSUME WindowInv, NEW w \in Receiver, Receive(w)
  PROVE  WindowInv' /\ decrypting[w] \in U64 \cap Nat
<1> DEFINE c == decrypting[w]
<1>1. c \in U64 \cap Nat /\ ~Refused(c) /\ Mark(c) /\ delivered' = delivered \cup {c}
      /\ receive_cnt' = receive_cnt + 1 /\ decrypting' = [decrypting EXCEPT ![w] = None]
      /\ UNCHANGED <<sending_key_counter, sent>>
  BY DEF Receive, Deliver, WindowInv
<1>2. /\ next' \in Nat /\ bitmap' \in [0..(N_BITS - 1) -> BOOLEAN]
      /\ delivered' \subseteq 0..(next' - 1) /\ BitsAreTrue'
  BY <1>1, MarkKeepsBits
<1>3. decrypting' \in [Receiver -> {None} \cup (U64 \cap Nat)]
  BY <1>1 DEF WindowInv
<1>4. receive_cnt' = Cardinality(delivered')
  <2>1. c \notin delivered
    BY <1>1, RefusedIsOld
  <2>2. next \in Nat /\ delivered \subseteq 0..(next - 1) /\ receive_cnt = Cardinality(delivered)
    BY DEF WindowInv
  <2>3. IsFiniteSet(delivered)
    <3>1. IsFiniteSet(0..(next - 1))
      BY <2>2, FS_Interval
    <3> QED  BY <2>2, <3>1, FS_Subset
  <2>4. Cardinality(delivered \cup {c}) = Cardinality(delivered) + 1
    BY <2>1, <2>3, FS_AddElement
  <2> QED  BY <1>1, <2>2, <2>4
<1> QED  BY <1>1, <1>2, <1>3, <1>4 DEF WindowInv

LEMMA NextInv == WindowInv /\ [Next]_vars => WindowInv'
<1> SUFFICES ASSUME WindowInv, [Next]_vars PROVE WindowInv'
  OBVIOUS
<1>1. CASE Send
  <2>1. sending_key_counter' \in 0..REJECT_AFTER_MESSAGES /\ sent' = 0..(sending_key_counter' - 1)
    BY <1>1, WindowAssumption DEF Send, WindowInv
  <2> QED  BY <1>1, <2>1 DEF Send, WindowInv, BitsAreTrue, receiver
<1>2. ASSUME NEW w \in Receiver, NEW c \in U64, QuickCheck(w, c) PROVE WindowInv'
  <2>1. c \in Nat
    BY <1>2 DEF QuickCheck, WindowInv
  <2>2. decrypting' \in [Receiver -> {None} \cup (U64 \cap Nat)]
    BY <1>2, <2>1 DEF QuickCheck, WindowInv
  <2> QED  BY <1>2, <2>2 DEF QuickCheck, WindowInv, BitsAreTrue
<1>3. ASSUME NEW w \in Receiver, NEW c \in U64, QuickCheckRefused(w, c) PROVE WindowInv'
  BY <1>3 DEF QuickCheckRefused, WindowInv, BitsAreTrue
<1>4. ASSUME NEW w \in Receiver, Receive(w) PROVE WindowInv'
  BY <1>4, DeliverKeepsInv
<1>5. ASSUME NEW w \in Receiver, ReceiveRefused(w) PROVE WindowInv'
  <2>1. decrypting' \in [Receiver -> {None} \cup (U64 \cap Nat)]
    BY <1>5 DEF ReceiveRefused, WindowInv
  <2> QED  BY <1>5, <2>1 DEF ReceiveRefused, WindowInv, BitsAreTrue
<1>6. ASSUME NEW c \in U64, ReceiveForged(c) PROVE WindowInv'
  BY <1>6 DEF ReceiveForged, WindowInv, BitsAreTrue
<1>7. CASE UNCHANGED vars
  BY <1>7 DEF vars, WindowInv, BitsAreTrue
<1> QED  BY <1>1, <1>2, <1>3, <1>4, <1>5, <1>6, <1>7 DEF Next

LEMMA WindowInvariant == Spec => []WindowInv
  BY InitInv, NextInv, PTL DEF Spec
-----------------------------------------------------------------------------
(* No nonce is used twice: the counter only grows, by one, and stops at     *)
(* REJECT_AFTER_MESSAGES (format_packet_data_with_type).                    *)
THEOREM NoncesAreFresh == Spec => NonceIsFresh
<1>1. ASSUME WindowInv, [Next]_vars
      PROVE  sending_key_counter' # sending_key_counter => sending_key_counter \notin sent
  BY <1>1 DEF WindowInv
<1>2. WindowInv /\ [Next]_vars
        => [sending_key_counter' # sending_key_counter => sending_key_counter \notin sent]_vars
  BY <1>1
<1> QED  BY <1>2, WindowInvariant, PTL DEF Spec, NonceIsFresh

(* What estimate_loss divides: as many packets as were delivered, and no    *)
(* more than were expected.                                                 *)
THEOREM LossEstimates == Spec => []LossEstimateIsSound
<1>1. WindowInv => LossEstimateIsSound
  <2> SUFFICES ASSUME WindowInv PROVE LossEstimateIsSound
    OBVIOUS
  <2>1. next \in Nat /\ delivered \subseteq 0..(next - 1) /\ receive_cnt = Cardinality(delivered)
    BY DEF WindowInv
  <2>2. IsFiniteSet(0..(next - 1)) /\ Cardinality(0..(next - 1)) = next
    <3>1. 0 \in Int /\ next - 1 \in Int
      BY <2>1
    <3>2. IsFiniteSet(0..(next - 1))
          /\ Cardinality(0..(next - 1)) = IF 0 > next - 1 THEN 0 ELSE (next - 1) - 0 + 1
      BY <3>1, FS_Interval
    <3> QED  BY <2>1, <3>2
  <2>3. Cardinality(delivered) <= next
    BY <2>1, <2>2, FS_Subset
  <2> QED  BY <2>1, <2>3 DEF LossEstimateIsSound
<1> QED  BY <1>1, WindowInvariant, PTL

(* The bitmap implements the ideal window: a step of the validator is a     *)
(* delivery, a refusal or a rejection of a forgery that SlidingWindow       *)
(* allows, or leaves what it sees alone (ReceivingKeyCounterValidator,      *)
(* receive_packet_data).                                                    *)
THEOREM WindowImplemented == Spec => ImplementsWindow
<1>1. Init => Window!Init
  BY DEF Init, Window!Init
<1>2. WindowInv /\ [Next]_vars => [Window!Next]_<<delivered, next, verdict>>
  <2> SUFFICES ASSUME WindowInv, [Next]_vars
               PROVE  Window!Next \/ UNCHANGED <<delivered, next, verdict>>
    OBVIOUS
  <2>1. CASE Send \/ UNCHANGED vars
    BY <2>1 DEF Send, receiver, vars
  <2>2. ASSUME NEW w \in Receiver, NEW c \in U64, QuickCheck(w, c)
        PROVE  UNCHANGED <<delivered, next, verdict>>
    BY <2>2 DEF QuickCheck
  <2>3. ASSUME NEW w \in Receiver, NEW c \in U64, QuickCheckRefused(w, c) PROVE Window!Next
    <3>1. c \in Nat /\ c < REJECT_AFTER_MESSAGES /\ ~will_accept(c)
      BY <2>3, WindowAssumption DEF QuickCheckRefused, WindowInv
    <3>2. c \in delivered \/ c + N_BITS < next
      BY <3>1, RefusedIsOld
    <3> QED  BY <2>3, <3>2 DEF QuickCheckRefused, Window!Next, Window!Refuse
  <2>4. ASSUME NEW w \in Receiver, Receive(w) PROVE Window!Next
    <3> DEFINE c == decrypting[w]
    <3>1. c \in U64 /\ c \in Nat
      BY <2>4, DeliverKeepsInv
    <3>2. c \notin delivered /\ c + N_BITS >= next
      <4>1. N_BITS \in Nat /\ next \in Nat
        BY Sizes DEF WindowInv
      <4> QED  BY <2>4, <3>1, <4>1, RefusedIsOld DEF Receive
    <3>3. /\ delivered' = delivered \cup {c} /\ verdict' = <<"delivered", c>>
          /\ next' = IF c >= next THEN c + 1 ELSE next
      BY <2>4 DEF Receive, Deliver, Mark
    <3> QED  BY <3>1, <3>2, <3>3 DEF Window!Next, Window!Deliver
  <2>5. ASSUME NEW w \in Receiver, ReceiveRefused(w) PROVE Window!Next
    <3> DEFINE c == decrypting[w]
    <3>1. c \in U64 /\ c \in Nat /\ Refused(c) /\ verdict' = <<"refused", c>>
          /\ UNCHANGED <<delivered, next>>
      BY <2>5 DEF ReceiveRefused, WindowInv
    <3> HIDE DEF c
    <3>2. c \in delivered \/ c + N_BITS < next
      BY <3>1, RefusedIsOld
    <3> QED  BY <3>1, <3>2 DEF Window!Next, Window!Refuse
  <2>6. ASSUME NEW c \in U64, ReceiveForged(c) PROVE Window!Next
    BY <2>6 DEF ReceiveForged, Window!Next, Window!Discard
  <2> QED  BY <2>1, <2>2, <2>3, <2>4, <2>5, <2>6 DEF Next
<1> QED  BY <1>1, <1>2, WindowInvariant, PTL DEF Spec, ImplementsWindow, Window!Spec
=============================================================================
